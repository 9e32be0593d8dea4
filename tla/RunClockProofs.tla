--------------------------- MODULE RunClockProofs ---------------------------
(***************************************************************************)
(* However many writes are under way and however they overtake each other, *)
(* a run reports the time it worked, up to how late its writes were.       *)
(***************************************************************************)
EXTENDS RunClock, FiniteSetTheorems, TLAPS

Stamps == Nat \cup {Unset}
Verbs == {"none", "pause", "cancel", "bank", "resume", "finish", "halt"}
Statuses == {"running", "paused"} \cup ClosedStatuses
RowTypes == [status : Statuses, startedAt : Int, finishedAt : Stamps,
             pausedAt : Stamps, paused : Int, segment : Int]
HandTypes == [verb : Verbs, stamp : Stamps, segment : Int,
              pausedAt : Stamps, paused : Int, banks : Int]

ClockTypes ==
    /\ wall \in Nat /\ measured \in BOOLEAN
    /\ run \in RowTypes /\ tasks \in SUBSET Int
    /\ hand \in [Hands -> HandTypes]
    /\ ran \in Nat /\ downtime \in Nat /\ late \in Nat

(* The columns of a row go with its status.                                *)
RowTimes(r) ==
    /\ r.status = "running" => r.pausedAt = Unset
    /\ r.status = "paused" => r.pausedAt # Unset
    /\ r.status \in ClosedStatuses <=> r.finishedAt # Unset

(* A write that is ready has its stamp, and a resume the sum it worked out *)
(* from what it read.                                                      *)
Ready(a) ==
    /\ a.verb \notin {"none", "bank"} => a.stamp # Unset
    /\ a.verb = "resume" /\ a.pausedAt # Unset =>
         a.banks = a.paused + (a.stamp - a.pausedAt)

HandsReady == \A h \in Hands : Ready(hand[h])

(* While the clock has not been set back, no stamp is ahead of it.         *)
Behind ==
    measured =>
        /\ run.finishedAt <= wall /\ run.pausedAt <= wall
        /\ \A h \in Hands : hand[h].stamp <= wall

(* What ActiveMillis is the nonnegative part of.                           *)
Account(t, r) ==
    (IF r.finishedAt = Unset THEN t ELSE r.finishedAt)
      - r.startedAt - r.paused
      - (IF r.pausedAt = Unset THEN 0
         ELSE AtLeastZero((IF r.finishedAt = Unset THEN t ELSE r.finishedAt) - r.pausedAt))

Accounted ==
    measured => /\ Account(wall, run) >= ran - late
                /\ Account(wall, run) <= ran + late + downtime

ClockIInv == ClockTypes /\ RowTimes(run) /\ HandsReady /\ Behind /\ Accounted

(* How late the write of `h` lands, as `late` counts it.                   *)
Lateness(h) ==
    AtLeastZero(wall - hand[h].stamp)
      + (IF run.finishedAt = Unset THEN 0
         ELSE AtLeastZero(hand[h].stamp - run.finishedAt))

-----------------------------------------------------------------------------
(* A run just started has worked no time yet.                              *)
LEMMA InitHolds == ClockInit => ClockIInv
  <1> SUFFICES ASSUME ClockInit PROVE ClockIInv
    OBVIOUS
  <1> USE DEF ClockInit, IdleHand, HandOf, Unset, AnySegment, ClosedStatuses
  <1>1. ClockTypes
    BY DEF ClockTypes, RowTypes, HandTypes, Stamps, Verbs, Statuses
  <1>2. RowTimes(run) /\ HandsReady /\ Behind
    BY DEF RowTimes, HandsReady, Ready, Behind
  <1>3. Accounted
    BY DEF Accounted, Account
  <1> QED
    BY <1>1, <1>2, <1>3 DEF ClockIInv

(* Putting a request or an idle hand in the place of another leaves the    *)
(* row, and with it the account, as it was.                                *)
LEMMA HandChanges ==
  ASSUME ClockIInv, NEW h \in Hands, NEW a \in HandTypes,
         Ready(a), measured => a.stamp <= wall,
         hand' = [hand EXCEPT ![h] = a], tasks' \in SUBSET Int,
         UNCHANGED <<wall, up, run, clockHistory>>
  PROVE  ClockIInv'
  <1> USE DEF ClockIInv
  <1>1. ClockTypes'
    BY DEF ClockTypes, clockHistory
  <1>2. HandsReady'
    BY DEF HandsReady, ClockTypes
  <1>3. Behind'
    BY DEF Behind, ClockTypes, clockHistory
  <1>4. RowTimes(run)' /\ Accounted'
    BY DEF RowTimes, Accounted, clockHistory
  <1> QED
    BY <1>1, <1>2, <1>3, <1>4

(* A hand with nothing to write.                                           *)
LEMMA IdleIsReady == IdleHand \in HandTypes /\ Ready(IdleHand) /\ IdleHand.stamp = -1
  BY DEF IdleHand, HandOf, HandTypes, Ready, Verbs, Stamps, Unset, AnySegment

(* A write its caller has stamped with the time it is.                     *)
LEMMA StampedIsReady ==
  ASSUME ClockIInv, NEW v \in Verbs \ {"none", "bank", "resume"}, NEW s \in Int
  PROVE  /\ Stamped(v, s) \in HandTypes /\ Ready(Stamped(v, s))
         /\ Stamped(v, s).stamp <= wall
  BY DEF ClockIInv, ClockTypes, Stamped, HandOf, HandTypes, Ready, Verbs, Stamps, Unset

(* A request is taken up, works out its sum, or is given up.               *)
LEMMA AskKeeps ==
  ASSUME ClockIInv, NEW h \in Hands,
         AskStop(h) \/ AskResume(h) \/ Bank(h) \/ WalkEnds(h) \/ Unwritten(h)
  PROVE  ClockIInv'
  <1> USE DEF ClockIInv
  <1>0. hand[h] \in HandTypes /\ wall \in Nat /\ run \in RowTypes /\ tasks \in SUBSET Int
    BY DEF ClockTypes
  <1>1. CASE AskStop(h)
    <2>1. PICK v \in {"pause", "cancel"} : Takes(h, Stamped(v, AnySegment))
      BY <1>1 DEF AskStop
    <2>2. v \in Verbs \ {"none", "bank", "resume"} /\ AnySegment \in Int
      BY DEF Verbs, AnySegment
    <2> QED
      BY <1>0, <1>1, <2>1, <2>2, StampedIsReady, HandChanges DEF AskStop, Takes
  <1>2. CASE AskResume(h)
    <2> DEFINE a == HandOf("bank", Unset, AnySegment, run.pausedAt, run.paused)
    <2>1. a \in HandTypes /\ Ready(a) /\ a.stamp <= wall
      BY <1>0 DEF HandOf, HandTypes, RowTypes, Ready, Verbs, Stamps, Unset, AnySegment
    <2>2. hand' = [hand EXCEPT ![h] = a]
      BY <1>2 DEF AskResume, Takes
    <2> HIDE DEF a
    <2> QED
      BY <1>0, <1>2, <2>1, <2>2, HandChanges DEF AskResume
  <1>3. CASE Bank(h)
    <2> DEFINE b == hand[h]
               sum == b.paused + (IF b.pausedAt = Unset THEN 0 ELSE wall - b.pausedAt)
               a == [b EXCEPT !.verb = "resume", !.stamp = wall, !.banks = sum]
    <2>1. b \in HandTypes /\ b.paused \in Int /\ b.pausedAt \in Nat \cup {-1}
      BY <1>0 DEF HandTypes, Stamps, Unset
    <2>2. a \in HandTypes
      <3>1. sum \in Int /\ wall \in Stamps /\ "resume" \in Verbs
        BY <1>0, <2>1 DEF Stamps, Verbs, Unset
      <3> HIDE DEF sum
      <3> QED
        BY <2>1, <3>1 DEF HandTypes
    <2>3. a \in HandTypes /\ Ready(a) /\ a.stamp <= wall
      <3>1. /\ a.verb = "resume" /\ a.stamp = wall /\ a.pausedAt = b.pausedAt
            /\ a.paused = b.paused
            /\ a.banks = sum
        BY <2>1 DEF HandTypes
      <3> QED
        BY <1>0, <2>1, <2>2, <3>1 DEF Ready, Unset
    <2>4. hand' = [hand EXCEPT ![h] = a]
      BY <1>3 DEF Bank, ClockTypes, HandTypes
    <2> HIDE DEF a
    <2> QED
      BY <1>0, <1>3, <2>3, <2>4, HandChanges DEF Bank
  <1>4. CASE WalkEnds(h)
    <2>1. PICK g \in tasks, v \in Ends :
            /\ \E known \in {g, AnySegment} : Takes(h, Stamped(v, known))
            /\ tasks' = tasks \ {g}
      BY <1>4 DEF WalkEnds
    <2>2. PICK known \in {g, AnySegment} : Takes(h, Stamped(v, known))
      BY <2>1
    <2>3. v \in Verbs \ {"none", "bank", "resume"} /\ known \in Int /\ tasks' \in SUBSET Int
      BY <1>0, <2>1 DEF Verbs, Ends, AnySegment
    <2> QED
      BY <1>4, <2>2, <2>3, StampedIsReady, HandChanges DEF WalkEnds, Takes
  <1>5. CASE Unwritten(h)
    <2>1. tasks' \in SUBSET Int /\ IdleHand.stamp <= wall
      BY <1>0, <1>5, IdleIsReady DEF Unwritten
    <2> QED
      BY <1>5, <2>1, IdleIsReady, HandChanges DEF Unwritten
  <1> QED
    BY <1>1, <1>2, <1>3, <1>4, <1>5

(* A write that lands moves the account by no more than it is late.        *)
LEMMA WriteKeeps ==
  ASSUME ClockIInv, NEW h \in Hands, NEW applies \in BOOLEAN, NEW r \in RowTypes,
         Writes(h, applies, r), tasks' \in SUBSET Int,
         measured' \in BOOLEAN, measured' => measured,
         applies => RowTimes(r),
         applies /\ measured' =>
           /\ r.finishedAt <= wall /\ r.pausedAt <= wall
           /\ Account(wall, r) <= Account(wall, run) + Lateness(h)
           /\ Account(wall, r) >= Account(wall, run) - Lateness(h)
  PROVE  ClockIInv'
  <1> USE DEF ClockIInv
  <1>0. /\ wall' = wall /\ ran' = ran /\ downtime' = downtime
        /\ run' = (IF applies THEN r ELSE run)
        /\ hand' = [hand EXCEPT ![h] = IdleHand]
    BY DEF Writes
  <1>1. hand[h] \in HandTypes /\ wall \in Nat /\ late \in Nat /\ run \in RowTypes
    BY DEF ClockTypes
  <1>2. Lateness(h) \in Nat
    BY <1>1 DEF Lateness, AtLeastZero, HandTypes, RowTypes, Stamps, Unset
  <1>3. late' = IF ~applies \/ ~measured THEN late ELSE late + Lateness(h)
    <2>1. late + Lateness(h)
            = late + AtLeastZero(wall - hand[h].stamp)
                   + (IF run.finishedAt = Unset THEN 0
                      ELSE AtLeastZero(hand[h].stamp - run.finishedAt))
      BY <1>1 DEF Lateness, AtLeastZero, HandTypes, RowTypes, Stamps, Unset
    <2> QED
      BY <2>1 DEF Writes
  <1>4. ClockTypes'
    BY <1>0, <1>1, <1>2, <1>3, IdleIsReady DEF ClockTypes
  <1>5. HandsReady' /\ RowTimes(run)'
    BY <1>0, <1>1, IdleIsReady DEF HandsReady, ClockTypes, RowTimes
  <1>6. Behind'
    BY <1>0, <1>1, IdleIsReady DEF Behind, ClockTypes
  <1>7. Accounted'
    <2>1. Account(wall, run) \in Int /\ Account(wall, r) \in Int
      BY <1>1 DEF Account, AtLeastZero, RowTypes, Stamps, Unset
    <2>2. ran \in Nat /\ downtime \in Nat
      BY DEF ClockTypes
    <2>3. Accounted' = (measured' =>
             /\ Account(wall, run') >= ran - late'
             /\ Account(wall, run') <= ran + late' + downtime)
      BY <1>0 DEF Accounted, Account
    <2> QED
      BY <1>0, <1>1, <1>2, <1>3, <2>1, <2>2, <2>3 DEF Accounted
  <1> QED
    BY <1>4, <1>5, <1>6, <1>7

(* The account stops at the stamp of the pause.                            *)
LEMMA PauseKeeps ==
  ASSUME ClockIInv, NEW h \in Hands, WritePause(h)
  PROVE  ClockIInv'
  <1> DEFINE a == hand[h]
             applies == run.status = "running" /\ SegmentHolds(h)
             r == [run EXCEPT !.status = "paused", !.pausedAt = a.stamp]
  <1>1. /\ a \in HandTypes /\ a.stamp \in Nat /\ wall \in Nat
        /\ run \in RowTypes /\ RowTimes(run)
    BY DEF ClockIInv, ClockTypes, HandsReady, Ready, WritePause, HandTypes, Stamps, Unset
  <1>2. /\ r \in RowTypes
        /\ r.status = "paused" /\ r.pausedAt = a.stamp
        /\ r.finishedAt = run.finishedAt /\ r.startedAt = run.startedAt
        /\ r.paused = run.paused
    BY <1>1 DEF RowTypes, Statuses, Stamps
  <1>3. applies => RowTimes(r)
    BY <1>1, <1>2 DEF RowTypes, RowTimes, ClosedStatuses, Unset
  <1>4. ASSUME applies, measured
        PROVE  /\ r.finishedAt <= wall /\ r.pausedAt <= wall
               /\ Account(wall, r) <= Account(wall, run) + Lateness(h)
               /\ Account(wall, r) >= Account(wall, run) - Lateness(h)
    <2>1. a.stamp <= wall /\ run.finishedAt = -1 /\ run.pausedAt = -1
      BY <1>1, <1>4 DEF ClockIInv, Behind, RowTimes, ClosedStatuses, Unset
    <2> QED
      BY <1>1, <1>2, <2>1 DEF Account, Lateness, AtLeastZero, RowTypes, Unset
  <1>5. Writes(h, applies, r) /\ tasks' \in SUBSET Int /\ measured' = measured
    BY DEF WritePause, ClockIInv, ClockTypes
  <1> HIDE DEF applies, r
  <1>6. applies \in BOOLEAN
    BY DEF applies
  <1> QED
    BY <1>2, <1>3, <1>4, <1>5, <1>6, WriteKeeps DEF ClockIInv, ClockTypes

(* It stops at the stamp of the cancel, of a run running, paused or        *)
(* cancelled before.                                                       *)
LEMMA CancelKeeps ==
  ASSUME ClockIInv, NEW h \in Hands, WriteCancel(h)
  PROVE  ClockIInv'
  <1> DEFINE a == hand[h]
             applies == run.status \in CancellableFrom(a.verb) /\ SegmentHolds(h)
             r == [run EXCEPT !.status = "cancelled", !.finishedAt = a.stamp]
  <1>1. /\ a \in HandTypes /\ a.stamp \in Nat /\ wall \in Nat
        /\ run \in RowTypes /\ RowTimes(run)
    BY DEF ClockIInv, ClockTypes, HandsReady, Ready, WriteCancel, HandTypes, Stamps, Unset
  <1>2. /\ r \in RowTypes
        /\ r.status = "cancelled" /\ r.finishedAt = a.stamp
        /\ r.pausedAt = run.pausedAt /\ r.startedAt = run.startedAt
        /\ r.paused = run.paused
    BY <1>1 DEF RowTypes, Statuses, ClosedStatuses, Stamps
  <1>3. RowTimes(r)
    BY <1>1, <1>2 DEF RowTimes, ClosedStatuses, Unset
  <1>4. ASSUME measured
        PROVE  /\ r.finishedAt <= wall /\ r.pausedAt <= wall
               /\ Account(wall, r) <= Account(wall, run) + Lateness(h)
               /\ Account(wall, r) >= Account(wall, run) - Lateness(h)
    <2>1. a.stamp <= wall /\ run.finishedAt <= wall /\ run.pausedAt <= wall
      BY <1>4 DEF ClockIInv, Behind
    <2> QED
      BY <1>1, <1>2, <2>1 DEF Account, Lateness, AtLeastZero, RowTypes, Stamps, Unset
  <1>5. Writes(h, applies, r) /\ tasks' \in SUBSET Int /\ measured' = measured
    BY DEF WriteCancel, ClockIInv, ClockTypes
  <1> HIDE DEF applies, r
  <1>6. applies \in BOOLEAN
    BY DEF applies
  <1> QED
    BY <1>2, <1>3, <1>4, <1>5, <1>6, WriteKeeps DEF ClockIInv, ClockTypes

(* It stops at the stamp of the end, whatever the row says.                *)
LEMMA EndKeeps ==
  ASSUME ClockIInv, NEW h \in Hands, WriteEnd(h)
  PROVE  ClockIInv'
  <1> DEFINE a == hand[h]
             applies == TRUE
             r == [run EXCEPT !.status = "complete", !.finishedAt = a.stamp]
  <1>1. /\ a \in HandTypes /\ a.stamp \in Nat /\ wall \in Nat
        /\ run \in RowTypes /\ RowTimes(run)
    BY DEF ClockIInv, ClockTypes, HandsReady, Ready, WriteEnd, HandTypes, Stamps, Unset
  <1>2. /\ r \in RowTypes
        /\ r.status = "complete" /\ r.finishedAt = a.stamp
        /\ r.pausedAt = run.pausedAt /\ r.startedAt = run.startedAt
        /\ r.paused = run.paused
    BY <1>1 DEF RowTypes, Statuses, ClosedStatuses, Stamps
  <1>3. RowTimes(r)
    BY <1>1, <1>2 DEF RowTimes, ClosedStatuses, Unset
  <1>4. ASSUME measured
        PROVE  /\ r.finishedAt <= wall /\ r.pausedAt <= wall
               /\ Account(wall, r) <= Account(wall, run) + Lateness(h)
               /\ Account(wall, r) >= Account(wall, run) - Lateness(h)
    <2>1. a.stamp <= wall /\ run.finishedAt <= wall /\ run.pausedAt <= wall
      BY <1>4 DEF ClockIInv, Behind
    <2> QED
      BY <1>1, <1>2, <2>1 DEF Account, Lateness, AtLeastZero, RowTypes, Stamps, Unset
  <1>5. Writes(h, applies, r) /\ tasks' \in SUBSET Int /\ measured' = measured
    BY DEF WriteEnd, ClockIInv, ClockTypes
  <1> HIDE DEF applies, r
  <1>6. applies \in BOOLEAN
    BY DEF applies
  <1> QED
    BY <1>2, <1>3, <1>4, <1>5, <1>6, WriteKeeps DEF ClockIInv, ClockTypes

(* A resume of the pause it read banks that pause and starts the account   *)
(* again; one that writes over another pause ends what is measured.        *)
LEMMA ResumeKeeps ==
  ASSUME ClockIInv, NEW h \in Hands, WriteResume(h)
  PROVE  ClockIInv'
  <1> DEFINE a == hand[h]
             applies == run.status = "paused"
             r == ReadRunning(h)
  <1>1. /\ a \in HandTypes /\ a.stamp \in Nat /\ wall \in Nat
        /\ run \in RowTypes /\ RowTimes(run) /\ tasks \in SUBSET Int
        /\ a.verb = "resume" /\ Ready(a) /\ measured \in BOOLEAN
    BY DEF ClockIInv, ClockTypes, HandsReady, Ready, WriteResume, HandTypes, Stamps, Unset
  <1>2. /\ r \in RowTypes
        /\ r.status = "running" /\ r.pausedAt = -1 /\ r.paused = a.banks
        /\ r.finishedAt = run.finishedAt /\ r.startedAt = run.startedAt
    <2>1. a.banks \in Int /\ run.segment + 1 \in Int
      BY <1>1 DEF HandTypes, RowTypes
    <2> QED
      BY <1>1, <2>1 DEF ReadRunning, RowTypes, Statuses, Stamps, Unset
  <1>3. applies => RowTimes(r)
    BY <1>1, <1>2 DEF RowTimes, ClosedStatuses, Unset
  <1>4. ASSUME applies, measured, measured'
        PROVE  /\ r.finishedAt <= wall /\ r.pausedAt <= wall
               /\ Account(wall, r) <= Account(wall, run) + Lateness(h)
               /\ Account(wall, r) >= Account(wall, run) - Lateness(h)
    <2>1. a.stamp <= wall /\ run.pausedAt <= wall
      BY <1>4 DEF ClockIInv, Behind
    <2>2. run.finishedAt = -1 /\ run.pausedAt # -1
      BY <1>1, <1>4 DEF RowTimes, ClosedStatuses, Unset
    <2>3. run.pausedAt = a.pausedAt /\ run.paused = a.paused
      BY <1>4 DEF WriteResume
    <2>4. a.banks = run.paused + (a.stamp - run.pausedAt)
      BY <1>1, <2>2, <2>3 DEF Ready, Unset
    <2> QED
      BY <1>1, <1>2, <2>1, <2>2, <2>4
         DEF Account, Lateness, AtLeastZero, RowTypes, Stamps, Unset
  <1>5. /\ Writes(h, applies, r) /\ tasks' \in SUBSET Int
        /\ measured' \in BOOLEAN /\ (measured' => measured)
    BY <1>1 DEF WriteResume, RowTypes
  <1> HIDE DEF applies, r
  <1>6. applies \in BOOLEAN
    BY DEF applies
  <1> QED
    BY <1>2, <1>3, <1>4, <1>5, <1>6, WriteKeeps

-----------------------------------------------------------------------------
(* A process that ends leaves the row as it is.                            *)
LEMMA EndOfProcessKeeps == ClockIInv /\ ProcessEnds => ClockIInv'
  <1> SUFFICES ASSUME ClockIInv, ProcessEnds PROVE ClockIInv'
    OBVIOUS
  <1> USE IdleIsReady DEF ClockIInv, ProcessEnds, clockHistory
  <1>1. ClockTypes'
    BY DEF ClockTypes
  <1>2. HandsReady' /\ Behind'
    BY DEF HandsReady, Behind, ClockTypes
  <1>3. RowTimes(run)' /\ Accounted'
    BY DEF RowTimes, Accounted, Account
  <1> QED
    BY <1>1, <1>2, <1>3

(* Startup pauses the run as of now: its account stops where it stands.    *)
LEMMA BootKeeps == ClockIInv /\ Boot => ClockIInv'
  <1> SUFFICES ASSUME ClockIInv, Boot PROVE ClockIInv'
    OBVIOUS
  <1> USE DEF ClockIInv, Boot, clockHistory
  <1> DEFINE r == [run EXCEPT !.status = "paused", !.pausedAt = wall]
  <1>1. wall \in Nat /\ run \in RowTypes /\ RowTimes(run)
    BY DEF ClockTypes
  <1>2. /\ r \in RowTypes
        /\ r.status = "paused" /\ r.pausedAt = wall
        /\ r.finishedAt = run.finishedAt /\ r.startedAt = run.startedAt
        /\ r.paused = run.paused
    BY <1>1 DEF RowTypes, Statuses, Stamps
  <1>3. ASSUME run.status = "running"
        PROVE  RowTimes(r) /\ Account(wall, r) = Account(wall, run)
    <2>1. run.finishedAt = -1 /\ run.pausedAt = -1
      BY <1>1, <1>3 DEF RowTimes, ClosedStatuses, Unset
    <2>2. RowTimes(r)
      BY <1>1, <1>2, <2>1 DEF RowTimes, ClosedStatuses, Unset
    <2> QED
      BY <1>1, <1>2, <2>1, <2>2 DEF Account, AtLeastZero, RowTypes, Unset
  <1>4. \/ run' = run
        \/ run.status = "running" /\ run' = r
    OBVIOUS
  <1> HIDE DEF r
  <1>5. ClockTypes' /\ HandsReady'
    BY <1>2, <1>4 DEF ClockTypes, HandsReady
  <1>6. RowTimes(run)' /\ Behind'
    BY <1>1, <1>2, <1>3, <1>4 DEF RowTimes, Behind
  <1>7. Account(wall, run') = Account(wall, run)
    BY <1>3, <1>4
  <1>8. Accounted'
    BY <1>7 DEF Accounted, Account
  <1> QED
    BY <1>5, <1>6, <1>8

(* A tick counts for the account of a running row and of no other.         *)
LEMMA TickKeeps == ClockIInv /\ ClockTick => ClockIInv'
  <1> SUFFICES ASSUME ClockIInv, ClockTick PROVE ClockIInv'
    OBVIOUS
  <1> USE DEF ClockIInv, ClockTick
  <1>1. /\ wall \in Nat /\ run \in RowTypes /\ RowTimes(run)
        /\ ran \in Nat /\ downtime \in Nat /\ late \in Nat
    BY DEF ClockTypes
  <1>2. ClockTypes' /\ HandsReady' /\ RowTimes(run)'
    BY <1>1 DEF ClockTypes, HandsReady, RowTimes
  <1>3. Behind'
    BY <1>1 DEF Behind, ClockTypes, HandTypes, RowTypes, Stamps, Unset
  <1>4. ASSUME measured PROVE Accounted'
    <2>0. run.finishedAt \in Stamps /\ run.pausedAt \in Stamps /\ run.paused \in Int
          /\ run.startedAt \in Int /\ run.pausedAt <= wall
      BY <1>1, <1>4 DEF RowTypes, Behind
    <2>1. CASE run.status = "running"
      <3>1. run.finishedAt = -1 /\ run.pausedAt = -1
        BY <1>1, <2>1 DEF RowTimes, ClosedStatuses, Unset
      <3>2. Account(wall + 1, run) = Account(wall, run) + 1 /\ Account(wall, run) \in Int
        BY <1>1, <2>0, <3>1 DEF Account, Unset
      <3>3. \/ ran' = ran + 1 /\ downtime' = downtime
            \/ ran' = ran /\ downtime' = downtime + 1
        BY <1>1, <1>4, <2>1
      <3> QED
        BY <1>1, <1>4, <3>2, <3>3 DEF Accounted, Account
    <2>2. CASE run.status # "running"
      <3>1. Account(wall + 1, run) = Account(wall, run)
        BY <1>1, <2>0, <2>2 DEF Account, AtLeastZero, RowTimes, RowTypes, Statuses, Stamps, Unset
      <3>2. ran' = ran /\ downtime' = downtime
        BY <1>1, <2>2
      <3> QED
        BY <1>1, <1>4, <3>1, <3>2 DEF Accounted, Account
    <2> QED
      BY <2>1, <2>2
  <1>5. Accounted'
    BY <1>4 DEF Accounted
  <1> QED
    BY <1>2, <1>3, <1>5

(* Once the clock has been set back nothing is measured.                   *)
LEMMA SetBackKeeps == ClockIInv /\ SetBack => ClockIInv'
  <1> SUFFICES ASSUME ClockIInv, SetBack PROVE ClockIInv'
    OBVIOUS
  <1>1. wall' \in Nat /\ measured' = FALSE
    BY DEF SetBack, ClockIInv, ClockTypes
  <1> QED
    BY <1>1 DEF ClockIInv, SetBack, ClockTypes, HandsReady, RowTimes, Behind, Accounted

-----------------------------------------------------------------------------
(* The inductive invariant: behind ActiveIsTimeRun are the stamps that are *)
(* not ahead of the clock, the sums of the resumes under way, and the      *)
(* columns that go with each status.                                       *)
THEOREM ClockInvariance == ClockSpec => []ClockIInv
  <1>1. ASSUME ClockIInv, [ClockNext]_clockVars PROVE ClockIInv'
    <2>1. ASSUME NEW h \in Hands, Hand(h) PROVE ClockIInv'
      BY <1>1, <2>1, AskKeeps, PauseKeeps, CancelKeeps, ResumeKeeps, EndKeeps DEF Hand
    <2>2. CASE UNCHANGED clockVars
      BY <1>1, <2>2 DEF ClockIInv, ClockTypes, RowTimes, HandsReady, Behind, Accounted,
                        Account, clockVars
    <2> QED
      BY <1>1, <2>1, <2>2, EndOfProcessKeeps, BootKeeps, TickKeeps, SetBackKeeps
         DEF ClockNext
  <1> QED
    BY <1>1, InitHolds, PTL DEF ClockSpec

(* A run reports as work the time its row read running, up to how late the *)
(* writes that landed were and to the time no process was up, however many *)
(* writes are under way (run_status.rs, overlay_live_state).               *)
THEOREM ActiveTheorem == ClockSpec => []ActiveIsTimeRun
  <1>1. ASSUME ClockIInv PROVE ActiveIsTimeRun
    <2>1. Account(wall, run) \in Int /\ ActiveMillis = AtLeastZero(Account(wall, run))
      BY <1>1 DEF ClockIInv, ClockTypes, Account, ActiveMillis, OpenPause, ElapsedTo,
                  AtLeastZero, RowTypes, Stamps, Unset
    <2> QED
      BY <1>1, <2>1 DEF ActiveIsTimeRun, Accounted, ClockIInv, ClockTypes, AtLeastZero
  <1> QED
    BY <1>1, ClockInvariance, PTL
-----------------------------------------------------------------------------
(* Types *)

(* The requests to resume that are under way.                              *)
Resumes == {h \in Hands : hand[h].verb \in {"bank", "resume"}}

(* Each of them was counted, and each that was written too: that bounds    *)
(* the segments.  The times are those the clock has shown.                 *)
Counted ==
    /\ IsFiniteSet(Resumes)
    /\ run.segment \in Nat /\ controls \in Nat /\ controls <= MaxControls
    /\ run.segment + Cardinality(Resumes) <= controls

Timed ==
    /\ wall \in 0..MaxWall
    /\ run.finishedAt <= MaxWall /\ run.pausedAt <= MaxWall
    /\ \A h \in Hands : hand[h].stamp <= MaxWall

TypeIInv == ClockIInv /\ Counted /\ Timed /\ tasks \subseteq 0..run.segment

(* A hand takes up something else, or nothing.                             *)
LEMMA HandCounts ==
  ASSUME IsFiniteSet(Resumes), hand \in [Hands -> HandTypes], NEW h \in Hands, NEW a,
         hand' = [hand EXCEPT ![h] = a]
  PROVE  /\ IsFiniteSet(Resumes') /\ Cardinality(Resumes) \in Nat /\ Cardinality(Resumes') \in Nat
         /\ a.verb \in {"bank", "resume"} =>
              Cardinality(Resumes') = Cardinality(Resumes) + (IF h \in Resumes THEN 0 ELSE 1)
         /\ a.verb \notin {"bank", "resume"} =>
              Cardinality(Resumes') = Cardinality(Resumes) - (IF h \in Resumes THEN 1 ELSE 0)
  <1>1. CASE a.verb \in {"bank", "resume"}
    <2>1. Resumes' = Resumes \cup {h}
      BY <1>1 DEF Resumes
    <2> QED
      BY <1>1, <2>1, FS_AddElement, FS_CardinalityType
  <1>2. CASE a.verb \notin {"bank", "resume"}
    <2>1. Resumes' = Resumes \ {h}
      BY <1>2 DEF Resumes
    <2> QED
      BY <1>2, <2>1, FS_RemoveElement, FS_CardinalityType
  <1> QED
    BY <1>1, <1>2

(* What a hand takes up or gives up is counted and has a time that was.    *)
LEMMA AskTypes ==
  ASSUME TypeIInv, NEW h \in Hands,
         AskStop(h) \/ AskResume(h) \/ Bank(h) \/ WalkEnds(h) \/ Unwritten(h)
  PROVE  (Counted /\ Timed /\ tasks \subseteq 0..run.segment)'
  <1>0. /\ IsFiniteSet(Resumes) /\ hand \in [Hands -> HandTypes] /\ hand[h] \in HandTypes
        /\ wall \in 0..MaxWall /\ MaxWall \in Nat /\ run.segment \in Nat /\ controls \in Nat
        /\ controls <= MaxControls /\ MaxControls \in Nat
        /\ Cardinality(Resumes) \in Nat /\ run.segment + Cardinality(Resumes) <= controls
        /\ UNCHANGED <<wall, run>> /\ tasks' \subseteq tasks
    BY FS_CardinalityType, ClockAssumption
       DEF TypeIInv, ClockIInv, ClockTypes, Counted, Timed, AskStop, AskResume, Bank, WalkEnds, Unwritten
  <1>1. ASSUME AskStop(h) \/ WalkEnds(h) \/ Unwritten(h)
        PROVE  \E a : /\ hand' = [hand EXCEPT ![h] = a] /\ a.verb \notin {"bank", "resume"}
                      /\ a.stamp \in {wall, Unset} /\ controls' \in {controls, controls + 1}
                      /\ controls' <= MaxControls
    BY <1>0, <1>1 DEF AskStop, WalkEnds, Unwritten, Takes, Stamped, HandOf, IdleHand, Ends
  <1>2. ASSUME AskResume(h)
        PROVE  \E a : /\ hand' = [hand EXCEPT ![h] = a] /\ a.verb = "bank" /\ h \notin Resumes
                      /\ a.stamp = Unset /\ controls' = controls + 1 /\ controls' <= MaxControls
    <2> DEFINE a == HandOf("bank", Unset, AnySegment, run.pausedAt, run.paused)
    <2>1. a.verb = "bank" /\ a.stamp = Unset
      BY DEF HandOf
    <2>2. h \notin Resumes
      BY <1>2 DEF AskResume, Takes, Resumes
    <2>3. hand' = [hand EXCEPT ![h] = a] /\ controls' = controls + 1 /\ controls < MaxControls
      BY <1>2 DEF AskResume, Takes
    <2>4. controls + 1 <= MaxControls
      BY <1>0, <2>3
    <2> HIDE DEF a
    <2> WITNESS a
    <2> QED
      BY <2>1, <2>2, <2>3, <2>4
  <1>3. ASSUME Bank(h)
        PROVE  \E a : /\ hand' = [hand EXCEPT ![h] = a] /\ a.verb = "resume" /\ h \in Resumes
                      /\ a.stamp = wall /\ controls' = controls
    <2>1. h \in Resumes /\ controls' = controls
      BY <1>3 DEF Bank, Resumes
    <2>2. PICK n : hand' = [hand EXCEPT ![h] = [@ EXCEPT !.verb = "resume", !.stamp = wall,
                                                     !.banks = n]]
      BY <1>0, <1>3 DEF Bank
    <2>3. [hand[h] EXCEPT !.verb = "resume", !.stamp = wall, !.banks = n].verb = "resume"
          /\ [hand[h] EXCEPT !.verb = "resume", !.stamp = wall, !.banks = n].stamp = wall
      BY <1>0 DEF HandTypes
    <2> QED
      BY <2>1, <2>2, <2>3
  <1>4. Counted'
    BY <1>0, <1>1, <1>2, <1>3, HandCounts DEF Counted
  <1>5. Timed'
    BY <1>0, <1>1, <1>2, <1>3 DEF Timed, TypeIInv, Unset
  <1> QED
    BY <1>0, <1>4, <1>5 DEF TypeIInv

(* A write brings its stamp into the row; that of a resume counts as a     *)
(* segment from then on.                                                   *)
LEMMA WriteTypes ==
  ASSUME TypeIInv, NEW h \in Hands,
         WritePause(h) \/ WriteCancel(h) \/ WriteResume(h) \/ WriteEnd(h)
  PROVE  (Counted /\ Timed /\ tasks \subseteq 0..run.segment)'
  <1>0. /\ IsFiniteSet(Resumes) /\ hand \in [Hands -> HandTypes] /\ hand[h] \in HandTypes
        /\ MaxWall \in Nat /\ run \in RowTypes /\ run.segment \in Nat /\ controls \in Nat
        /\ Cardinality(Resumes) \in Nat /\ run.segment + Cardinality(Resumes) <= controls
        /\ hand[h].stamp <= MaxWall /\ UNCHANGED <<wall, controls>>
        /\ hand' = [hand EXCEPT ![h] = IdleHand]
    BY FS_CardinalityType, ClockAssumption
       DEF TypeIInv, ClockIInv, ClockTypes, Counted, Timed, WritePause, WriteCancel, WriteResume,
           WriteEnd, Writes
  <1>1. IdleHand.verb = "none" /\ IdleHand.stamp = -1
    BY DEF IdleHand, HandOf, Unset
  <1>2. CASE WritePause(h) \/ WriteCancel(h) \/ WriteEnd(h)
    <2>1. /\ run'.segment = run.segment /\ tasks' = tasks
          /\ run'.finishedAt \in {run.finishedAt, hand[h].stamp}
          /\ run'.pausedAt \in {run.pausedAt, hand[h].stamp}
      BY <1>0, <1>2 DEF WritePause, WriteCancel, WriteEnd, Writes, RowTypes
    <2>2. h \notin Resumes
      BY <1>2 DEF WritePause, WriteCancel, WriteEnd, Resumes
    <2>3. IsFiniteSet(Resumes') /\ Cardinality(Resumes') = Cardinality(Resumes)
      <3>1. /\ IsFiniteSet(Resumes')
            /\ Cardinality(Resumes') = Cardinality(Resumes) - (IF h \in Resumes THEN 1 ELSE 0)
        BY <1>0, <1>1, HandCounts
      <3> QED
        BY <1>0, <2>2, <3>1
    <2>4. Counted'
      BY <1>0, <2>1, <2>3 DEF TypeIInv, Counted
    <2>5. Timed'
      BY <1>0, <1>1, <2>1 DEF TypeIInv, Timed
    <2> QED
      BY <2>1, <2>4, <2>5 DEF TypeIInv
  <1>3. CASE WriteResume(h)
    <2>1. \/ run' = run /\ tasks' = tasks
          \/ /\ run'.segment = run.segment + 1 /\ tasks' \subseteq tasks \cup {run.segment + 1}
             /\ run'.finishedAt = run.finishedAt /\ run'.pausedAt = Unset
      BY <1>0, <1>3 DEF WriteResume, Writes, ReadRunning, RowTypes
    <2>2. h \in Resumes
      BY <1>3 DEF WriteResume, Resumes
    <2>3. Counted'
      <3>1. IsFiniteSet(Resumes') /\ Cardinality(Resumes') = Cardinality(Resumes) - 1
        BY <1>0, <1>1, <2>2, HandCounts
      <3> QED
        BY <1>0, <2>1, <3>1 DEF TypeIInv, Counted
    <2>4. Timed'
      BY <1>0, <1>1, <2>1 DEF TypeIInv, Timed, Unset
    <2>5. (tasks \subseteq 0..run.segment)'
      <3>1. tasks \subseteq 0..run.segment
        BY DEF TypeIInv
      <3>2. CASE run' = run /\ tasks' = tasks
        BY <3>1, <3>2
      <3>3. CASE run'.segment = run.segment + 1 /\ tasks' \subseteq tasks \cup {run.segment + 1}
        <4>1. 0..run.segment \subseteq 0..(run.segment + 1) /\ run.segment + 1 \in 0..(run.segment + 1)
          BY <1>0
        <4> QED
          BY <3>1, <3>3, <4>1
      <3> QED
        BY <2>1, <3>2, <3>3
    <2> QED
      BY <2>3, <2>4, <2>5
  <1> QED
    BY <1>2, <1>3

(* Time, the end of a process and a start.                                 *)
LEMMA AroundTypes ==
  ASSUME TypeIInv, ProcessEnds \/ Boot \/ ClockTick \/ SetBack
  PROVE  (Counted /\ Timed /\ tasks \subseteq 0..run.segment)'
  <1>0. /\ IsFiniteSet(Resumes) /\ Cardinality(Resumes) \in Nat /\ MaxWall \in Nat
        /\ run \in RowTypes /\ wall \in 0..MaxWall /\ UNCHANGED controls
        /\ run.segment \in Nat /\ controls \in Nat
    BY FS_CardinalityType, ClockAssumption
       DEF TypeIInv, ClockIInv, ClockTypes, Counted, Timed, ProcessEnds, Boot, ClockTick, SetBack
  <1>1. CASE ProcessEnds
    <2>1. Resumes' = {}
      BY <1>1 DEF ProcessEnds, IdleHand, HandOf, Resumes
    <2>2. IsFiniteSet(Resumes') /\ Cardinality(Resumes') = 0
      BY <2>1, FS_EmptySet
    <2>3. Counted'
      BY <1>0, <1>1, <2>2 DEF ProcessEnds, TypeIInv, Counted
    <2>4. \A h \in Hands : hand'[h].stamp = -1
      BY <1>1 DEF ProcessEnds, IdleHand, HandOf, Unset
    <2> QED
      BY <1>0, <1>1, <2>3, <2>4 DEF ProcessEnds, TypeIInv, Timed
  <1>2. CASE Boot
    <2>1. UNCHANGED <<wall, hand, tasks>> /\ run'.segment = run.segment
          /\ run'.finishedAt = run.finishedAt /\ run'.pausedAt \in {run.pausedAt, wall}
      BY <1>0, <1>2 DEF Boot, RowTypes
    <2>2. Resumes' = Resumes
      BY <2>1 DEF Resumes
    <2> QED
      BY <1>0, <2>1, <2>2 DEF TypeIInv, Counted, Timed
  <1>3. CASE ClockTick \/ SetBack
    <2>1. UNCHANGED <<run, hand, tasks>> /\ wall' \in 0..MaxWall
      BY <1>0, <1>3 DEF ClockTick, SetBack
    <2>2. Resumes' = Resumes
      BY <2>1 DEF Resumes
    <2> QED
      BY <1>0, <2>1, <2>2 DEF TypeIInv, Counted, Timed
  <1> QED
    BY <1>1, <1>2, <1>3

(* The clock, the row and the walks keep their types: the times of a row   *)
(* are times the clock has shown, and a run has no more segments than it   *)
(* was resumed.                                                            *)
THEOREM ClockTypeCorrect == ClockSpec => []ClockTypeOK
  <1>1. ClockInit => TypeIInv
    <2> SUFFICES ASSUME ClockInit PROVE TypeIInv
      OBVIOUS
    <2>1. Resumes = {}
      BY DEF ClockInit, Resumes, IdleHand, HandOf
    <2>2. IsFiniteSet(Resumes) /\ Cardinality(Resumes) = 0
      BY <2>1, FS_EmptySet
    <2> QED
      BY <2>2, InitHolds, ClockAssumption
         DEF ClockInit, TypeIInv, Counted, Timed, IdleHand, HandOf, Unset
  <1>2. TypeIInv /\ ClockIInv' /\ [ClockNext]_clockVars => TypeIInv'
    <2> SUFFICES ASSUME TypeIInv, ClockIInv', [ClockNext]_clockVars PROVE TypeIInv'
      OBVIOUS
    <2>1. CASE UNCHANGED clockVars
      BY <2>1 DEF TypeIInv, Counted, Timed, Resumes, clockVars
    <2>2. ASSUME NEW h \in Hands, Hand(h) PROVE TypeIInv'
      BY <2>2, AskTypes, WriteTypes DEF Hand, TypeIInv
    <2> QED
      BY <2>1, <2>2, AroundTypes DEF ClockNext, TypeIInv
  <1>3. TypeIInv => ClockTypeOK
    <2> SUFFICES ASSUME TypeIInv PROVE ClockTypeOK
      OBVIOUS
    <2>1. run.segment <= MaxControls
      BY ClockAssumption, FS_CardinalityType DEF TypeIInv, Counted
    <2> QED
      BY <2>1, ClockAssumption
         DEF TypeIInv, ClockIInv, ClockTypes, RowTypes, RowTimes, Statuses, Stamps, Unset, Counted, Timed,
             ClockTypeOK
  <1> QED
    BY <1>1, <1>2, <1>3, ClockInvariance, PTL DEF ClockSpec
=============================================================================
