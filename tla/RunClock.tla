------------------------------ MODULE RunClock ------------------------------
(***************************************************************************)
(* The clock of one catalog run: what its row keeps of time and what a     *)
(* status query makes of it (runs.rs, run_control.rs, run_status.rs).      *)
(* Every write is stamped by its caller before it is sent, waits for the   *)
(* database while time passes, and lands on whatever the row is by then.   *)
(*                                                                         *)
(* The system clock is `wall`; a tick stands for any stretch of time.  Why *)
(* a walk stops and what is signalled to it is module RunControl: here a   *)
(* walk may end in any of its four ways.                                   *)
(***************************************************************************)
EXTENDS Integers, FiniteSets

CONSTANTS
    Hands,        \* writes of the row that may be under way at once
    MaxControls,  \* BOUND: requests to pause, cancel or resume the run
    MaxWall,      \* BOUND: the latest time
    ClockSteps    \* may the system clock be set back (once)?

ASSUME ClockAssumption ==
    /\ MaxWall \in Nat \ {0} /\ MaxControls \in Nat
    /\ ClockSteps \in BOOLEAN

VARIABLES
    wall,       \* the system clock
    up,         \* the process runs
    run,        \* the row of the run
    tasks,      \* segments whose walk has not ended
    controls,   \* requests made so far
    hand,       \* each write under way: its verb, its stamp and what it has read
    ran,        \* history: time the row read running in a process that was up
    downtime,   \* history: time it read running and no process was up
    late,       \* history: time between the stamps and the writes that applied
    setBack,    \* history: the system clock was set back
    measured    \* history: it never was, and no resume wrote over a pause other
                \* than the one it read; ran, downtime and late stop counting then

clockVars == <<wall, up, run, tasks, controls, hand, ran, downtime, late, setBack, measured>>
clockHistory == <<ran, downtime, late, setBack, measured>>

Unset == -1
AnySegment == -1
ClosedStatuses == {"complete", "cancelled"}
\* finish and fail leave the same clock behind; a halt is a cancel with a tally.
Ends == {"finish", "pause", "halt"}

HandOf(verb, stamp, segment, pausedAt, paused) ==
    [verb |-> verb, stamp |-> stamp, segment |-> segment,
     pausedAt |-> pausedAt, paused |-> paused, banks |-> 0]

IdleHand == HandOf("none", Unset, AnySegment, Unset, 0)

AtLeastZero(n) == IF n < 0 THEN 0 ELSE n

(***************************************************************************)
(* What a status answers (overlay_live_state): elapsed time less the       *)
(* pauses that ended, less the one that has not.                           *)
(***************************************************************************)
ElapsedTo == IF run.finishedAt = Unset THEN wall ELSE run.finishedAt

OpenPause == IF run.pausedAt = Unset THEN 0 ELSE AtLeastZero(ElapsedTo - run.pausedAt)

ActiveMillis == AtLeastZero(ElapsedTo - run.startedAt - run.paused - OpenPause)

-----------------------------------------------------------------------------
\* A run just started.
ClockInit ==
    /\ wall = 1 /\ up = TRUE
    /\ run = [status |-> "running", startedAt |-> 1, finishedAt |-> Unset,
              pausedAt |-> Unset, paused |-> 0, segment |-> 0]
    /\ tasks = {0} /\ controls = 0
    /\ hand = [h \in Hands |-> IdleHand]
    /\ ran = 0 /\ downtime = 0 /\ late = 0
    /\ setBack = FALSE /\ measured = TRUE

Takes(h, request) ==
    /\ up /\ hand[h].verb = "none"
    /\ hand' = [hand EXCEPT ![h] = request]

Stamped(verb, segment) == HandOf(verb, wall, segment, Unset, 0)

\* A pause or a cancel looks its run up, finds no live cell and takes the time.
AskStop(h) == \E verb \in {"pause", "cancel"} :
    /\ controls < MaxControls /\ controls' = controls + 1
    /\ run.status \in (IF verb = "pause" THEN {"running"} ELSE {"running", "paused"})
    /\ Takes(h, Stamped(verb, AnySegment))
    /\ UNCHANGED <<wall, up, run, tasks, clockHistory>>

\* A resume reads the pause it is going to end, ...
AskResume(h) ==
    /\ run.status = "paused" /\ controls < MaxControls /\ controls' = controls + 1
    /\ Takes(h, HandOf("bank", Unset, AnySegment, run.pausedAt, run.paused))
    /\ UNCHANGED <<wall, up, run, tasks, clockHistory>>

BankReplacing(h) == LET a == hand[h] IN
    /\ a.verb = "bank"
    /\ hand' = [hand EXCEPT ![h].verb = "resume", ![h].stamp = wall,
                            ![h].banks = IF a.pausedAt = Unset THEN 0 ELSE wall - a.pausedAt]
    /\ UNCHANGED <<wall, up, run, tasks, controls, clockHistory>>

\* ... and adds its length to the pauses banked before.
Bank(h) == LET a == hand[h] IN
    /\ a.verb = "bank"
    /\ hand' = [hand EXCEPT ![h].verb = "resume", ![h].stamp = wall,
                            ![h].banks = a.paused + (IF a.pausedAt = Unset THEN 0
                                                     ELSE wall - a.pausedAt)]
    /\ UNCHANGED <<wall, up, run, tasks, controls, clockHistory>>

\* A walk is over and takes the time; it knows its segment unless it could
\* not read its row.
WalkEnds(h) == \E g \in tasks, verb \in Ends :
    /\ \E known \in {g, AnySegment} : Takes(h, Stamped(verb, known))
    /\ tasks' = tasks \ {g}
    /\ UNCHANGED <<wall, up, run, controls, clockHistory>>

-----------------------------------------------------------------------------
\* The write of `h` changes the row into `r`, or matches no row.
Writes(h, applies, r) ==
    /\ run' = IF applies THEN r ELSE run
    /\ late' = IF ~applies \/ ~measured THEN late
               ELSE late + AtLeastZero(wall - hand[h].stamp)
                         + (IF run.finishedAt = Unset THEN 0
                            ELSE AtLeastZero(hand[h].stamp - run.finishedAt))
    /\ hand' = [hand EXCEPT ![h] = IdleHand]
    /\ UNCHANGED <<wall, up, controls, ran, downtime, setBack>>

SegmentHolds(h) == hand[h].segment \in {AnySegment, run.segment}

WritePause(h) ==
    /\ hand[h].verb = "pause"
    /\ Writes(h, run.status = "running" /\ SegmentHolds(h),
              [run EXCEPT !.status = "paused", !.pausedAt = hand[h].stamp])
    /\ UNCHANGED <<tasks, measured>>

\* A walk brings its tally even to a run cancelled already.
CancellableFrom(verb) ==
    {"running", "paused"} \cup (IF verb = "halt" THEN {"cancelled"} ELSE {})

WriteCancel(h) ==
    /\ hand[h].verb \in {"cancel", "halt"}
    /\ Writes(h, run.status \in CancellableFrom(hand[h].verb) /\ SegmentHolds(h),
              [run EXCEPT !.status = "cancelled", !.finishedAt = hand[h].stamp])
    /\ UNCHANGED <<tasks, measured>>

\* One statement ends the pause and banks it.
ReadRunning(h) ==
    [run EXCEPT !.status = "running", !.pausedAt = Unset,
                !.paused = hand[h].banks, !.segment = @ + 1]

\* The row goes back to running and a walk is spawned, unless the request is
\* dropped before it spawns one.
WriteResume(h) == LET applies == run.status = "paused"
                      same == /\ run.pausedAt = hand[h].pausedAt
                              /\ run.paused = hand[h].paused
    IN
    /\ hand[h].verb = "resume"
    /\ measured' = (measured /\ (applies => same))
    /\ Writes(h, applies, ReadRunning(h))
    /\ tasks' \in (IF applies THEN {tasks, tasks \cup {run.segment + 1}} ELSE {tasks})

\* The write that asks the row nothing.
WriteEnd(h) ==
    /\ hand[h].verb = "finish"
    /\ Writes(h, TRUE, [run EXCEPT !.status = "complete", !.finishedAt = hand[h].stamp])
    /\ UNCHANGED <<tasks, measured>>

\* The database stays busy for every attempt, or the request is dropped.
Unwritten(h) ==
    /\ hand[h].verb # "none"
    /\ hand' = [hand EXCEPT ![h] = IdleHand]
    /\ UNCHANGED <<wall, up, run, tasks, controls, clockHistory>>

-----------------------------------------------------------------------------
ProcessEnds ==
    /\ up /\ up' = FALSE
    /\ tasks' = {}
    /\ hand' = [h \in Hands |-> IdleHand]
    /\ UNCHANGED <<wall, run, controls, clockHistory>>

\* Startup pauses what still reads running, as of now, or fails to.
Boot ==
    /\ ~up /\ up' = TRUE
    /\ \/ run' = IF run.status = "running"
                 THEN [run EXCEPT !.status = "paused", !.pausedAt = wall] ELSE run
       \/ run' = run
    /\ UNCHANGED <<wall, tasks, controls, hand, clockHistory>>

\* Time passes.
ClockTick ==
    /\ wall < MaxWall /\ wall' = wall + 1
    /\ LET spent(yes) == IF measured /\ run.status = "running" /\ yes THEN 1 ELSE 0
       IN ran' = ran + spent(up) /\ downtime' = downtime + spent(~up)
    /\ UNCHANGED <<up, run, tasks, controls, hand, late, setBack, measured>>

\* The system clock is set back.
SetBack ==
    /\ ClockSteps /\ ~setBack /\ wall > 0
    /\ setBack' = TRUE /\ measured' = FALSE
    /\ wall' \in 0..(wall - 1)
    /\ UNCHANGED <<up, run, tasks, controls, hand, ran, downtime, late>>

Hand(h) ==
    \/ AskStop(h) \/ AskResume(h) \/ Bank(h) \/ WalkEnds(h)
    \/ WritePause(h) \/ WriteCancel(h) \/ WriteResume(h) \/ WriteEnd(h) \/ Unwritten(h)

ClockNext == (\E h \in Hands : Hand(h)) \/ ProcessEnds \/ Boot \/ ClockTick \/ SetBack

ClockSpec == ClockInit /\ [][ClockNext]_clockVars

-----------------------------------------------------------------------------
(* Types: a paused row has the time of its pause, a running one has none,   *)
(* and exactly the closed ones have a time they ended at.                   *)
ClockTypeOK ==
    /\ wall \in 0..MaxWall
    /\ run.status \in {"running", "paused"} \cup ClosedStatuses
    /\ run.finishedAt \in 0..MaxWall \cup {Unset}
    /\ run.pausedAt \in 0..MaxWall \cup {Unset}
    /\ run.paused \in Int
    /\ run.segment \in 0..MaxControls
    /\ tasks \subseteq 0..run.segment
    /\ run.status = "running" => run.pausedAt = Unset
    /\ run.status = "paused" => run.pausedAt # Unset
    /\ run.status \in ClosedStatuses <=> run.finishedAt # Unset

(* The time a run reports as work is the time its row read running: however *)
(* pauses, resumes and ends overtake each other, it is off by no more than  *)
(* the writes that landed were late, and by the time no process was up.     *)
(* Except where the clock was set back, or a resume banked a pause another  *)
(* resume had ended: the code does lose the pause written in between.       *)
ActiveIsTimeRun ==
    measured =>
        /\ ActiveMillis >= ran - late
        /\ ActiveMillis <= ran + late + downtime

(* "the time the process spent down is banked and not later reported as     *)
(* work" (runs.rs:556-557).                                                 *)
DowntimeIsBanked ==
    up /\ run.status = "paused" /\ measured => ActiveMillis <= ran + late
=============================================================================
