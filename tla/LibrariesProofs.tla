--------------------------- MODULE LibrariesProofs ---------------------------
(***************************************************************************)
(* What is proved of the libraries and of the replacement of the services  *)
(* behind the FFI.                                                         *)
(***************************************************************************)
EXTENDS ReInit, Libraries, FiniteSetTheorems, SequenceTheorems, WellFoundedInduction, TLAPS

(***************************************************************************)
(* alexandria_index_init called again.                                     *)
(***************************************************************************)

CallRecord == [at : {"idle", "looked", "built", "ok", "busy", "failed"},
               services : 0..MaxServices]

RunRecord == [via : 0..MaxServices,
              row : {"none", "running", "paused", "over"},
              walk : {"none", "fetched", "spawned", "open", "ended"},
              unseen : SUBSET Inits]

\* Services are built once each, and put in the slot by the call that built
\* them.
ServicesAreOwn ==
  /\ \A i \in Inits : initCall[i].at \in {"built", "ok"} => initCall[i].services \in 1..built
  /\ \A i, j \in Inits :
       /\ initCall[i].at \in {"built", "ok"} /\ initCall[j].at \in {"built", "ok"}
       /\ initCall[i].services = initCall[j].services
       => i = j

\* A run goes by services that were in the slot when its starter fetched them.
RunsGoByTheSlot ==
  \A r \in Starts : begun[r].walk # "none" =>
    \E i \in Inits : initCall[i].at = "ok" /\ initCall[i].services = begun[r].via

\* A run live through the slot's services opened its cell after every call
\* that has looked and not built yet.
LookedBeforeItOpened ==
  \A i \in Inits, r \in Starts :
    /\ initCall[i].at = "looked"
    /\ begun[r].walk = "open" /\ begun[r].via = slot
    => i \in begun[r].unseen

InitIInv == InitTypeOK /\ ServicesAreOwn /\ RunsGoByTheSlot /\ LookedBeforeItOpened

\* Services nobody counts a live run of have none.
LEMMA NoLiveRuns ==
  ASSUME NEW s, ~ (live_runs(s) > 0)
  PROVE  \A r \in Starts : ~ (begun[r].walk = "open" /\ begun[r].via = s)
<1> DEFINE L == {r \in Starts : begun[r].walk = "open" /\ begun[r].via = s}
<1>1. IsFiniteSet(L)
  BY FS_Subset, ReInitAssumption
<1>2. Cardinality(L) \in Nat
  BY <1>1, FS_CardinalityType
<1>3. Cardinality(L) = 0
  BY <1>2 DEF live_runs
<1>4. L = {}
  BY <1>1, <1>3, FS_EmptySet
<1> QED  BY <1>4

\* A step of a run keeps the invariant.
LEMMA RunStepKept ==
  ASSUME InitIInv, NEW r \in Starts, Fetch(r) \/ StartRun(r) \/ OpenRun(r) \/ EndRun(r)
  PROVE  InitIInv'
<1>0. /\ begun \in [Starts -> RunRecord] /\ begun[r] \in RunRecord
      /\ slot \in 0..MaxServices /\ UNCHANGED <<slot, built, initCall>>
  BY DEF InitIInv, InitTypeOK, RunRecord, Fetch, StartRun, OpenRun, EndRun
<1>1. ASSUME NEW run \in RunRecord, begun' = [begun EXCEPT ![r] = run], run.walk # "none",
             \E i \in Inits : initCall[i].at = "ok" /\ initCall[i].services = run.via,
             \A i \in Inits : /\ initCall[i].at = "looked"
                              /\ run.walk = "open" /\ run.via = slot
                              => i \in run.unseen
      PROVE  InitIInv'
  <2>1. /\ begun' \in [Starts -> RunRecord] /\ begun'[r] = run
        /\ \A q \in Starts : q # r => begun'[q] = begun[q]
    BY <1>0, <1>1
  <2>2. InitTypeOK'
    BY <1>0, <2>1 DEF InitIInv, InitTypeOK, RunRecord
  <2>3. ServicesAreOwn'
    BY <1>0 DEF InitIInv, ServicesAreOwn
  <2>4. RunsGoByTheSlot'
    BY <1>0, <1>1, <2>1 DEF InitIInv, RunsGoByTheSlot
  <2>5. LookedBeforeItOpened'
    BY <1>0, <1>1, <2>1 DEF InitIInv, LookedBeforeItOpened
  <2> QED  BY <2>2, <2>3, <2>4, <2>5 DEF InitIInv
<1>2. CASE Fetch(r)
  <2> DEFINE run == [begun[r] EXCEPT !.walk = "fetched", !.via = slot]
  <2>1. run \in RunRecord /\ run.walk = "fetched" /\ run.via = slot
    BY <1>0 DEF RunRecord
  <2>2. begun' = [begun EXCEPT ![r] = run]
    BY <1>0, <1>2 DEF Fetch
  <2>3. \E i \in Inits : initCall[i].at = "ok" /\ initCall[i].services = slot
    BY <1>2 DEF Fetch, InitIInv, InitTypeOK
  <2> HIDE DEF run
  <2>4. run.walk # "none" /\ run.walk # "open"
    BY <2>1
  <2> QED  BY <1>1, <2>1, <2>2, <2>3, <2>4
<1>3. CASE StartRun(r)
  <2> DEFINE run == [begun[r] EXCEPT !.walk = "spawned", !.row = "running"]
  <2>1. run \in RunRecord /\ run.walk = "spawned" /\ run.via = begun[r].via
    BY <1>0 DEF RunRecord
  <2>2. begun' = [begun EXCEPT ![r] = run] /\ begun[r].walk = "fetched"
    BY <1>0, <1>3 DEF StartRun
  <2> HIDE DEF run
  <2> QED  BY <1>1, <2>1, <2>2 DEF InitIInv, RunsGoByTheSlot
<1>4. CASE OpenRun(r)
  <2> DEFINE unseen == {i \in Inits : initCall[i].at = "looked"}
             run == [begun[r] EXCEPT !.walk = "open", !.unseen = unseen]
  <2>1. run \in RunRecord /\ run.walk = "open" /\ run.via = begun[r].via /\ run.unseen = unseen
    BY <1>0 DEF RunRecord
  <2>2. begun' = [begun EXCEPT ![r] = run] /\ begun[r].walk = "spawned"
    BY <1>0, <1>4 DEF OpenRun
  <2>3. \A i \in Inits : initCall[i].at = "looked" => i \in run.unseen
    BY <2>1
  <2> HIDE DEF run, unseen
  <2>4. \E i \in Inits : initCall[i].at = "ok" /\ initCall[i].services = run.via
    BY <2>1, <2>2 DEF InitIInv, RunsGoByTheSlot
  <2> QED  BY <1>1, <2>1, <2>2, <2>3, <2>4
<1>5. CASE EndRun(r)
  <2>1. PICK row \in {"over", begun[r].row} :
          begun' = [begun EXCEPT ![r].walk = "ended", ![r].row = row]
    BY <1>5 DEF EndRun
  <2> DEFINE run == [begun[r] EXCEPT !.walk = "ended", !.row = row]
  <2>2. run \in RunRecord /\ run.walk = "ended" /\ run.via = begun[r].via
    BY <1>0 DEF RunRecord
  <2>3. begun' = [begun EXCEPT ![r] = run] /\ begun[r].walk = "open"
    BY <1>0, <1>5, <2>1 DEF EndRun
  <2> HIDE DEF run
  <2> QED  BY <1>1, <2>2, <2>3 DEF InitIInv, RunsGoByTheSlot
<1> QED  BY <1>2, <1>3, <1>4, <1>5

\* A step of a call keeps the invariant.
LEMMA InitCallStepKept ==
  ASSUME InitIInv, NEW i \in Inits, Look(i) \/ Refuses(i) \/ Builds(i) \/ Swaps(i)
  PROVE  InitIInv'
<1>0. /\ initCall \in [Inits -> CallRecord] /\ initCall[i] \in CallRecord
      /\ begun \in [Starts -> RunRecord] /\ slot \in 0..MaxServices /\ built \in 0..MaxServices
  BY DEF InitIInv, InitTypeOK, CallRecord, RunRecord
<1>1. ASSUME NEW to \in {"looked", "busy", "failed"},
             initCall' = [initCall EXCEPT ![i].at = to], UNCHANGED <<slot, built, begun>>,
             initCall[i].at # "ok",
             to = "looked" => \A r \in Starts : ~ (begun[r].walk = "open" /\ begun[r].via = slot)
      PROVE  InitIInv'
  <2> DEFINE call == [initCall[i] EXCEPT !.at = to]
  <2>1. call \in CallRecord /\ call.at = to
    BY <1>0 DEF CallRecord
  <2>2. initCall' = [initCall EXCEPT ![i] = call]
    BY <1>0, <1>1
  <2> HIDE DEF call
  <2>3. /\ initCall' \in [Inits -> CallRecord] /\ initCall'[i] = call
        /\ \A j \in Inits : j # i => initCall'[j] = initCall[j]
    BY <1>0, <2>1, <2>2
  <2>4. InitTypeOK'
    BY <1>0, <1>1, <2>3 DEF InitIInv, InitTypeOK, CallRecord
  <2>5. ServicesAreOwn'
    BY <1>1, <2>1, <2>3 DEF InitIInv, ServicesAreOwn
  <2>6. RunsGoByTheSlot'
    BY <1>1, <2>1, <2>3 DEF InitIInv, RunsGoByTheSlot
  <2>7. LookedBeforeItOpened'
    BY <1>1, <2>1, <2>3 DEF InitIInv, LookedBeforeItOpened
  <2> QED  BY <2>4, <2>5, <2>6, <2>7 DEF InitIInv
<1>2. CASE Look(i)
  <2>1. CASE slot # 0 /\ live_runs(slot) > 0
    BY <1>1, <1>2, <2>1 DEF Look
  <2>2. CASE ~ (slot # 0 /\ live_runs(slot) > 0)
    <3>1. \A r \in Starts : ~ (begun[r].walk = "open" /\ begun[r].via = slot)
      <4>1. CASE slot = 0
        BY <4>1 DEF InitIInv, RunsGoByTheSlot, ServicesAreOwn
      <4>2. CASE slot # 0
        BY <2>2, <4>2, NoLiveRuns
      <4> QED  BY <4>1, <4>2
    <3> QED  BY <1>1, <1>2, <2>2, <3>1 DEF Look
  <2> QED  BY <2>1, <2>2
<1>3. CASE Refuses(i)
  BY <1>1, <1>3 DEF Refuses
<1>4. CASE Builds(i)
  <2> DEFINE call == [at |-> "built", services |-> built + 1]
  <2>1. /\ initCall[i].at = "looked" /\ built < MaxServices /\ built' = built + 1
        /\ initCall' = [initCall EXCEPT ![i] = call] /\ slot' = slot
    BY <1>4 DEF Builds
  <2>2. built' \in 1..MaxServices /\ MaxServices \in Nat
    BY <1>0, <2>1, ReInitAssumption
  <2>3. call \in CallRecord /\ call.at = "built" /\ call.services = built'
    BY <2>1, <2>2 DEF CallRecord
  <2> HIDE DEF call
  <2>4. /\ initCall' \in [Inits -> CallRecord] /\ initCall'[i] = call
        /\ \A j \in Inits : j # i => initCall'[j] = initCall[j]
    BY <1>0, <2>1, <2>3
  <2>5. /\ begun' \in [Starts -> RunRecord]
        /\ \A r \in Starts : /\ begun'[r].walk = begun[r].walk /\ begun'[r].via = begun[r].via
                             /\ begun'[r].unseen = begun[r].unseen
    <3>1. CASE begun' = begun  BY <1>0, <3>1
    <3>2. CASE begun' = [r \in Starts |->
                   [begun[r] EXCEPT !.row = IF @ = "running" THEN "paused" ELSE @]]
      <4>1. \A r \in Starts : begun[r] \in RunRecord
        BY <1>0
      <4> QED  BY <3>2, <4>1 DEF RunRecord
    <3> QED  BY <1>4, <3>1, <3>2 DEF Builds
  <2>6. InitTypeOK'
    BY <1>0, <2>1, <2>2, <2>4, <2>5 DEF InitIInv, InitTypeOK, CallRecord, RunRecord
  <2>7. ServicesAreOwn'
    <3>1. \A j \in Inits : j # i /\ initCall'[j].at \in {"built", "ok"} =>
            initCall'[j].services \in 1..built
      BY <2>4 DEF InitIInv, ServicesAreOwn
    <3> QED  BY <1>0, <2>1, <2>2, <2>3, <2>4, <3>1 DEF InitIInv, ServicesAreOwn
  <2>8. RunsGoByTheSlot'
    BY <2>1, <2>4, <2>5 DEF InitIInv, RunsGoByTheSlot
  <2>9. LookedBeforeItOpened'
    BY <2>1, <2>3, <2>4, <2>5 DEF InitIInv, LookedBeforeItOpened
  <2> QED  BY <2>6, <2>7, <2>8, <2>9 DEF InitIInv
<1>5. CASE Swaps(i)
  <2>1. CASE initCall' = [initCall EXCEPT ![i].at = "busy"] /\ UNCHANGED slot
    BY <1>1, <1>5, <2>1 DEF Swaps
  <2>2. CASE /\ initCall' = [initCall EXCEPT ![i].at = "ok"]
             /\ slot' = initCall[i].services
    <3> DEFINE call == [initCall[i] EXCEPT !.at = "ok"]
    <3>1. call \in CallRecord /\ call.at = "ok" /\ call.services = initCall[i].services
      BY <1>0 DEF CallRecord
    <3>2. initCall' = [initCall EXCEPT ![i] = call] /\ UNCHANGED <<built, begun>>
          /\ initCall[i].at = "built"
      BY <1>0, <1>5, <2>2 DEF Swaps
    <3> HIDE DEF call
    <3>3. /\ initCall' \in [Inits -> CallRecord] /\ initCall'[i] = call
          /\ \A j \in Inits : j # i => initCall'[j] = initCall[j]
      BY <1>0, <3>1, <3>2
    <3>4. call = [at |-> "ok", services |-> slot']
      BY <2>2, <3>1 DEF CallRecord
    <3>5. InitTypeOK'
      BY <1>0, <2>2, <3>2, <3>3, <3>4 DEF InitIInv, InitTypeOK, CallRecord, RunRecord
    <3>6. ServicesAreOwn'
      BY <3>1, <3>2, <3>3 DEF InitIInv, ServicesAreOwn
    <3>7. RunsGoByTheSlot'
      BY <3>1, <3>2, <3>3 DEF InitIInv, RunsGoByTheSlot
    <3>8. \A r \in Starts : begun[r].walk # "none" => begun[r].via # slot'
      <4> SUFFICES ASSUME NEW r \in Starts, begun[r].walk # "none", begun[r].via = slot'
                   PROVE  FALSE
        OBVIOUS
      <4>1. PICK j \in Inits : initCall[j].at = "ok" /\ initCall[j].services = begun[r].via
        BY DEF InitIInv, RunsGoByTheSlot
      <4> QED  BY <2>2, <3>2, <4>1 DEF InitIInv, ServicesAreOwn
    <3>9. LookedBeforeItOpened'
      BY <3>2, <3>8 DEF LookedBeforeItOpened
    <3> QED  BY <3>5, <3>6, <3>7, <3>9 DEF InitIInv
  <2> QED  BY <1>5, <2>1, <2>2 DEF Swaps
<1> QED  BY <1>2, <1>3, <1>4, <1>5

\* The invariant of the replacement, from the first state on.
LEMMA InitInvariance == InitSpec => []InitIInv
<1>1. InitInit => InitIInv
  <2> SUFFICES ASSUME InitInit  PROVE InitIInv
    OBVIOUS
  <2>1. NotBegun \in RunRecord /\ NotBegun.walk = "none"
        /\ NotCalled \in CallRecord /\ NotCalled.at = "idle" /\ 0 \in 0..MaxServices
    BY ReInitAssumption DEF NotBegun, NotCalled, RunRecord, CallRecord
  <2>2. begun \in [Starts -> RunRecord] /\ initCall \in [Inits -> CallRecord]
        /\ \A r \in Starts : begun[r].walk = "none"
    BY <2>1 DEF InitInit
  <2>3. \A i \in Inits : initCall[i].at = "idle"
    BY <2>1 DEF InitInit
  <2>4. InitTypeOK
    BY <2>1, <2>2 DEF InitInit, InitTypeOK, RunRecord, CallRecord
  <2> QED  BY <2>2, <2>3, <2>4
           DEF InitIInv, ServicesAreOwn, RunsGoByTheSlot, LookedBeforeItOpened
<1>2. InitIInv /\ [InitNext]_initVars => InitIInv'
  <2> SUFFICES ASSUME InitIInv, [InitNext]_initVars  PROVE InitIInv'
    OBVIOUS
  <2>1. CASE UNCHANGED initVars
    BY <2>1 DEF initVars, InitIInv, InitTypeOK, ServicesAreOwn, RunsGoByTheSlot,
                LookedBeforeItOpened
  <2> QED  BY <2>1, RunStepKept, InitCallStepKept DEF InitNext
<1> QED  BY <1>1, <1>2, PTL DEF InitSpec

\* The types, and what the slot holds was put there by the call that built it
\* (alexandria-ffi/src/lib.rs, alexandria_index_init).
THEOREM InitTypeCorrect == InitSpec => []InitTypeOK
<1>1. InitIInv => InitTypeOK  BY DEF InitIInv
<1> QED  BY <1>1, InitInvariance, PTL

\* A second initialization pauses the row of a run walked through the slot's
\* services only if its first look came before the run opened its cell, for
\* any number of runs and of calls (alexandria_index_init: BUSY at the look).
THEOREM LookTheorem == InitSpec => LiveAtTheLookIsLeftAlone
<1> DEFINE LeftAlone ==
      \A r \in Starts :
        /\ begun[r].walk = "open" /\ begun[r].via = slot
        /\ begun[r].row = "running" /\ begun'[r].row = "paused"
        => \E i \in begun[r].unseen : initCall[i].at = "looked"
<1>1. InitIInv /\ [InitNext]_initVars => [LeftAlone]_initVars
  <2> SUFFICES ASSUME InitIInv, InitNext, NEW r \in Starts,
                      begun[r].walk = "open", begun[r].via = slot,
                      begun[r].row = "running", begun'[r].row = "paused"
               PROVE  \E i \in begun[r].unseen : initCall[i].at = "looked"
    OBVIOUS
  <2>0. begun \in [Starts -> RunRecord] /\ begun' # begun
    BY DEF InitIInv, InitTypeOK, RunRecord
  <2>1. ASSUME NEW q \in Starts, Fetch(q) \/ StartRun(q) \/ OpenRun(q) \/ EndRun(q)
        PROVE  FALSE
    BY <2>0, <2>1 DEF Fetch, StartRun, OpenRun, EndRun, RunRecord
  <2>2. ASSUME NEW i \in Inits, Builds(i)
        PROVE  i \in begun[r].unseen /\ initCall[i].at = "looked"
    BY <2>2 DEF Builds, InitIInv, LookedBeforeItOpened
  <2> QED  BY <2>0, <2>1, <2>2 DEF InitNext, Look, Refuses, Swaps
<1> QED  BY <1>1, InitInvariance, PTL DEF InitSpec, LiveAtTheLookIsLeftAlone

(***************************************************************************)
(* Paths.                                                                  *)
(***************************************************************************)

Paths == Seq(Segments)

\* A prefix agrees with the sequence at every place it has.
LEMMA PrefixPlaces ==
  ASSUME NEW s \in Paths, NEW t \in Paths
  PROVE  IsPrefix(s, t) <=> Len(s) <= Len(t) /\ \A i \in 1..Len(s) : s[i] = t[i]
<1>0. Len(s) \in Nat /\ Len(t) \in Nat
  BY DEF Paths
<1>1. SubSeq(s, 1, Len(s)) = s
  BY SubSeqFull DEF Paths
<1>2. ASSUME Len(s) <= Len(t)
      PROVE  /\ SubSeq(t, 1, Len(s)) \in Paths /\ Len(SubSeq(t, 1, Len(s))) = Len(s)
             /\ \A i \in 1..Len(s) : SubSeq(t, 1, Len(s))[i] = t[i]
  <2>1. \A i \in 1..Len(s) : t[i] \in Segments
    BY <1>0, <1>2, ElementOfSeq DEF Paths
  <2>2. /\ SubSeq(t, 1, Len(s)) \in Seq(Segments)
        /\ Len(SubSeq(t, 1, Len(s))) = IF 1 <= Len(s) THEN Len(s) - 1 + 1 ELSE 0
        /\ \A i \in 1..(Len(s) - 1 + 1) : SubSeq(t, 1, Len(s))[i] = t[1 + i - 1]
    BY <1>0, <2>1, SubSeqProperties
  <2> QED  BY <1>0, <2>2 DEF Paths
<1>3. ASSUME Len(s) <= Len(t)
      PROVE  s = SubSeq(t, 1, Len(s)) <=> \A i \in 1..Len(s) : s[i] = t[i]
  <2> DEFINE front == SubSeq(t, 1, Len(s))
  <2>1. /\ front \in Seq(Segments) /\ Len(front) = Len(s) /\ s \in Seq(Segments)
        /\ \A i \in 1..Len(s) : front[i] = t[i]
    BY <1>2, <1>3 DEF Paths
  <2> HIDE DEF front
  <2>2. (\A i \in 1..Len(s) : s[i] = front[i]) => s = front
    BY <2>1, SeqEqual
  <2> QED  BY <2>1, <2>2 DEF front
<1> QED  BY <1>1, <1>3 DEF IsPrefix

\* Two folders around one path are one inside the other.
LEMMA FoldersAroundMeet ==
  ASSUME NEW r \in Paths, NEW s \in Paths, NEW p \in Paths, Within(p, r), Within(p, s)
  PROVE  Overlapping(r, s)
<1>0. Len(r) \in Nat /\ Len(s) \in Nat
  BY DEF Paths
<1>1. /\ \A i \in 1..Len(r) : r[i] = p[i]
      /\ \A i \in 1..Len(s) : s[i] = p[i]
  BY PrefixPlaces DEF Within
<1>2. CASE Len(r) <= Len(s)
  BY <1>0, <1>1, <1>2, PrefixPlaces DEF Within, Overlapping
<1>3. CASE Len(s) <= Len(r)
  BY <1>0, <1>1, <1>3, PrefixPlaces DEF Within, Overlapping
<1> QED  BY <1>0, <1>2, <1>3

\* A path beneath a folder is a longer one.
LEMMA BeneathIsLonger ==
  ASSUME NEW p \in Paths, NEW r \in Paths
  PROVE  Beneath(p, r) <=> Len(r) < Len(p) /\ \A i \in 1..Len(r) : r[i] = p[i]
<1>0. Len(p) \in Nat /\ Len(r) \in Nat
  BY DEF Paths
<1>1. Len(p) = Len(r) /\ (\A i \in 1..Len(r) : r[i] = p[i]) => p = r
  BY SeqEqual DEF Paths
<1> QED  BY <1>0, <1>1, PrefixPlaces DEF Beneath, Within

\* A file and its sibling are beneath the same folders.
LEMMA SiblingsTogether ==
  ASSUME NEW p \in Paths, p # << >>, NEW n \in Segments
  PROVE  /\ Sibling(p, n) \in Paths /\ Sibling(p, n) # << >>
         /\ \A r \in Paths : Beneath(Sibling(p, n), r) <=> Beneath(p, r)
         /\ \A m : Sibling(Sibling(p, n), m) = Sibling(p, m)
<1> DEFINE front == SubSeq(p, 1, Len(p) - 1)
<1>0. Len(p) \in Nat \ {0}
  BY EmptySeq DEF Paths
<1>1. \A i \in 1..(Len(p) - 1) : p[i] \in Segments
  BY <1>0, ElementOfSeq DEF Paths
<1>2. /\ front \in Seq(Segments)
      /\ Len(front) = IF 1 <= Len(p) - 1 THEN Len(p) - 1 - 1 + 1 ELSE 0
      /\ \A i \in 1..(Len(p) - 1 - 1 + 1) : front[i] = p[1 + i - 1]
  BY <1>0, <1>1, SubSeqProperties
<1>4. Front(p) = front
  BY DEF Front
<1> HIDE DEF front
<1>3. /\ Len(front) = Len(p) - 1
      /\ \A i \in 1..(Len(p) - 1) : front[i] = p[i]
  <2>1. Len(front) = Len(p) - 1
    <3> DEFINE n1 == Len(p)
    <3>1. n1 \in Nat /\ n1 > 0 /\ Len(front) = IF 1 <= n1 - 1 THEN n1 - 1 - 1 + 1 ELSE 0
      BY <1>0, <1>2
    <3> HIDE DEF n1
    <3>2. Len(front) = n1 - 1
      BY <3>1
    <3> QED  BY <3>2 DEF n1
  <2>2. ASSUME NEW i \in 1..(Len(p) - 1)  PROVE front[i] = p[i]
    <3>1. i \in 1..(Len(p) - 1 - 1 + 1) /\ 1 + i - 1 = i
      BY <1>0
    <3> QED  BY <1>2, <3>1
  <2> QED  BY <2>1, <2>2
<1> DEFINE sib == Append(front, n)
<1>5. /\ sib \in Seq(Segments) /\ sib # << >> /\ Len(sib) = Len(front) + 1
      /\ \A i \in 1..Len(front) : sib[i] = front[i]
  BY <1>2, AppendProperties
<1>6. Len(sib) = Len(p) /\ \A i \in 1..(Len(p) - 1) : sib[i] = p[i]
  BY <1>0, <1>3, <1>5
<1>7. Sibling(p, n) = sib
  BY <1>4 DEF Sibling
<1>8. \A r \in Paths : Beneath(sib, r) <=> Beneath(p, r)
  <2> TAKE r \in Paths
  <2>1. Len(r) \in Nat  BY DEF Paths
  <2>2. Beneath(sib, r) <=> Len(r) < Len(sib) /\ \A i \in 1..Len(r) : r[i] = sib[i]
    BY <1>5, BeneathIsLonger DEF Paths
  <2>3. Beneath(p, r) <=> Len(r) < Len(p) /\ \A i \in 1..Len(r) : r[i] = p[i]
    BY BeneathIsLonger
  <2> HIDE DEF sib
  <2> QED  BY <1>0, <1>6, <2>1, <2>2, <2>3
<1>9. Front(sib) = front
  <2>1. Front(sib) = SubSeq(sib, 1, Len(front))
    BY <1>2, <1>5 DEF Front
  <2>2. \A i \in 1..Len(front) : sib[i] \in Segments
    BY <1>2, <1>5, ElementOfSeq
  <2> DEFINE again == SubSeq(sib, 1, Len(front))
  <2>3. /\ again \in Seq(Segments)
        /\ Len(again) = IF 1 <= Len(front) THEN Len(front) - 1 + 1 ELSE 0
        /\ \A i \in 1..(Len(front) - 1 + 1) : again[i] = sib[1 + i - 1]
    BY <1>0, <1>3, <2>2, SubSeqProperties
  <2> HIDE DEF again, sib
  <2>4. Len(again) = Len(front) /\ \A i \in 1..Len(again) : again[i] = front[i]
    BY <1>0, <1>3, <1>5, <2>3
  <2>5. again = front
    BY <1>2, <2>3, <2>4, SeqEqual
  <2> QED  BY <2>1, <2>5 DEF again
<1> QED  BY <1>4, <1>5, <1>7, <1>8, <1>9 DEF Sibling, Paths

\* A path cut at one root and put under another is beneath the other.
LEMMA RelocatedUnder ==
  ASSUME NEW p \in Paths, NEW old \in Paths, NEW new \in Paths
  PROVE  /\ Relocated(p, old, new) \in Paths
         /\ Beneath(p, old) => Beneath(Relocated(p, old, new), new)
         /\ new # << >> => Relocated(p, old, new) # << >>
<1> DEFINE rest == SubSeq(p, Len(old) + 1, Len(p))
<1>0. Len(p) \in Nat /\ Len(old) \in Nat /\ Len(new) \in Nat
  BY DEF Paths
<1>1. \A i \in (Len(old) + 1)..Len(p) : p[i] \in Segments
  BY <1>0, ElementOfSeq DEF Paths
<1>2. /\ rest \in Seq(Segments)
      /\ Len(rest) = IF Len(old) + 1 <= Len(p) THEN Len(p) - (Len(old) + 1) + 1 ELSE 0
  BY <1>0, <1>1, SubSeqProperties
<1>3. Len(rest) \in Nat /\ (Len(old) < Len(p) => Len(rest) > 0)
  BY <1>0, <1>2
<1>4. Relocated(p, old, new) = new \o rest
  BY DEF Relocated
<1> HIDE DEF rest
<1>5. /\ new \o rest \in Seq(Segments) /\ Len(new \o rest) = Len(new) + Len(rest)
      /\ \A i \in 1..(Len(new) + Len(rest)) :
           (new \o rest)[i] = IF i <= Len(new) THEN new[i] ELSE rest[i - Len(new)]
  BY <1>2, ConcatProperties DEF Paths
<1> DEFINE moved == new \o rest
<1>6. moved \in Paths /\ Len(moved) = Len(new) + Len(rest)
      /\ \A i \in 1..Len(new) : moved[i] = new[i]
  BY <1>0, <1>3, <1>5 DEF Paths
<1> HIDE DEF moved
<1>7. ASSUME Beneath(p, old)  PROVE Beneath(moved, new)
  <2>1. Len(old) < Len(p)
    BY <1>7, BeneathIsLonger
  <2> QED  BY <1>0, <1>3, <1>6, <2>1, BeneathIsLonger
<1>8. ASSUME new # << >>  PROVE moved # << >>
  <2>1. Len(new) > 0
    BY <1>0, <1>8, EmptySeq DEF Paths
  <2>2. Len(moved) > 0
    BY <1>0, <1>3, <1>6, <2>1
  <2> QED  BY <2>2, EmptySeq
<1> QED  BY <1>4, <1>6, <1>7, <1>8 DEF moved

\* The order of the natural numbers, as a relation.
Earlier == {p \in Nat \X Nat : p[1] < p[2]}

\* Every set of numbers that is not empty has a least one.
LEMMA LeastNumber ==
  ASSUME NEW T \in SUBSET Nat, T # {}
  PROVE  \E m \in T : \A n \in T : m <= n
<1>1. IsWellFoundedOn(Earlier, Nat)
  <2>1. Earlier = OpToRel(<, Nat)
    BY Zenon DEF OpToRel, Earlier
  <2> QED  BY <2>1, NatLessThanWellFounded, Zenon
<1>2. PICK m \in T : \A n \in T : ~ (<<n, m>> \in Earlier)
  BY <1>1, WFMin, Zenon
<1>3. \A i, j \in Nat : i < j => <<i, j>> \in Earlier
  BY DEF Earlier
<1>4. \A n \in T : m <= n
  <2> TAKE n \in T
  <2>1. ~ (n < m)
    BY <1>2, <1>3
  <2> QED  BY <2>1
<1> QED  BY <1>4

\* The roots a path is beneath have a deepest one: the insert of a file finds
\* a library around it, or there is none.
LEMMA HolderFound ==
  ASSUME NEW p \in Paths, \A l \in Registered : root[l] \in Paths
  PROVE  \/ HolderFor(p) = NoLib /\ \A l \in Registered : ~ Beneath(p, root[l])
         \/ HolderFor(p) \in Registered /\ Beneath(p, root[HolderFor(p)])
<1> DEFINE around == {l \in Registered : Beneath(p, root[l])}
           gaps == {Len(p) - Len(root[l]) : l \in around}
<1>1. CASE around = {}
  BY <1>1 DEF HolderFor
<1>2. CASE around # {}
  <2>1. \A l \in around : Len(root[l]) \in Nat /\ Len(p) \in Nat /\ Len(root[l]) < Len(p)
    BY BeneathIsLonger DEF Paths
  <2>2. gaps \in SUBSET Nat /\ gaps # {}
    BY <1>2, <2>1
  <2>3. PICK m \in gaps : \A n \in gaps : m <= n
    BY <2>2, LeastNumber
  <2>4. PICK l \in around : m = Len(p) - Len(root[l])
    BY <2>3
  <2>5. \A k \in around : Len(root[k]) <= Len(root[l])
    <3> TAKE k \in around
    <3>1. Len(p) - Len(root[l]) <= Len(p) - Len(root[k])
      BY <2>3, <2>4
    <3> QED  BY <2>1, <3>1
  <2>6. HolderFor(p) = CHOOSE j \in around : \A k \in around : Len(root[k]) <= Len(root[j])
    BY <1>2 DEF HolderFor
  <2>7. HolderFor(p) \in around
    BY <2>5, <2>6
  <2> QED  BY <2>7
<1> QED  BY <1>1, <1>2

(***************************************************************************)
(* Browsing.                                                               *)
(***************************************************************************)

\* A path cut after n segments, short of its end: what comes before the cut,
\* what comes after it, and what one segment more adds.
LEMMA CutAt ==
  ASSUME NEW place \in Paths, NEW n \in Nat, n < Len(place)
  PROVE  /\ SubSeq(place, 1, n) \in Paths /\ Len(SubSeq(place, 1, n)) = n
         /\ IsPrefix(SubSeq(place, 1, n), place) /\ place # SubSeq(place, 1, n)
         /\ Len(SubSeq(place, n + 1, Len(place))) = Len(place) - n
         /\ SubSeq(place, 1, n + 1)
              = Append(SubSeq(place, 1, n), Head(SubSeq(place, n + 1, Len(place))))
<1>0. Len(place) \in Nat
  BY DEF Paths
<1>1. \A i \in 1..Len(place) : place[i] \in Segments
  BY ElementOfSeq DEF Paths
<1> DEFINE front == SubSeq(place, 1, n)
           tail == SubSeq(place, n + 1, Len(place))
           longer == SubSeq(place, 1, n + 1)
<1>2. ASSUME NEW k \in Nat, k <= Len(place), NEW cut, cut = SubSeq(place, 1, k)
      PROVE  /\ cut \in Seq(Segments) /\ Len(cut) = k
             /\ \A i \in 1..k : cut[i] = place[i]
  <2>1. \A i \in 1..k : place[i] \in Segments
    BY <1>0, <1>1, <1>2
  <2>2. /\ SubSeq(place, 1, k) \in Seq(Segments)
        /\ Len(SubSeq(place, 1, k)) = IF 1 <= k THEN k - 1 + 1 ELSE 0
        /\ \A i \in 1..(k - 1 + 1) : SubSeq(place, 1, k)[i] = place[1 + i - 1]
    BY <2>1, SubSeqProperties
  <2>3. /\ cut \in Seq(Segments)
        /\ Len(cut) = IF 1 <= k THEN k - 1 + 1 ELSE 0
        /\ \A i \in 1..(k - 1 + 1) : cut[i] = place[1 + i - 1]
    BY <1>2, <2>2
  <2>4. Len(cut) = k
    BY <2>3
  <2>5. ASSUME NEW i \in 1..k  PROVE cut[i] = place[i]
    <3>1. i \in 1..(k - 1 + 1) /\ 1 + i - 1 = i
      OBVIOUS
    <3> QED  BY <2>3, <3>1
  <2> QED  BY <2>3, <2>4, <2>5
<1>3. front \in Seq(Segments) /\ Len(front) = n /\ \A i \in 1..n : front[i] = place[i]
  <2>1. n \in Nat /\ n <= Len(place)
    BY <1>0
  <2> HIDE DEF tail, longer
  <2> QED  BY <1>2, <2>1
<1>4. /\ longer \in Seq(Segments) /\ Len(longer) = n + 1
      /\ \A i \in 1..(n + 1) : longer[i] = place[i]
  <2>1. n + 1 \in Nat /\ n + 1 <= Len(place)
    BY <1>0
  <2> QED  BY <1>2, <2>1
<1>5. Len(tail) = Len(place) - n
  <2>1. \A i \in (n + 1)..Len(place) : place[i] \in Segments
    BY <1>0, <1>1
  <2>2. Len(tail) = IF n + 1 <= Len(place) THEN Len(place) - (n + 1) + 1 ELSE 0
    BY <1>0, <2>1, SubSeqProperties
  <2> HIDE DEF tail
  <2> QED  BY <1>0, <2>2
<1>6. Head(tail) = place[n + 1]
  <2>1. n + 1 \in 1..Len(place) /\ Len(place) \in (n + 1)..Len(place)
    BY <1>0
  <2> QED  BY <2>1, HeadTailOfSubSeq DEF Paths
<1> HIDE DEF front, tail, longer
<1>7. IsPrefix(front, place)
  BY <1>0, <1>3, PrefixPlaces DEF Paths
<1>8. place # front
  BY <1>0, <1>3
<1>9. longer = Append(front, place[n + 1])
  <2> DEFINE grown == Append(front, place[n + 1])
  <2>1. place[n + 1] \in Segments
    BY <1>0, <1>1
  <2>2. /\ grown \in Seq(Segments) /\ Len(grown) = Len(front) + 1
        /\ \A i \in 1..Len(front) : grown[i] = front[i]
        /\ grown[Len(front) + 1] = place[n + 1]
    BY <1>3, <2>1, AppendProperties
  <2> HIDE DEF grown
  <2>3. Len(grown) = n + 1 /\ \A i \in 1..(n + 1) : grown[i] = place[i]
    BY <1>3, <2>2
  <2>4. \A i \in 1..Len(longer) : longer[i] = grown[i]
    BY <1>4, <2>3
  <2>5. longer = grown
    BY <1>4, <2>2, <2>3, <2>4, SeqEqual
  <2> QED  BY <2>5 DEF grown
<1> QED  BY <1>3, <1>5, <1>6, <1>7, <1>8, <1>9 DEF front, tail, longer, Paths

\* A file some way below a folder is in one of its child folders, and a file
\* one segment below it is listed in it (queries.rs, level_of).
LEMMA MetAtLevel ==
  ASSUME NEW files, NEW folder, NEW f \in DOMAIN files,
         IsPrefix(folder, files[f]), files[f] # folder,
         NEW rest, rest = SubSeq(files[f], Len(folder) + 1, Len(files[f]))
  PROVE  /\ f \in LevelOf(files, folder).here <=> Len(rest) = 1
         /\ Len(rest) > 1 => Append(folder, Head(rest)) \in LevelOf(files, folder).folders
<1> DEFINE below == {g \in DOMAIN files : IsPrefix(folder, files[g]) /\ files[g] # folder}
           left(g) == SubSeq(files[g], Len(folder) + 1, Len(files[g]))
           inside == {h \in below : Len(left(h)) > 1}
<1>1. LevelOf(files, folder).here = {g \in below : Len(left(g)) = 1}
  BY Zenon DEF LevelOf
<1>2. LevelOf(files, folder).folders = {Append(folder, Head(left(g))) : g \in inside}
  BY Zenon DEF LevelOf
<1>3. f \in below /\ left(f) = rest
  OBVIOUS
<1> HIDE DEF below
<1>4. f \in LevelOf(files, folder).here <=> Len(rest) = 1
  BY <1>1, <1>3, Zenon
<1>5. ASSUME Len(rest) > 1
      PROVE  Append(folder, Head(rest)) \in LevelOf(files, folder).folders
  <2>1. f \in inside
    BY <1>3, <1>5, Zenon
  <2>2. Append(folder, Head(left(f))) = Append(folder, Head(rest))
    BY <1>3, Zenon
  <2> HIDE DEF inside
  <2> QED  BY <1>2, <2>1, <2>2, Zenon
<1> QED  BY <1>4, <1>5

\* A file is met at every level of its library's tree down to it: each folder
\* on the way lists the next, and the last lists the file.
Reached(f) ==
    LET l == holder[f]
        place == SubSeq(at[f], Len(root[l]) + 1, Len(at[f]))
    IN \A n \in 0..(Len(place) - 1) :
         LET level == Browse(l, SubSeq(place, 1, n))
         IN IF n = Len(place) - 1 THEN f \in level.here
            ELSE /\ f \notin level.here
                 /\ SubSeq(place, 1, n + 1) \in level.folders

\* Browsing down from the root of a library reaches every file of it beneath
\* the root.
LEMMA BrowsingReaches ==
  ASSUME NEW f \in Catalogued, at[f] \in Paths, root[holder[f]] \in Paths,
         Beneath(at[f], root[holder[f]])
  PROVE  Reached(f)
<1> DEFINE l == holder[f]
           place == SubSeq(at[f], Len(root[l]) + 1, Len(at[f]))
           files == Relative(l)
<1>1. f \in DOMAIN files /\ files[f] = place
  BY DEF Relative, Beneath
<1>2. Len(at[f]) \in Nat /\ Len(root[l]) \in Nat
  BY DEF Paths
<1>3. place \in Paths
  <2>1. \A i \in (Len(root[l]) + 1)..Len(at[f]) : at[f][i] \in Segments
    BY <1>2, ElementOfSeq DEF Paths
  <2> QED  BY <1>2, <2>1, SubSeqProperties DEF Paths
<1> HIDE DEF files, place
<1>4. ASSUME NEW n \in 0..(Len(place) - 1)
      PROVE  LET level == LevelOf(files, SubSeq(place, 1, n))
             IN IF n = Len(place) - 1 THEN f \in level.here
                ELSE /\ f \notin level.here
                     /\ SubSeq(place, 1, n + 1) \in level.folders
  <2> DEFINE folder == SubSeq(place, 1, n)
             rest == SubSeq(place, n + 1, Len(place))
  <2>0. Len(place) \in Nat
    BY <1>3 DEF Paths
  <2>1. n \in Nat /\ n < Len(place)
    BY <2>0
  <2>2. /\ Len(folder) = n /\ IsPrefix(folder, place) /\ place # folder
        /\ Len(rest) = Len(place) - n
        /\ SubSeq(place, 1, n + 1) = Append(folder, Head(rest))
    BY <1>3, <2>1, CutAt
  <2> HIDE DEF folder
  <2>3. rest = SubSeq(files[f], Len(folder) + 1, Len(files[f]))
    BY <1>1, <2>2
  <2> HIDE DEF rest
  <2>4. /\ f \in LevelOf(files, folder).here <=> Len(rest) = 1
        /\ Len(rest) > 1 => Append(folder, Head(rest)) \in LevelOf(files, folder).folders
    BY <1>1, <2>2, <2>3, MetAtLevel
  <2>5. CASE n = Len(place) - 1
    <3>1. Len(rest) = 1
      BY <2>0, <2>1, <2>2, <2>5
    <3> QED  BY <2>4, <2>5, <3>1 DEF folder
  <2>6. CASE n # Len(place) - 1
    <3>1. Len(rest) > 1 /\ Len(rest) # 1
      BY <2>0, <2>1, <2>2, <2>6
    <3> QED  BY <2>2, <2>4, <2>6, <3>1 DEF folder
  <2> QED  BY <2>5, <2>6
<1> QED  BY <1>4 DEF Reached, Browse, files, place

(***************************************************************************)
(* The calls: what each has read, and what its rows still are.             *)
(***************************************************************************)

AskRecord == [pc : AskPCs, op : {"none", "register", "move", "remove", "rename"},
             lib : Libs \cup {NoLib}, root : Paths, file : LibFiles \cup {NoLib},
             rivals : SUBSET Libs, stale : BOOLEAN]

RowsTyped ==
    /\ root \in [Libs -> Roots \cup {<< >>}]
    /\ at \in [LibFiles -> Paths]
    /\ holder \in [LibFiles -> Registered \cup {NoLib}]
    /\ \A f \in LibFiles \ Catalogued : holder[f] = NoLib
    /\ ask \in [Owners -> AskRecord]

\* Where a call may stand, and what it names.
InOrder(a) ==
    /\ a.pc = "find" => a.op \in {"move", "remove"}
    /\ a.pc = "overlap" => a.op \in {"register", "move"}
    /\ a.pc = "write" => a.op \in {"register", "move", "remove"}
    /\ a.pc = "claim" => a.op \in {"register", "move"}
    /\ a.pc = "rename" <=> a.op = "rename"
    /\ a.op \in {"register", "move"} => a.root \in Roots
    /\ a.op \in {"register", "move", "remove"} => a.lib \in Libs
    /\ a.op = "rename" => a.file \in Catalogued /\ a.root # << >>

\* A registration that has not written yet: its uuid is new.
Registering(a) == a.op = "register" /\ a.pc \in {"overlap", "write"}

Fresh(a) == Registering(a) => a.lib \notin Registered

\* A call about to write a root knows every library in its way that was
\* written since it looked.
KnowsRivals(a) ==
    a.pc = "write" /\ a.op \in {"register", "move"} =>
        \A k \in Registered \ {a.lib} : Overlapping(a.root, root[k]) => k \in a.rivals

\* The path a rename is about to write is a sibling of the one its row has,
\* unless the row was rewritten under it.
Follows(a) ==
    a.op = "rename" =>
        \/ a.stale
        \/ a.file \in strayed
        \/ \E n \in FileNames : a.root = Sibling(at[a.file], n)

CallsFit == \A o \in Owners :
    InOrder(ask[o]) /\ Fresh(ask[o]) /\ KnowsRivals(ask[o]) /\ Follows(ask[o])

\* Nobody else asks about the library of a registration under way.
Alone == \A o, p \in Owners : o # p /\ Registering(ask[o]) => ask[p].lib # ask[o].lib

\* A held file is beneath the root of its library.
HeldBeneath == \A f \in Catalogued \ strayed :
    holder[f] # NoLib => Beneath(at[f], root[holder[f]])

LibsIInv == /\ RowsTyped /\ CallsFit /\ Alone
            /\ OverlapsWereRaced /\ HeldBeneath /\ NothingLeftUnclaimed

\* The paths that requests and index runs name.
LEMMA NamedPaths ==
  /\ \A r \in Roots \cup Spots : r \in Paths /\ r # << >>
  /\ << >> \in Paths /\ FileNames \subseteq Segments /\ NoLib \notin Libs
<1>1. << >> \in Seq(Segments)
  OBVIOUS
<1>2. FileNames \subseteq Segments
  BY DEF Segments
<1> QED  BY <1>1, <1>2, LibrariesAssumption DEF Paths

\* The request that asks nothing.
LEMMA IdleFits ==
  /\ IdleAsk \in AskRecord
  /\ InOrder(IdleAsk) /\ Fresh(IdleAsk) /\ KnowsRivals(IdleAsk) /\ Follows(IdleAsk)
  /\ ~ Registering(IdleAsk) /\ IdleAsk.lib = NoLib /\ IdleAsk.pc = "idle"
<1>1. IdleAsk \in AskRecord
  BY NamedPaths DEF AskRecord, IdleAsk, AskPCs
<1>2. InOrder(IdleAsk) /\ ~ Registering(IdleAsk)
  BY DEF InOrder, Registering, IdleAsk
<1>3. Fresh(IdleAsk) /\ KnowsRivals(IdleAsk) /\ Follows(IdleAsk)
  BY <1>2 DEF Fresh, KnowsRivals, Follows, IdleAsk
<1> QED  BY <1>1, <1>2, <1>3 DEF IdleAsk

\* Nothing is registered, catalogued or asked at first.
LEMMA LibsInitial == LibrariesInit => LibsIInv
<1> SUFFICES ASSUME LibrariesInit  PROVE LibsIInv
  OBVIOUS
<1>1. Registered = {} /\ Catalogued = {} /\ ask = [o \in Owners |-> IdleAsk]
  BY DEF LibrariesInit, Registered, Catalogued
<1>2. RowsTyped
  BY <1>1, IdleFits, NamedPaths DEF LibrariesInit, RowsTyped
<1>3. CallsFit /\ Alone
  BY <1>1, IdleFits DEF CallsFit, Alone
<1>4. OverlapsWereRaced /\ HeldBeneath /\ NothingLeftUnclaimed
  BY <1>1 DEF OverlapsWereRaced, HeldBeneath, NothingLeftUnclaimed
<1> QED  BY <1>2, <1>3, <1>4 DEF LibsIInv

\* A step of one call that writes no row: it reads and goes on, or ends.
LEMMA CallStep ==
  ASSUME LibsIInv, UNCHANGED <<root, at, holder, slipped, strayed>>,
         NEW o \in Owners, NEW a \in AskRecord, ask' = [ask EXCEPT ![o] = a],
         InOrder(a), Fresh(a), KnowsRivals(a), Follows(a),
         \/ a.lib \in {NoLib, ask[o].lib}
         \/ \A p \in Owners : Registering(ask[p]) => ask[p].lib # a.lib,
         Registering(a) => \A p \in Owners \ {o} : ask[p].lib # a.lib,
         unclaimed \subseteq unclaimed',
         ask[o].pc = "claim" => ask[o].lib \in unclaimed'
  PROVE  LibsIInv'
<1>0. ask \in [Owners -> AskRecord]
  BY DEF LibsIInv, RowsTyped
<1>1. Registered' = Registered /\ Catalogued' = Catalogued
  BY DEF Registered, Catalogued
<1>2. \A p \in Owners : ask'[p] = IF p = o THEN a ELSE ask[p]
  BY <1>0
<1>3. RowsTyped'
  BY <1>0, <1>1, <1>2 DEF LibsIInv, RowsTyped
<1>4. CallsFit'
  <2> SUFFICES ASSUME NEW p \in Owners
               PROVE  (InOrder(ask[p]) /\ Fresh(ask[p]) /\ KnowsRivals(ask[p])
                         /\ Follows(ask[p]))'
    BY DEF CallsFit
  <2>1. InOrder(ask'[p]) /\ Fresh(ask'[p]) /\ KnowsRivals(ask'[p]) /\ Follows(ask'[p])
    BY <1>2 DEF LibsIInv, CallsFit
  <2>2. InOrder(ask[p])'
    BY <1>1, <2>1 DEF InOrder
  <2>3. Fresh(ask[p])'
    BY <1>1, <2>1 DEF Fresh, Registering
  <2>4. KnowsRivals(ask[p])'
    BY <1>1, <2>1 DEF KnowsRivals
  <2>5. Follows(ask[p])'
    BY <2>1 DEF Follows
  <2> QED  BY <2>2, <2>3, <2>4, <2>5
<1>5. Alone'
  <2> SUFFICES ASSUME NEW p \in Owners, NEW q \in Owners, p # q, Registering(ask'[p])
               PROVE  ask'[q].lib # ask'[p].lib
    BY DEF Alone, Registering
  <2>1. CASE p = o
    BY <1>2, <2>1
  <2>2. CASE p # o /\ q # o
    BY <1>2, <2>2 DEF LibsIInv, Alone
  <2>3. CASE p # o /\ q = o
    <3>1. Registering(ask[p]) /\ ask[p].lib \in Libs
      BY <1>2, <2>3 DEF LibsIInv, CallsFit, InOrder, Registering
    <3>2. ask[o].lib # ask[p].lib
      BY <2>3, <3>1 DEF LibsIInv, Alone
    <3> QED  BY <1>2, <2>3, <3>1, <3>2, NamedPaths
  <2> QED  BY <2>1, <2>2, <2>3
<1>6. OverlapsWereRaced' /\ HeldBeneath'
  BY <1>1 DEF LibsIInv, OverlapsWereRaced, HeldBeneath
<1>7. NothingLeftUnclaimed'
  <2> SUFFICES ASSUME NEW l \in Registered
               PROVE  \/ l \in unclaimed'
                      \/ \E p \in Owners : ask'[p].pc = "claim" /\ ask'[p].lib = l
                      \/ Claimable(l)' \subseteq strayed'
    BY <1>1 DEF NothingLeftUnclaimed
  <2>1. Claimable(l)' = Claimable(l)
    BY <1>1 DEF Claimable
  <2> QED  BY <1>2, <2>1 DEF LibsIInv, NothingLeftUnclaimed
<1> QED  BY <1>3, <1>4, <1>5, <1>6, <1>7 DEF LibsIInv

\* A call that ends without a claim to make, the rows as they are.
LEMMA EndKept ==
  ASSUME LibsIInv, UNCHANGED <<root, at, holder, slipped, strayed>>,
         NEW o \in Owners, Answered(o), unclaimed \subseteq unclaimed',
         ask[o].pc = "claim" => ask[o].lib \in unclaimed'
  PROVE  LibsIInv'
<1>1. ask' = [ask EXCEPT ![o] = IdleAsk]
  BY DEF Answered
<1> QED  BY <1>1, IdleFits, CallStep

\* A new request.
LEMMA AskKept ==
  ASSUME LibsIInv, NEW o \in Owners,
         AskRegister(o) \/ AskMove(o) \/ AskRemove(o) \/ AskRename(o)
  PROVE  LibsIInv'
<1>0. /\ ask \in [Owners -> AskRecord] /\ at \in [LibFiles -> Paths]
      /\ Registered \subseteq Libs /\ Catalogued \subseteq LibFiles
      /\ \A p \in Owners : Registering(ask[p]) => ask[p].lib \in Libs \ Registered
  BY DEF LibsIInv, RowsTyped, CallsFit, InOrder, Fresh, Registering, Registered, Catalogued
<1>1. CASE AskRegister(o)
  <2>1. PICK l \in Libs \ Registered, r \in Roots :
             /\ \A p \in Owners : ask[p].lib # l
             /\ Asks(o, [IdleAsk EXCEPT !.pc = "overlap", !.op = "register",
                                        !.lib = l, !.root = r])
    BY <1>1 DEF AskRegister
  <2> DEFINE a == [IdleAsk EXCEPT !.pc = "overlap", !.op = "register", !.lib = l, !.root = r]
  <2>2. a \in AskRecord /\ a.op = "register" /\ a.pc = "overlap" /\ a.lib = l /\ a.root = r
    BY NamedPaths DEF AskRecord, IdleAsk, AskPCs
  <2>3. /\ ask' = [ask EXCEPT ![o] = a] /\ ask[o].pc = "idle"
        /\ UNCHANGED <<root, at, holder, slipped, strayed, unclaimed>>
    BY <2>1 DEF Asks
  <2> HIDE DEF a
  <2>4. InOrder(a) /\ Fresh(a) /\ KnowsRivals(a) /\ Follows(a)
    BY <2>2 DEF InOrder, Fresh, KnowsRivals, Follows
  <2>5. Registering(a) => \A p \in Owners \ {o} : ask[p].lib # a.lib
    BY <2>1, <2>2
  <2>6. \A p \in Owners : Registering(ask[p]) => ask[p].lib # a.lib
    BY <2>1, <2>2
  <2> QED  BY <2>2, <2>3, <2>4, <2>5, <2>6, CallStep
<1>2. CASE AskMove(o)
  <2>1. PICK l \in Registered, r \in Roots :
             Asks(o, [IdleAsk EXCEPT !.pc = "find", !.op = "move", !.lib = l, !.root = r])
    BY <1>2 DEF AskMove
  <2> DEFINE a == [IdleAsk EXCEPT !.pc = "find", !.op = "move", !.lib = l, !.root = r]
  <2>2. a \in AskRecord /\ a.op = "move" /\ a.pc = "find" /\ a.lib = l /\ a.root = r
    BY <1>0, NamedPaths DEF AskRecord, IdleAsk, AskPCs
  <2>3. /\ ask' = [ask EXCEPT ![o] = a] /\ ask[o].pc = "idle"
        /\ UNCHANGED <<root, at, holder, slipped, strayed, unclaimed>>
    BY <2>1 DEF Asks
  <2> HIDE DEF a
  <2>4. InOrder(a) /\ Fresh(a) /\ KnowsRivals(a) /\ Follows(a) /\ ~ Registering(a)
    BY <1>0, <2>2 DEF InOrder, Fresh, KnowsRivals, Follows, Registering
  <2>5. \A p \in Owners : Registering(ask[p]) => ask[p].lib # a.lib
    BY <1>0, <2>2
  <2> QED  BY <2>2, <2>3, <2>4, <2>5, CallStep
<1>3. CASE AskRemove(o)
  <2>1. PICK l \in Registered :
             Asks(o, [IdleAsk EXCEPT !.pc = "find", !.op = "remove", !.lib = l])
    BY <1>3 DEF AskRemove
  <2> DEFINE a == [IdleAsk EXCEPT !.pc = "find", !.op = "remove", !.lib = l]
  <2>2. a \in AskRecord /\ a.op = "remove" /\ a.pc = "find" /\ a.lib = l
    BY <1>0, NamedPaths DEF AskRecord, IdleAsk, AskPCs
  <2>3. /\ ask' = [ask EXCEPT ![o] = a] /\ ask[o].pc = "idle"
        /\ UNCHANGED <<root, at, holder, slipped, strayed, unclaimed>>
    BY <2>1 DEF Asks
  <2> HIDE DEF a
  <2>4. InOrder(a) /\ Fresh(a) /\ KnowsRivals(a) /\ Follows(a) /\ ~ Registering(a)
    BY <1>0, <2>2 DEF InOrder, Fresh, KnowsRivals, Follows, Registering
  <2>5. \A p \in Owners : Registering(ask[p]) => ask[p].lib # a.lib
    BY <1>0, <2>2
  <2> QED  BY <2>2, <2>3, <2>4, <2>5, CallStep
<1>4. CASE AskRename(o)
  <2>1. PICK f \in Catalogued, n \in FileNames :
             Asks(o, [IdleAsk EXCEPT !.pc = "rename", !.op = "rename", !.file = f,
                                     !.root = Sibling(at[f], n)])
    BY <1>4 DEF AskRename
  <2> DEFINE a == [IdleAsk EXCEPT !.pc = "rename", !.op = "rename", !.file = f,
                                  !.root = Sibling(at[f], n)]
  <2>2. Sibling(at[f], n) \in Paths /\ Sibling(at[f], n) # << >> /\ f \in LibFiles
    <3>1. at[f] \in Paths /\ at[f] # << >> /\ n \in Segments
      BY <1>0, NamedPaths DEF Catalogued
    <3> QED  BY <1>0, <3>1, SiblingsTogether
  <2>3. /\ a \in AskRecord /\ a.op = "rename" /\ a.pc = "rename" /\ a.lib = NoLib
        /\ a.file = f /\ a.root = Sibling(at[f], n)
    BY <2>2, NamedPaths DEF AskRecord, IdleAsk, AskPCs
  <2>4. /\ ask' = [ask EXCEPT ![o] = a] /\ ask[o].pc = "idle"
        /\ UNCHANGED <<root, at, holder, slipped, strayed, unclaimed>>
    BY <2>1 DEF Asks
  <2> HIDE DEF a
  <2>5. InOrder(a) /\ ~ Registering(a) /\ Fresh(a) /\ KnowsRivals(a)
    BY <2>2, <2>3 DEF InOrder, Fresh, KnowsRivals, Registering
  <2>6. Follows(a)
    BY <2>3 DEF Follows
  <2> QED  BY <2>3, <2>4, <2>5, <2>6, CallStep
<1> QED  BY <1>1, <1>2, <1>3, <1>4

\* A call reads the library's row, or looks for roots in its way, or stops.
LEMMA ReadKept ==
  ASSUME LibsIInv, NEW o \in Owners, FindLibrary(o) \/ CheckOverlap(o) \/ Abandon(o)
  PROVE  LibsIInv'
<1>0. /\ ask \in [Owners -> AskRecord] /\ ask[o] \in AskRecord
      /\ InOrder(ask[o]) /\ Fresh(ask[o]) /\ KnowsRivals(ask[o]) /\ Follows(ask[o])
      /\ Alone
  BY DEF LibsIInv, RowsTyped, CallsFit
<1>1. CASE FindLibrary(o)
  <2> DEFINE step == IF ask[o].op = "move" THEN "overlap" ELSE "write"
             a == [ask[o] EXCEPT !.pc = step]
  <2>1. /\ ask[o].pc = "find" /\ UNCHANGED <<root, at, holder, slipped, strayed, unclaimed>>
        /\ Answered(o) \/ ask' = [ask EXCEPT ![o].pc = step]
    BY <1>1 DEF FindLibrary
  <2>2. CASE Answered(o)
    BY <2>1, <2>2, EndKept
  <2>3. CASE ask' = [ask EXCEPT ![o].pc = step]
    <3>1. ask' = [ask EXCEPT ![o] = a]
      BY <2>3
    <3>2. /\ a \in AskRecord /\ a.pc = step /\ a.op = ask[o].op /\ a.lib = ask[o].lib
          /\ a.root = ask[o].root
      BY <1>0 DEF AskRecord, AskPCs
    <3>3. a.op \in {"move", "remove"} /\ (a.op = "remove" => step = "write")
      BY <1>0, <2>1, <3>2 DEF InOrder
    <3>4. a.pc = IF a.op = "move" THEN "overlap" ELSE "write"
      BY <3>2
    <3> HIDE DEF a, step
    <3>5. InOrder(a) /\ ~ Registering(a)
      BY <1>0, <3>2, <3>3, <3>4 DEF InOrder, Registering
    <3>6. Fresh(a) /\ KnowsRivals(a) /\ Follows(a)
      BY <3>3, <3>4, <3>5 DEF Fresh, KnowsRivals, Follows
    <3> QED  BY <2>1, <3>1, <3>2, <3>5, <3>6, CallStep
  <2> QED  BY <2>1, <2>2, <2>3
<1>2. CASE CheckOverlap(o)
  <2> DEFINE a == [ask[o] EXCEPT !.pc = "write", !.rivals = {}]
  <2>1. /\ ask[o].pc = "overlap"
        /\ UNCHANGED <<root, at, holder, slipped, strayed, unclaimed>>
        /\ Answered(o) \/ (/\ ~ Taken(ask[o].root, ask[o].lib)
                           /\ ask' = [ask EXCEPT ![o].pc = "write", ![o].rivals = {}])
    BY <1>2 DEF CheckOverlap
  <2>2. CASE Answered(o)
    BY <2>1, <2>2, EndKept
  <2>3. CASE /\ ~ Taken(ask[o].root, ask[o].lib)
             /\ ask' = [ask EXCEPT ![o].pc = "write", ![o].rivals = {}]
    <3>1. ask' = [ask EXCEPT ![o] = a]
      BY <1>0, <2>3
    <3>2. /\ a \in AskRecord /\ a.pc = "write" /\ a.op = ask[o].op /\ a.lib = ask[o].lib
          /\ a.root = ask[o].root
      BY <1>0 DEF AskRecord, AskPCs
    <3> HIDE DEF a
    <3>3. a.op \in {"register", "move"}
      BY <1>0, <2>1, <3>2 DEF InOrder
    <3>4. InOrder(a) /\ Follows(a)
      BY <1>0, <3>2, <3>3 DEF InOrder, Follows
    <3>5. Fresh(a) /\ (Registering(a) => Registering(ask[o]))
      BY <1>0, <2>1, <3>2 DEF Fresh, Registering
    <3>6. KnowsRivals(a)
      BY <2>3, <3>2 DEF KnowsRivals, Taken
    <3>7. Registering(a) => \A p \in Owners \ {o} : ask[p].lib # a.lib
      BY <1>0, <3>2, <3>5 DEF Alone
    <3> QED  BY <2>1, <3>1, <3>2, <3>4, <3>5, <3>6, <3>7, CallStep
  <2> QED  BY <2>1, <2>2, <2>3
<1>3. CASE Abandon(o)
  <2>1. /\ unclaimed' = IF ask[o].pc = "claim" THEN unclaimed \cup {ask[o].lib} ELSE unclaimed
        /\ Answered(o) /\ UNCHANGED <<root, at, holder, slipped, strayed>>
    BY <1>3 DEF Abandon
  <2>2. unclaimed \subseteq unclaimed' /\ (ask[o].pc = "claim" => ask[o].lib \in unclaimed')
    BY <2>1
  <2> QED  BY <2>1, <2>2, EndKept
<1> QED  BY <1>1, <1>2, <1>3

\* What a write of a root by `o` does to the calls: its own goes on to the
\* claim, and the calls about to write learn of the root.
CallsAfter(o) == \A p \in Owners :
    /\ ask'[p].op = ask[p].op /\ ask'[p].lib = ask[p].lib
    /\ ask'[p].root = ask[p].root /\ ask'[p].file = ask[p].file
    /\ ask'[p].pc = IF p = o THEN "claim" ELSE ask[p].pc
    /\ p # o /\ ask[p].pc = "write" => ask[p].rivals \cup {ask[o].lib} \subseteq ask'[p].rivals

\* The calls as `Unseen` leaves them.
LEMMA UnseenCalls ==
  ASSUME ask \in [Owners -> AskRecord], NEW o \in Owners, NEW l \in Libs, NEW p \in Owners,
         NEW b, b = Unseen(l, o)[p]
  PROVE  /\ b \in AskRecord
         /\ b.op = ask[p].op /\ b.lib = ask[p].lib /\ b.root = ask[p].root
         /\ b.file = ask[p].file
         /\ b.pc = IF p = o THEN "claim" ELSE ask[p].pc
         /\ p # o /\ ask[p].pc = "write" => ask[p].rivals \cup {l} \subseteq b.rivals
         /\ p # o /\ ask[p].pc # "write" => b = ask[p]
<1>1. CASE p = o
  <2>1. b = [ask[o] EXCEPT !.pc = "claim"]
    BY <1>1 DEF Unseen
  <2> QED  BY <1>1, <2>1 DEF AskRecord, AskPCs
<1>2. CASE p # o /\ ask[p].pc = "write"
  <2>1. b = [ask[p] EXCEPT !.rivals = @ \cup {l}]
    BY <1>2 DEF Unseen
  <2> QED  BY <1>2, <2>1 DEF AskRecord, AskPCs
<1>3. CASE p # o /\ ask[p].pc # "write"
  <2>1. b = ask[p]
    BY <1>3 DEF Unseen
  <2> QED  BY <1>3, <2>1
<1> QED  BY <1>1, <1>2, <1>3

\* A root is written: the other calls still fit, and every library now in its
\* way was written since its call looked.
LEMMA RootWritten ==
  ASSUME LibsIInv, NEW o \in Owners, ask[o].pc = "write", ask[o].op \in {"register", "move"},
         CallsAfter(o), root' = [root EXCEPT ![ask[o].lib] = ask[o].root],
         Catalogued' = Catalogued, \A p \in Owners : Follows(ask[p])',
         slipped' = SlippedPast(o)
  PROVE  CallsFit' /\ Alone' /\ OverlapsWereRaced' /\ Registered' = Registered \cup {ask[o].lib}
<1> DEFINE l == ask[o].lib
<1>0. /\ root \in [Libs -> Roots \cup {<< >>}] /\ l \in Libs
      /\ ask[o].root \in Roots /\ ask[o].root # << >>
      /\ \A p \in Owners : InOrder(ask[p]) /\ Fresh(ask[p]) /\ KnowsRivals(ask[p])
      /\ Alone /\ OverlapsWereRaced
  BY NamedPaths DEF LibsIInv, RowsTyped, CallsFit, InOrder
<1>1. Registered' = Registered \cup {l}
  BY <1>0 DEF Registered
<1>2. \A k \in Libs : root'[k] = IF k = l THEN ask[o].root ELSE root[k]
  BY <1>0
<1>3. Registered \subseteq Libs
  BY DEF Registered
<1>4. CallsFit'
  <2> SUFFICES ASSUME NEW p \in Owners
               PROVE  (InOrder(ask[p]) /\ Fresh(ask[p]) /\ KnowsRivals(ask[p]))'
    BY DEF CallsFit
  <2>0. /\ ask'[p].op = ask[p].op /\ ask'[p].lib = ask[p].lib
        /\ ask'[p].root = ask[p].root /\ ask'[p].file = ask[p].file
        /\ ask'[p].pc = IF p = o THEN "claim" ELSE ask[p].pc
        /\ (p # o /\ ask[p].pc = "write" => ask[p].rivals \cup {l} \subseteq ask'[p].rivals)
    BY DEF CallsAfter
  <2> HIDE DEF l
  <2>1. InOrder(ask[p])'
    <3>1. CASE p = o
      BY <1>0, <2>0, <3>1 DEF InOrder
    <3>2. CASE p # o
      BY <1>0, <2>0, <3>2 DEF InOrder
    <3> QED  BY <3>1, <3>2
  <2>2. Fresh(ask[p])'
    <3>1. CASE p = o
      BY <2>0, <3>1 DEF Fresh, Registering
    <3>2. CASE p # o
      <4>1. Registering(ask[p]) => ask[p].lib \notin Registered /\ ask[p].lib # l
        BY <1>0, <3>2 DEF Fresh, Alone, l
      <4> QED  BY <1>1, <2>0, <3>2, <4>1 DEF Fresh, Registering
    <3> QED  BY <3>1, <3>2
  <2>3. KnowsRivals(ask[p])'
    <3>1. CASE p = o
      BY <2>0, <3>1 DEF KnowsRivals
    <3>2. CASE p # o
      <4> SUFFICES ASSUME ask[p].pc = "write", ask[p].op \in {"register", "move"},
                          NEW k \in Registered', k # ask[p].lib,
                          Overlapping(ask[p].root, root'[k])
                   PROVE  k \in ask'[p].rivals
        BY <2>0, <3>2 DEF KnowsRivals
      <4>1. CASE k = l
        BY <2>0, <3>2, <4>1
      <4>2. CASE k # l
        <5>1. k \in Registered /\ root'[k] = root[k]
          BY <1>1, <1>2, <1>3, <4>2
        <5> QED  BY <1>0, <2>0, <3>2, <5>1 DEF KnowsRivals
      <4> QED  BY <4>1, <4>2
    <3> QED  BY <3>1, <3>2
  <2> QED  BY <2>1, <2>2, <2>3
<1>5. Alone'
  BY <1>0 DEF Alone, CallsAfter, Registering
<1>6. OverlapsWereRaced'
  <2> SUFFICES ASSUME NEW j \in Registered', NEW k \in Registered', j # k,
                      Overlapping(root'[j], root'[k])
               PROVE  {j, k} \in slipped'
    BY DEF OverlapsWereRaced
  <2>0. slipped' = slipped \cup {{l, r} : r \in ask[o].rivals \ {l}}
    BY DEF SlippedPast
  <2>1. ASSUME NEW m \in Registered, m # l, Overlapping(ask[o].root, root[m])
        PROVE  {l, m} \in slipped'
    <3>1. m \in ask[o].rivals
      BY <1>0, <2>1 DEF KnowsRivals
    <3> QED  BY <2>0, <2>1, <3>1
  <2> HIDE DEF l
  <2>2. CASE j = l
    <3>1. k \in Registered /\ root'[k] = root[k] /\ root'[j] = ask[o].root
      BY <1>0, <1>1, <1>2, <1>3, <2>2
    <3> QED  BY <2>1, <2>2, <3>1
  <2>3. CASE k = l
    <3>1. j \in Registered /\ root'[j] = root[j] /\ root'[k] = ask[o].root
      BY <1>0, <1>1, <1>2, <1>3, <2>3
    <3>2. {l, j} \in slipped'
      BY <2>1, <2>3, <3>1 DEF Overlapping
    <3>3. {l, j} = {j, k}
      BY <2>3
    <3> QED  BY <3>2, <3>3
  <2>4. CASE j # l /\ k # l
    <3>1. j \in Registered /\ k \in Registered /\ root'[j] = root[j] /\ root'[k] = root[k]
      BY <1>0, <1>1, <1>2, <1>3, <2>4
    <3> QED  BY <1>0, <2>0, <3>1 DEF OverlapsWereRaced
  <2> QED  BY <2>2, <2>3, <2>4
<1> QED  BY <1>1, <1>4, <1>5, <1>6

\* The row of a new library.
LEMMA InsertKept ==
  ASSUME LibsIInv, NEW o \in Owners, InsertLibrary(o)
  PROVE  LibsIInv'
<1> DEFINE l == ask[o].lib
<1>0. /\ ask \in [Owners -> AskRecord] /\ RowsTyped /\ ask[o].pc = "write"
      /\ ask[o].op = "register" /\ l \in Libs /\ l \notin Registered
      /\ ask[o].root \in Roots /\ HeldBeneath /\ NothingLeftUnclaimed
      /\ UNCHANGED <<at, holder, asks, strayed>>
      /\ \A p \in Owners : InOrder(ask[p]) /\ Follows(ask[p])
  BY DEF LibsIInv, RowsTyped, CallsFit, InOrder, Fresh, Registering, InsertLibrary
<1>1. CASE \E k \in Registered : root[k] = ask[o].root
  <2>1. Answered(o) /\ UNCHANGED <<root, slipped, unclaimed>>
    BY <1>1 DEF InsertLibrary
  <2> QED  BY <1>0, <2>1, EndKept
<1>2. CASE ~ \E k \in Registered : root[k] = ask[o].root
  <2>1. /\ root' = [root EXCEPT ![l] = ask[o].root] /\ ask' = Unseen(l, o)
        /\ slipped' = SlippedPast(o) /\ unclaimed' = unclaimed \ {l}
    BY <1>2 DEF InsertLibrary
  <2>2. Catalogued' = Catalogued
    BY <1>0 DEF Catalogued
  <2>3. ask' \in [Owners -> AskRecord]
    <3>1. \A p \in Owners : Unseen(l, o)[p] \in AskRecord
      BY <1>0, UnseenCalls
    <3> QED  BY <2>1, <3>1 DEF Unseen
  <2>4. CallsAfter(o)
    <3> SUFFICES ASSUME NEW p \in Owners
                 PROVE  /\ ask'[p].op = ask[p].op /\ ask'[p].lib = ask[p].lib
                        /\ ask'[p].root = ask[p].root /\ ask'[p].file = ask[p].file
                        /\ ask'[p].pc = IF p = o THEN "claim" ELSE ask[p].pc
                        /\ p # o /\ ask[p].pc = "write"
                              => ask[p].rivals \cup {ask[o].lib} \subseteq ask'[p].rivals
      BY DEF CallsAfter
    <3>1. ask'[p] = Unseen(l, o)[p]
      BY <2>1
    <3> QED  BY <1>0, <3>1, UnseenCalls
  <2>5. \A p \in Owners : Follows(ask[p])'
    <3> TAKE p \in Owners
    <3>1. CASE ask[p].op # "rename"
      BY <2>4, <3>1 DEF CallsAfter, Follows
    <3>2. CASE ask[p].op = "rename"
      <4>1. ask'[p] = ask[p]
        BY <1>0, <2>1, <3>2, UnseenCalls DEF InOrder
      <4> QED  BY <1>0, <4>1 DEF Follows
    <3> QED  BY <3>1, <3>2
  <2>6. CallsFit' /\ Alone' /\ OverlapsWereRaced' /\ Registered' = Registered \cup {l}
    BY <1>0, <2>1, <2>2, <2>4, <2>5, RootWritten
  <2>7. \A k \in Registered : root'[k] = root[k] /\ k # l
    BY <1>0, <2>1 DEF RowsTyped, Registered
  <2> HIDE DEF l
  <2>8. RowsTyped'
    <3>1. root' \in [Libs -> Roots \cup {<< >>}]
      BY <1>0, <2>1 DEF RowsTyped
    <3>2. holder' \in [LibFiles -> Registered' \cup {NoLib}] /\ at' \in [LibFiles -> Paths]
      BY <1>0, <2>6 DEF RowsTyped
    <3> QED  BY <1>0, <2>2, <2>3, <3>1, <3>2 DEF RowsTyped
  <2>9. HeldBeneath'
    <3>1. \A f \in Catalogued : holder[f] # NoLib => holder[f] \in Registered
      BY <1>0 DEF RowsTyped, Catalogued
    <3> QED  BY <1>0, <2>2, <2>7, <3>1 DEF HeldBeneath
  <2>10. NothingLeftUnclaimed'
    <3> SUFFICES ASSUME NEW k \in Registered'
                 PROVE  \/ k \in unclaimed'
                        \/ \E p \in Owners : ask'[p].pc = "claim" /\ ask'[p].lib = k
                        \/ Claimable(k)' \subseteq strayed'
      BY DEF NothingLeftUnclaimed
    <3>1. CASE k = l
      <4>1. ask'[o].pc = "claim" /\ ask'[o].lib = l
        BY <2>4 DEF CallsAfter, l
      <4> QED  BY <3>1, <4>1
    <3>2. CASE k # l
      <4>1. k \in Registered /\ root'[k] = root[k]
        BY <2>6, <2>7, <3>2
      <4>2. Claimable(k)' = Claimable(k)
        BY <1>0, <2>2, <4>1 DEF Claimable
      <4>3. \A p \in Owners : ask[p].pc = "claim" => ask'[p].pc = "claim" /\ ask'[p].lib = ask[p].lib
        BY <1>0, <2>4 DEF CallsAfter
      <4> QED  BY <1>0, <2>1, <3>2, <4>1, <4>2, <4>3 DEF NothingLeftUnclaimed
    <3> QED  BY <3>1, <3>2
  <2> QED  BY <2>6, <2>8, <2>9, <2>10 DEF LibsIInv
<1> QED  BY <1>1, <1>2

\* A move: the root and the paths of its files together.
LEMMA MoveKept ==
  ASSUME LibsIInv, NEW o \in Owners, MoveRoot(o)
  PROVE  LibsIInv'
<1> DEFINE l == ask[o].lib
           new == ask[o].root
           path == PathsUnder(l, new)
<1>0. /\ ask \in [Owners -> AskRecord] /\ RowsTyped /\ ask[o].pc = "write"
      /\ ask[o].op = "move" /\ l \in Libs /\ new \in Roots /\ new \in Paths /\ new # << >>
      /\ HeldBeneath /\ NothingLeftUnclaimed /\ UNCHANGED <<holder, asks, strayed>>
      /\ \A p \in Owners : InOrder(ask[p]) /\ Follows(ask[p])
  BY NamedPaths DEF LibsIInv, RowsTyped, CallsFit, InOrder, MoveRoot
<1>1. \/ Answered(o) /\ UNCHANGED <<root, at, slipped, unclaimed>>
      \/ /\ l \in Registered /\ root' = [root EXCEPT ![l] = new] /\ at' = path
         /\ ask' = [p \in Owners |->
                      IF ask[p].op = "rename" /\ path[ask[p].file] # at[ask[p].file]
                      THEN [ask[p] EXCEPT !.stale = TRUE] ELSE Unseen(l, o)[p]]
         /\ slipped' = SlippedPast(o) /\ unclaimed' = unclaimed \ {l}
  BY DEF MoveRoot
<1>2. CASE Answered(o) /\ UNCHANGED <<root, at, slipped, unclaimed>>
  BY <1>0, <1>2, EndKept
<1>3. CASE /\ l \in Registered /\ root' = [root EXCEPT ![l] = new] /\ at' = path
           /\ ask' = [p \in Owners |->
                        IF ask[p].op = "rename" /\ path[ask[p].file] # at[ask[p].file]
                        THEN [ask[p] EXCEPT !.stale = TRUE] ELSE Unseen(l, o)[p]]
           /\ slipped' = SlippedPast(o) /\ unclaimed' = unclaimed \ {l}
  <2>0. root[l] \in Paths /\ root \in [Libs -> Roots \cup {<< >>}] /\ at \in [LibFiles -> Paths]
    BY <1>0, NamedPaths DEF RowsTyped
  <2>1. \A f \in LibFiles : /\ path[f] \in Paths
                            /\ f \in Catalogued => path[f] # << >>
                            /\ f \notin Catalogued \/ holder[f] # l => path[f] = at[f]
                            /\ f \in Catalogued /\ holder[f] = l
                                 => path[f] = Relocated(at[f], root[l], new)
    <3> TAKE f \in LibFiles
    <3>1. path[f] = IF f \in Catalogued /\ holder[f] = l
                    THEN Relocated(at[f], root[l], new) ELSE at[f]
      BY DEF PathsUnder
    <3>2. at[f] \in Paths
      BY <2>0
    <3>3. Relocated(at[f], root[l], new) \in Paths /\ Relocated(at[f], root[l], new) # << >>
      BY <1>0, <2>0, <3>2, RelocatedUnder
    <3>4. f \in Catalogued => at[f] # << >>
      BY DEF Catalogued
    <3> HIDE DEF path, l, new
    <3> QED  BY <3>1, <3>2, <3>3, <3>4
  <2>2. path \in [LibFiles -> Paths]
    <3>1. path = [f \in LibFiles |-> path[f]]
      BY DEF PathsUnder
    <3> HIDE DEF path
    <3> QED  BY <2>1, <3>1
  <2>3. /\ l \in Registered /\ root' = [root EXCEPT ![l] = new] /\ at' = path
        /\ slipped' = SlippedPast(o) /\ unclaimed' = unclaimed \ {l}
    BY <1>3
  <2>4. ASSUME NEW p \in Owners
        PROVE  ask'[p] = IF ask[p].op = "rename" /\ path[ask[p].file] # at[ask[p].file]
                         THEN [ask[p] EXCEPT !.stale = TRUE] ELSE Unseen(l, o)[p]
    BY <1>3
  <2>5. ask' = [p \in Owners |-> ask'[p]]
    BY <1>3
  <2> HIDE DEF path
  <2>6. Catalogued' = Catalogued
    <3>1. \A f \in LibFiles : f \notin Catalogued => at'[f] = at[f]
      BY <2>1, <2>3
    <3>2. \A f \in LibFiles : f \in Catalogued => at'[f] # << >>
      BY <2>1, <2>3
    <3> QED  BY <3>1, <3>2 DEF Catalogued
  <2>7. ASSUME NEW p \in Owners
        PROVE  /\ ask'[p] \in AskRecord
               /\ ask'[p].op = ask[p].op /\ ask'[p].lib = ask[p].lib
               /\ ask'[p].root = ask[p].root /\ ask'[p].file = ask[p].file
               /\ ask'[p].pc = IF p = o THEN "claim" ELSE ask[p].pc
               /\ (p # o /\ ask[p].pc = "write"
                     => ask[p].rivals \cup {l} \subseteq ask'[p].rivals)
    <3>1. CASE ask[p].op = "rename" /\ path[ask[p].file] # at[ask[p].file]
      <4>1. ask'[p] = [ask[p] EXCEPT !.stale = TRUE] /\ ask[p] \in AskRecord
        BY <1>0, <2>4, <3>1
      <4>2. p # o /\ ask[p].pc = "rename"
        BY <1>0, <3>1 DEF InOrder
      <4> QED  BY <4>1, <4>2 DEF AskRecord
    <3>2. CASE ~ (ask[p].op = "rename" /\ path[ask[p].file] # at[ask[p].file])
      <4>1. ask'[p] = Unseen(l, o)[p]
        BY <2>4, <3>2
      <4> QED  BY <1>0, <4>1, UnseenCalls
    <3> QED  BY <3>1, <3>2
  <2>8. CallsAfter(o)
    BY <2>7 DEF CallsAfter
  <2>9. ask' \in [Owners -> AskRecord]
    BY <2>5, <2>7
  <2>10. \A p \in Owners : Follows(ask[p])'
    <3> TAKE p \in Owners
    <3>1. CASE ask[p].op # "rename"
      BY <2>7, <3>1 DEF Follows
    <3>2. CASE ask[p].op = "rename" /\ path[ask[p].file] # at[ask[p].file]
      <4>1. ask'[p] = [ask[p] EXCEPT !.stale = TRUE] /\ ask[p] \in AskRecord
        BY <1>0, <2>4, <3>2
      <4>2. ask'[p].stale
        BY <4>1 DEF AskRecord
      <4> QED  BY <4>2 DEF Follows
    <3>3. CASE ask[p].op = "rename" /\ path[ask[p].file] = at[ask[p].file]
      <4>1. ask'[p] = Unseen(l, o)[p]
        BY <2>4, <3>3
      <4>2. ask[p].pc = "rename" /\ p # o
        BY <1>0, <3>3 DEF InOrder
      <4>3. ask'[p] = ask[p]
        BY <1>0, <4>1, <4>2, UnseenCalls
      <4>4. at'[ask[p].file] = at[ask[p].file]
        BY <2>3, <3>3
      <4> QED  BY <1>0, <4>3, <4>4 DEF Follows
    <3> QED  BY <3>1, <3>2, <3>3
  <2>11. CallsFit' /\ Alone' /\ OverlapsWereRaced' /\ Registered' = Registered \cup {l}
    BY <1>0, <2>3, <2>6, <2>8, <2>10, RootWritten
  <2>12. Registered' = Registered
    BY <2>3, <2>11
  <2>13. \A k \in Registered : root'[k] = IF k = l THEN new ELSE root[k]
    BY <2>0, <2>3 DEF Registered
  <2>14. \A f \in LibFiles : /\ at'[f] \in Paths
                             /\ holder[f] # l => at'[f] = at[f]
                             /\ f \in Catalogued /\ holder[f] = l
                                  => at'[f] = Relocated(at[f], root[l], new)
    BY <2>1, <2>3
  <2> HIDE DEF l, new
  <2>15. RowsTyped'
    <3>1. root' \in [Libs -> Roots \cup {<< >>}]
      BY <1>0, <2>0, <2>3
    <3> QED  BY <1>0, <2>2, <2>3, <2>6, <2>9, <2>12, <3>1 DEF RowsTyped
  <2>16. HeldBeneath'
    <3> SUFFICES ASSUME NEW f \in Catalogued \ strayed, holder[f] # NoLib
                 PROVE  Beneath(at'[f], root'[holder[f]])
      BY <1>0, <2>6 DEF HeldBeneath
    <3>1. /\ holder[f] \in Registered /\ Beneath(at[f], root[holder[f]]) /\ f \in LibFiles
          /\ at[f] \in Paths
      BY <1>0, <2>0 DEF HeldBeneath, RowsTyped, Catalogued
    <3>2. CASE holder[f] = l
      <4>1. Beneath(Relocated(at[f], root[l], new), new)
        BY <1>0, <2>0, <3>1, <3>2, RelocatedUnder
      <4> QED  BY <2>13, <2>14, <3>1, <3>2, <4>1
    <3>3. CASE holder[f] # l
      BY <2>13, <2>14, <3>1, <3>3
    <3> QED  BY <3>2, <3>3
  <2>17. NothingLeftUnclaimed'
    <3> SUFFICES ASSUME NEW k \in Registered
                 PROVE  \/ k \in unclaimed'
                        \/ \E p \in Owners : ask'[p].pc = "claim" /\ ask'[p].lib = k
                        \/ Claimable(k)' \subseteq strayed'
      BY <2>12 DEF NothingLeftUnclaimed
    <3>1. CASE k = l
      BY <2>7, <3>1 DEF l
    <3>2. CASE k # l
      <4>1. root'[k] = root[k]
        BY <2>13, <3>2
      <4>2. \A f \in Catalogued : holder[f] = NoLib => at'[f] = at[f]
        BY <1>0, <2>14, NamedPaths DEF Catalogued
      <4>3. Claimable(k)' = Claimable(k)
        BY <1>0, <2>6, <4>1, <4>2 DEF Claimable
      <4>4. \A p \in Owners : ask[p].pc = "claim"
                                => ask'[p].pc = "claim" /\ ask'[p].lib = ask[p].lib
        BY <1>0, <2>7
      <4> QED  BY <1>0, <2>3, <3>2, <4>3, <4>4 DEF NothingLeftUnclaimed
    <3> QED  BY <3>1, <3>2
  <2> QED  BY <2>11, <2>15, <2>16, <2>17 DEF LibsIInv
<1> QED  BY <1>1, <1>2, <1>3

\* The other calls when one that is not claiming ends, and no library or
\* file is new or gone for them.
LEMMA CallsWhenOneEnds ==
  ASSUME LibsIInv, NEW o \in Owners, Answered(o),
         Registered' \subseteq Registered, \A k \in Registered' : root'[k] = root[k],
         Catalogued \subseteq Catalogued', \A p \in Owners : Follows(ask[p])'
  PROVE  /\ CallsFit' /\ Alone' /\ ask' \in [Owners -> AskRecord]
         /\ \A p \in Owners \ {o} : ask'[p] = ask[p]
<1>1. ask \in [Owners -> AskRecord] /\ ask' = [ask EXCEPT ![o] = IdleAsk]
  BY DEF LibsIInv, RowsTyped, Answered
<1>2. ask' \in [Owners -> AskRecord]
  BY <1>1, IdleFits
<1>3. ask'[o] = IdleAsk /\ \A p \in Owners \ {o} : ask'[p] = ask[p]
  BY <1>1
<1>4. CallsFit'
  <2> SUFFICES ASSUME NEW p \in Owners
               PROVE  (InOrder(ask[p]) /\ Fresh(ask[p]) /\ KnowsRivals(ask[p]))'
    BY DEF CallsFit
  <2>1. CASE p = o
    BY <1>3, <2>1 DEF InOrder, Fresh, KnowsRivals, Registering, IdleAsk
  <2>2. CASE p # o
    <3>1. InOrder(ask[p]) /\ Fresh(ask[p]) /\ KnowsRivals(ask[p]) /\ ask'[p] = ask[p]
      BY <1>3, <2>2 DEF LibsIInv, CallsFit
    <3>2. InOrder(ask[p])'
      BY <3>1 DEF InOrder
    <3>3. Fresh(ask[p])'
      BY <3>1 DEF Fresh, Registering
    <3>4. KnowsRivals(ask[p])'
      BY <3>1 DEF KnowsRivals
    <3> QED  BY <3>2, <3>3, <3>4
  <2> QED  BY <2>1, <2>2
<1>5. Alone'
  <2> SUFFICES ASSUME NEW p \in Owners, NEW q \in Owners, p # q, Registering(ask'[p])
               PROVE  ask'[q].lib # ask'[p].lib
    BY DEF Alone, Registering
  <2>1. p # o
    BY <1>3, IdleFits
  <2>2. Registering(ask[p]) /\ ask[p].lib \in Libs /\ ask'[p] = ask[p]
    BY <1>3, <2>1 DEF LibsIInv, CallsFit, InOrder, Registering
  <2>3. CASE q = o
    BY <1>3, <2>2, <2>3, IdleFits, NamedPaths
  <2>4. CASE q # o
    BY <1>3, <2>2, <2>4 DEF LibsIInv, Alone
  <2> QED  BY <2>3, <2>4
<1> QED  BY <1>2, <1>3, <1>4, <1>5

\* The files of a library are released and its row goes.
LEMMA DeleteKept ==
  ASSUME LibsIInv, NEW o \in Owners, DeleteLibrary(o)
  PROVE  LibsIInv'
<1> DEFINE l == ask[o].lib
<1>0. /\ RowsTyped /\ ask[o].pc = "write" /\ l \in Libs /\ HeldBeneath
      /\ NothingLeftUnclaimed /\ OverlapsWereRaced
      /\ \A p \in Owners : Follows(ask[p])
      /\ root \in [Libs -> Roots \cup {<< >>}] /\ at \in [LibFiles -> Paths]
      /\ holder \in [LibFiles -> Registered \cup {NoLib}]
  BY DEF LibsIInv, RowsTyped, CallsFit, InOrder, DeleteLibrary
<1>1. /\ holder' = [f \in LibFiles |-> IF holder[f] = l THEN NoLib ELSE holder[f]]
      /\ root' = [root EXCEPT ![l] = << >>]
      /\ slipped' = {s \in slipped : l \notin s \/ root[l] = << >>}
      /\ unclaimed' = (unclaimed \ {l}) \cup
              {k \in Registered \ {l} : root[l] # << >> /\ Overlapping(root[k], root[l])}
      /\ Answered(o) /\ UNCHANGED <<at, asks, strayed>>
  BY DEF DeleteLibrary
<1>2. Catalogued' = Catalogued
  BY <1>1 DEF Catalogued
<1> HIDE DEF l
<1>3. \A k \in Libs : root'[k] = IF k = l THEN << >> ELSE root[k]
  BY <1>0, <1>1
<1>4. Registered' = Registered \ {l} /\ \A k \in Registered' : root'[k] = root[k]
  BY <1>3 DEF Registered
<1>5. \A p \in Owners : Follows(ask[p])'
  <2> TAKE p \in Owners
  <2>1. CASE p = o
    <3>1. ask'[o] = IdleAsk
      BY <1>1 DEF Answered, LibsIInv, RowsTyped
    <3> QED  BY <2>1, <3>1 DEF Follows, IdleAsk
  <2>2. CASE p # o
    <3>1. ask'[p] = ask[p]
      BY <1>1, <2>2 DEF Answered, LibsIInv, RowsTyped
    <3> QED  BY <1>0, <1>1, <3>1 DEF Follows
  <2> QED  BY <2>1, <2>2
<1>6. /\ CallsFit' /\ Alone' /\ ask' \in [Owners -> AskRecord]
      /\ \A p \in Owners \ {o} : ask'[p] = ask[p]
  BY <1>1, <1>2, <1>4, <1>5, CallsWhenOneEnds
<1>7. RowsTyped'
  <2>1. root' \in [Libs -> Roots \cup {<< >>}]
    BY <1>0, <1>1
  <2>2. holder' \in [LibFiles -> Registered' \cup {NoLib}]
    BY <1>0, <1>1, <1>4
  <2>3. \A f \in LibFiles \ Catalogued : holder'[f] = NoLib
    BY <1>0, <1>1 DEF RowsTyped
  <2> QED  BY <1>0, <1>1, <1>2, <1>6, <2>1, <2>2, <2>3 DEF RowsTyped
<1>8. OverlapsWereRaced'
  <2> SUFFICES ASSUME NEW j \in Registered', NEW k \in Registered', j # k,
                      Overlapping(root'[j], root'[k])
               PROVE  {j, k} \in slipped'
    BY DEF OverlapsWereRaced
  <2>1. {j, k} \in slipped /\ l \notin {j, k}
    BY <1>0, <1>4 DEF OverlapsWereRaced
  <2> QED  BY <1>1, <2>1
<1>9. HeldBeneath'
  <2> SUFFICES ASSUME NEW f \in Catalogued \ strayed, holder'[f] # NoLib
               PROVE  Beneath(at[f], root'[holder'[f]])
    BY <1>1, <1>2 DEF HeldBeneath
  <2>1. f \in LibFiles /\ holder'[f] = holder[f] /\ holder[f] # l /\ holder[f] \in Registered
    BY <1>0, <1>1 DEF Catalogued
  <2> QED  BY <1>0, <1>4, <2>1 DEF HeldBeneath
<1>10. NothingLeftUnclaimed'
  <2> SUFFICES ASSUME NEW k \in Registered, k # l
               PROVE  \/ k \in unclaimed'
                      \/ \E p \in Owners : ask'[p].pc = "claim" /\ ask'[p].lib = k
                      \/ Claimable(k)' \subseteq strayed
    BY <1>1, <1>4 DEF NothingLeftUnclaimed
  <2>1. CASE k \in unclaimed
    BY <1>1, <2>1
  <2>2. CASE \E p \in Owners : ask[p].pc = "claim" /\ ask[p].lib = k
    BY <1>0, <1>6, <2>2
  <2>3. CASE l \in Registered /\ Overlapping(root[k], root[l])
    BY <1>1, <2>3 DEF Registered
  <2>4. CASE /\ Claimable(k) \subseteq strayed
             /\ ~ (l \in Registered /\ Overlapping(root[k], root[l]))
    <3> SUFFICES ASSUME NEW f \in Claimable(k)', f \notin strayed  PROVE FALSE
      BY <2>4
    <3>1. f \in Catalogued /\ f \in LibFiles /\ holder'[f] = NoLib /\ Beneath(at[f], root[k])
      BY <1>1, <1>2, <1>4 DEF Claimable, Catalogued
    <3>2. CASE holder[f] = NoLib
      BY <2>4, <3>1, <3>2 DEF Claimable
    <3>3. CASE holder[f] # NoLib
      <4>1. holder[f] = l /\ l \in Registered
        BY <1>0, <1>1, <3>1, <3>3
      <4>2. Beneath(at[f], root[l])
        BY <1>0, <3>1, <3>3, <4>1 DEF HeldBeneath
      <4>3. root[k] \in Paths /\ root[l] \in Paths /\ at[f] \in Paths
        BY <1>0, <3>1, NamedPaths DEF Registered
      <4>4. Within(at[f], root[k]) /\ Within(at[f], root[l])
        BY <3>1, <4>2 DEF Beneath
      <4>5. Overlapping(root[k], root[l])
        BY <4>3, <4>4, FoldersAroundMeet
      <4> QED  BY <2>4, <4>1, <4>5
    <3> QED  BY <3>2, <3>3
  <2> QED  BY <1>0, <2>1, <2>2, <2>3, <2>4 DEF NothingLeftUnclaimed
<1> QED  BY <1>6, <1>7, <1>8, <1>9, <1>10 DEF LibsIInv

\* A library takes the files nobody holds beneath its root.
LEMMA ClaimKept ==
  ASSUME LibsIInv, NEW o \in Owners, ClaimFiles(o)
  PROVE  LibsIInv'
<1> DEFINE l == ask[o].lib
<1>0. /\ RowsTyped /\ ask[o].pc = "claim" /\ l \in Libs /\ HeldBeneath
      /\ NothingLeftUnclaimed /\ OverlapsWereRaced
      /\ \A p \in Owners : Follows(ask[p])
      /\ holder \in [LibFiles -> Registered \cup {NoLib}]
  BY DEF LibsIInv, RowsTyped, CallsFit, InOrder, ClaimFiles
<1>1. /\ holder' = [f \in LibFiles |->
                     IF l \in Registered /\ f \in Claimable(l) THEN l ELSE holder[f]]
      /\ Answered(o) /\ UNCHANGED <<root, at, asks, slipped, strayed, unclaimed>>
  BY DEF ClaimFiles
<1>2. Catalogued' = Catalogued /\ Registered' = Registered
  BY <1>1 DEF Catalogued, Registered
<1> HIDE DEF l
<1>3. \A f \in LibFiles :
         \/ holder'[f] = holder[f]
         \/ holder[f] = NoLib /\ holder'[f] = l /\ l \in Registered /\ f \in Catalogued
            /\ Beneath(at[f], root[l])
  BY <1>1 DEF Claimable
<1>4. \A p \in Owners : Follows(ask[p])'
  <2> TAKE p \in Owners
  <2>1. CASE p = o
    <3>1. ask'[o] = IdleAsk
      BY <1>1 DEF Answered, LibsIInv, RowsTyped
    <3> QED  BY <2>1, <3>1 DEF Follows, IdleAsk
  <2>2. CASE p # o
    <3>1. ask'[p] = ask[p]
      BY <1>1, <2>2 DEF Answered, LibsIInv, RowsTyped
    <3> QED  BY <1>0, <1>1, <3>1 DEF Follows
  <2> QED  BY <2>1, <2>2
<1>5. /\ CallsFit' /\ Alone' /\ ask' \in [Owners -> AskRecord]
      /\ \A p \in Owners \ {o} : ask'[p] = ask[p]
  <2>1. \A k \in Registered' : root'[k] = root[k]
    BY <1>1
  <2> QED  BY <1>1, <1>2, <1>4, <2>1, CallsWhenOneEnds
<1>6. RowsTyped'
  <2>1. holder' \in [LibFiles -> Registered \cup {NoLib}]
    BY <1>0, <1>1
  <2>2. \A f \in LibFiles \ Catalogued : holder'[f] = NoLib
    BY <1>0, <1>3 DEF RowsTyped
  <2> QED  BY <1>0, <1>1, <1>2, <1>5, <2>1, <2>2 DEF RowsTyped
<1>7. OverlapsWereRaced'
  BY <1>0, <1>1, <1>2 DEF OverlapsWereRaced
<1>8. HeldBeneath'
  <2> SUFFICES ASSUME NEW f \in Catalogued \ strayed, holder'[f] # NoLib
               PROVE  Beneath(at[f], root[holder'[f]])
    BY <1>1, <1>2 DEF HeldBeneath
  <2>1. f \in LibFiles
    BY DEF Catalogued
  <2> QED  BY <1>0, <1>3, <2>1 DEF HeldBeneath
<1>9. NothingLeftUnclaimed'
  <2> SUFFICES ASSUME NEW k \in Registered
               PROVE  \/ k \in unclaimed
                      \/ \E p \in Owners : ask'[p].pc = "claim" /\ ask'[p].lib = k
                      \/ Claimable(k)' \subseteq strayed
    BY <1>1, <1>2 DEF NothingLeftUnclaimed
  <2>1. \A f \in Claimable(k)' : f \in Claimable(k) /\ ~ (l \in Registered /\ f \in Claimable(l))
    <3> TAKE f \in Claimable(k)'
    <3>1. f \in Catalogued /\ f \in LibFiles /\ holder'[f] = NoLib /\ Beneath(at[f], root[k])
      BY <1>1, <1>2 DEF Claimable, Catalogued
    <3>2. l # NoLib
      BY <1>0, NamedPaths
    <3> QED  BY <1>1, <1>3, <3>1, <3>2 DEF Claimable
  <2>2. CASE k = l
    BY <2>1, <2>2
  <2>3. CASE k # l
    <3>1. \A p \in Owners : ask[p].pc = "claim" /\ ask[p].lib = k => ask'[p] = ask[p]
      BY <1>5, <2>3 DEF l
    <3> QED  BY <1>0, <2>1, <3>1 DEF NothingLeftUnclaimed
  <2> QED  BY <2>2, <2>3
<1> QED  BY <1>5, <1>6, <1>7, <1>8, <1>9 DEF LibsIInv

\* A rename writes the path it worked out: a sibling of the one its row has,
\* or the file has strayed.
LEMMA RewriteKept ==
  ASSUME LibsIInv, NEW o \in Owners, RewritePath(o)
  PROVE  LibsIInv'
<1> DEFINE g == ask[o].file
<1>0. /\ RowsTyped /\ ask[o].pc = "rename" /\ ask[o].op = "rename" /\ g \in Catalogued
      /\ g \in LibFiles /\ ask[o].root \in Paths /\ ask[o].root # << >>
      /\ HeldBeneath /\ NothingLeftUnclaimed /\ OverlapsWereRaced
      /\ at \in [LibFiles -> Paths]
      /\ \A p \in Owners : Follows(ask[p])
      /\ UNCHANGED <<root, holder, asks, slipped, unclaimed>> /\ Answered(o)
  BY DEF LibsIInv, RowsTyped, CallsFit, InOrder, RewritePath, Catalogued, AskRecord
<1>1. \/ UNCHANGED <<at, strayed>>
      \/ /\ at' = [at EXCEPT ![g] = ask[o].root]
         /\ strayed' = IF ask[o].stale THEN strayed \cup {g} ELSE strayed
  BY DEF RewritePath
<1>2. CASE UNCHANGED <<at, strayed>>
  BY <1>0, <1>2, EndKept
<1>3. CASE /\ at' = [at EXCEPT ![g] = ask[o].root]
           /\ strayed' = IF ask[o].stale THEN strayed \cup {g} ELSE strayed
  <2>1. strayed \subseteq strayed' /\ (ask[o].stale => g \in strayed')
    BY <1>3
  <2>2. at[g] \in Paths /\ at[g] # << >>
    BY <1>0 DEF Catalogued
  <2>3. \/ g \in strayed'
        \/ \E n \in FileNames : ask[o].root = Sibling(at[g], n)
    BY <1>0, <2>1 DEF Follows
  <2>4. \A f \in LibFiles : at'[f] = IF f = g THEN ask[o].root ELSE at[f]
    BY <1>0, <1>3
  <2> HIDE DEF g
  \* Sibling paths are beneath the same folders.
  <2>5. g \in strayed' \/ \A r \in Paths : Beneath(at'[g], r) <=> Beneath(at[g], r)
    <3>1. ASSUME NEW n \in FileNames, ask[o].root = Sibling(at[g], n)
          PROVE  \A r \in Paths : Beneath(at'[g], r) <=> Beneath(at[g], r)
      <4>1. n \in Segments /\ at'[g] = Sibling(at[g], n)
        BY <1>0, <2>4, <3>1, NamedPaths
      <4> QED  BY <2>2, <4>1, SiblingsTogether
    <3> QED  BY <2>3, <3>1
  <2>6. UNCHANGED Registered /\ \A k \in Registered : root[k] \in Paths
    BY <1>0, NamedPaths DEF Registered, RowsTyped
  <2>7. Catalogued' = Catalogued
    <3>1. g \in Catalogued' /\ \A f \in LibFiles \ {g} : at'[f] = at[f]
      BY <1>0, <2>4 DEF Catalogued
    <3> QED  BY <1>0, <3>1 DEF Catalogued
  <2>8. \A p \in Owners : Follows(ask[p])'
    <3> TAKE p \in Owners
    <3>1. CASE p = o
      <4>1. ask'[o] = IdleAsk
        BY <1>0 DEF Answered, LibsIInv, RowsTyped
      <4> QED  BY <3>1, <4>1 DEF Follows, IdleAsk
    <3>2. CASE p # o
      <4>1. ask'[p] = ask[p] /\ Follows(ask[p])
        BY <1>0, <3>2 DEF Answered, LibsIInv, RowsTyped
      <4>2. CASE ask[p].op # "rename"
        BY <4>1, <4>2 DEF Follows
      <4>3. CASE ask[p].op = "rename" /\ ask[p].file # g
        <5>1. ask[p].file \in LibFiles
          BY <4>3 DEF LibsIInv, CallsFit, InOrder, Catalogued
        <5>2. at'[ask[p].file] = at[ask[p].file]
          BY <2>4, <4>3, <5>1
        <5> QED  BY <2>1, <4>1, <5>2 DEF Follows
      <4>4. CASE ask[p].op = "rename" /\ ask[p].file = g /\ g \in strayed'
        BY <4>1, <4>4 DEF Follows
      <4>5. CASE ask[p].op = "rename" /\ ask[p].file = g /\ g \notin strayed'
        <5>1. PICK m \in FileNames : at'[g] = Sibling(at[g], m)
          BY <1>0, <2>3, <2>4, <4>5
        <5>2. m \in Segments
          BY NamedPaths
        <5>3. \A n : Sibling(at'[g], n) = Sibling(at[g], n)
          BY <2>2, <5>1, <5>2, SiblingsTogether
        <5> QED  BY <2>1, <4>1, <4>5, <5>3 DEF Follows
      <4> QED  BY <4>2, <4>3, <4>4, <4>5
    <3> QED  BY <3>1, <3>2
  <2>9. /\ CallsFit' /\ Alone' /\ ask' \in [Owners -> AskRecord]
        /\ \A p \in Owners \ {o} : ask'[p] = ask[p]
    <3>1. \A k \in Registered' : root'[k] = root[k]
      BY <1>0
    <3> QED  BY <1>0, <2>6, <2>7, <2>8, <3>1, CallsWhenOneEnds
  <2>10. RowsTyped'
    <3>1. at' \in [LibFiles -> Paths]
      BY <1>0, <1>3 DEF g
    <3> QED  BY <1>0, <2>6, <2>7, <2>9, <3>1 DEF RowsTyped
  <2>11. OverlapsWereRaced'
    BY <1>0, <2>6 DEF OverlapsWereRaced
  <2>12. HeldBeneath'
    <3> SUFFICES ASSUME NEW f \in Catalogued \ strayed', holder[f] # NoLib
                 PROVE  Beneath(at'[f], root[holder[f]])
      BY <1>0, <2>7 DEF HeldBeneath
    <3>1. f \in LibFiles /\ holder[f] \in Registered /\ Beneath(at[f], root[holder[f]])
      BY <1>0, <2>1 DEF HeldBeneath, RowsTyped, Catalogued
    <3> QED  BY <2>4, <2>5, <2>6, <3>1
  <2>13. NothingLeftUnclaimed'
    <3> SUFFICES ASSUME NEW k \in Registered
                 PROVE  \/ k \in unclaimed
                        \/ \E p \in Owners : ask'[p].pc = "claim" /\ ask'[p].lib = k
                        \/ Claimable(k)' \subseteq strayed'
      BY <1>0, <2>6 DEF NothingLeftUnclaimed
    <3>1. ASSUME NEW f \in Claimable(k)', f \notin strayed'
          PROVE  f \in Claimable(k)
      <4>1. f \in Catalogued /\ f \in LibFiles /\ holder[f] = NoLib /\ Beneath(at'[f], root[k])
        BY <1>0, <2>7 DEF Claimable, Catalogued
      <4>2. Beneath(at[f], root[k])
        BY <2>4, <2>5, <2>6, <3>1, <4>1
      <4> QED  BY <4>1, <4>2 DEF Claimable
    <3>2. \A p \in Owners : ask[p].pc = "claim" => ask'[p] = ask[p]
      BY <1>0, <2>9
    <3> QED  BY <1>0, <2>1, <3>1, <3>2 DEF NothingLeftUnclaimed
  <2> QED  BY <2>9, <2>10, <2>11, <2>12, <2>13 DEF LibsIInv
<1> QED  BY <1>1, <1>2, <1>3

\* An index run inserts a file, held by the deepest library around it.
LEMMA IndexFileKept ==
  ASSUME LibsIInv, NEW g \in LibFiles, IndexFile(g)
  PROVE  LibsIInv'
<1>0. /\ RowsTyped /\ CallsFit /\ Alone /\ HeldBeneath /\ NothingLeftUnclaimed
      /\ OverlapsWereRaced /\ at \in [LibFiles -> Paths]
      /\ holder \in [LibFiles -> Registered \cup {NoLib}]
  BY DEF LibsIInv, RowsTyped
<1>1. PICK q \in Spots :
           /\ g \notin Catalogued /\ at' = [at EXCEPT ![g] = q]
           /\ holder' = [holder EXCEPT ![g] = HolderFor(q)]
           /\ UNCHANGED <<root, ask, asks, slipped, strayed, unclaimed>>
  BY DEF IndexFile
<1>2. q \in Paths /\ q # << >> /\ \A l \in Registered : root[l] \in Paths
  BY <1>0, NamedPaths DEF RowsTyped, Registered
<1>3. \/ HolderFor(q) = NoLib /\ \A l \in Registered : ~ Beneath(q, root[l])
      \/ HolderFor(q) \in Registered /\ Beneath(q, root[HolderFor(q)])
  BY <1>2, HolderFound
<1>4. \A f \in LibFiles : /\ at'[f] = IF f = g THEN q ELSE at[f]
                          /\ holder'[f] = IF f = g THEN HolderFor(q) ELSE holder[f]
  BY <1>0, <1>1
<1>5. Registered' = Registered /\ Catalogued' = Catalogued \cup {g}
  BY <1>1, <1>2, <1>4 DEF Registered, Catalogued
<1>6. RowsTyped'
  <2>1. /\ at' \in [LibFiles -> Paths]
        /\ holder' \in [LibFiles -> Registered \cup {NoLib}]
    BY <1>0, <1>1, <1>2, <1>3
  <2>2. \A f \in LibFiles \ Catalogued' : holder'[f] = NoLib
    BY <1>0, <1>4, <1>5 DEF RowsTyped
  <2> QED  BY <1>0, <1>1, <1>5, <2>1, <2>2 DEF RowsTyped
<1>7. CallsFit'
  <2> SUFFICES ASSUME NEW p \in Owners
               PROVE  (InOrder(ask[p]) /\ Fresh(ask[p]) /\ KnowsRivals(ask[p])
                         /\ Follows(ask[p]))'
    BY DEF CallsFit
  <2>1. /\ InOrder(ask[p]) /\ Fresh(ask[p]) /\ KnowsRivals(ask[p]) /\ Follows(ask[p])
        /\ ask' = ask
    BY <1>0, <1>1 DEF CallsFit
  <2>2. InOrder(ask[p])'
    BY <1>5, <2>1 DEF InOrder
  <2>3. Fresh(ask[p])'
    BY <1>5, <2>1 DEF Fresh, Registering
  <2>4. KnowsRivals(ask[p])'
    BY <1>1, <1>5, <2>1 DEF KnowsRivals
  <2>5. Follows(ask[p])'
    <3>1. CASE ask[p].op # "rename"
      BY <2>1, <3>1 DEF Follows
    <3>2. CASE ask[p].op = "rename"
      <4>1. ask[p].file \in LibFiles /\ ask[p].file # g
        BY <1>1, <2>1, <3>2 DEF InOrder, Catalogued
      <4>2. at'[ask[p].file] = at[ask[p].file]
        BY <1>4, <4>1
      <4> QED  BY <1>1, <2>1, <4>2 DEF Follows
    <3> QED  BY <3>1, <3>2
  <2> QED  BY <2>2, <2>3, <2>4, <2>5
<1>8. Alone' /\ OverlapsWereRaced'
  BY <1>0, <1>1, <1>5 DEF Alone, Registering, OverlapsWereRaced
<1>9. HeldBeneath'
  <2> SUFFICES ASSUME NEW f \in Catalogued', f \notin strayed, holder'[f] # NoLib
               PROVE  Beneath(at'[f], root[holder'[f]])
    BY <1>1 DEF HeldBeneath
  <2>1. f \in LibFiles
    BY <1>5 DEF Catalogued
  <2>2. CASE f = g
    BY <1>3, <1>4, <2>1, <2>2
  <2>3. CASE f # g
    BY <1>0, <1>4, <1>5, <2>1, <2>3 DEF HeldBeneath
  <2> QED  BY <2>2, <2>3
<1>10. NothingLeftUnclaimed'
  <2> SUFFICES ASSUME NEW k \in Registered
               PROVE  \/ k \in unclaimed
                      \/ \E p \in Owners : ask[p].pc = "claim" /\ ask[p].lib = k
                      \/ Claimable(k)' \subseteq strayed
    BY <1>1, <1>5 DEF NothingLeftUnclaimed
  <2>1. ASSUME NEW f \in Claimable(k)'  PROVE f \in Claimable(k)
    <3>1. f \in Catalogued' /\ f \in LibFiles /\ holder'[f] = NoLib /\ Beneath(at'[f], root[k])
      BY <1>1, <1>5 DEF Claimable, Catalogued
    <3>2. f # g
      <4> SUFFICES ASSUME f = g  PROVE FALSE
        OBVIOUS
      <4>1. HolderFor(q) = NoLib /\ Beneath(q, root[k])
        BY <1>4, <3>1
      <4>2. NoLib \notin Registered
        BY NamedPaths DEF Registered
      <4> QED  BY <1>3, <4>1, <4>2
    <3> QED  BY <1>4, <1>5, <3>1, <3>2 DEF Claimable
  <2> QED  BY <1>0, <2>1 DEF NothingLeftUnclaimed
<1> QED  BY <1>6, <1>7, <1>8, <1>9, <1>10 DEF LibsIInv

\* Every step keeps the invariant.
LEMMA LibsKept == LibsIInv /\ [LibrariesNext]_libVars => LibsIInv'
<1> SUFFICES ASSUME LibsIInv, [LibrariesNext]_libVars  PROVE LibsIInv'
  OBVIOUS
<1>1. CASE UNCHANGED libVars
  BY <1>1 DEF libVars, LibsIInv, RowsTyped, CallsFit, InOrder, Fresh, KnowsRivals, Follows,
              Registering, Alone, OverlapsWereRaced, HeldBeneath, NothingLeftUnclaimed,
              Registered, Catalogued, Claimable
<1>2. ASSUME NEW o \in Owners, LibraryCall(o)  PROVE LibsIInv'
  BY <1>2, AskKept, ReadKept, InsertKept, MoveKept, DeleteKept, ClaimKept, RewriteKept
     DEF LibraryCall
<1>3. ASSUME NEW f \in LibFiles, IndexFile(f)  PROVE LibsIInv'
  BY <1>3, IndexFileKept
<1> QED  BY <1>1, <1>2, <1>3 DEF LibrariesNext

\* The inductive invariant of the libraries.
THEOREM LibrariesInvariance == LibrariesSpec => []LibsIInv
<1> QED  BY LibsInitial, LibsKept, PTL DEF LibrariesSpec

\* The holder of every file is a library that still has its row, and a file
\* without a row is held by nobody (libraries/repos.rs, delete).
THEOREM LibrariesTypeCorrect == LibrariesSpec => []LibrariesTypeOK
<1>1. LibsIInv => LibrariesTypeOK
  BY DEF LibsIInv, RowsTyped, LibrariesTypeOK, AskRecord, Paths
<1> QED  BY <1>1, LibrariesInvariance, PTL

\* Two libraries overlap only when one of them was written between the
\* other's overlap check and its write (libraries/commands.rs, register and
\* move_root).
THEOREM OverlapsTheorem == LibrariesSpec => []OverlapsWereRaced
<1>1. LibsIInv => OverlapsWereRaced
  BY DEF LibsIInv
<1> QED  BY <1>1, LibrariesInvariance, PTL

\* Every file a library holds is listed at one level of its tree and on the
\* way down to it, unless a rename wrote a path read before a move
\* (libraries/queries.rs, level_of; repos.rs, claim_files).
THEOREM ListedTheorem == LibrariesSpec => []HeldFilesAreListed
<1>1. LibsIInv => HeldFilesAreListed
  <2> SUFFICES ASSUME LibsIInv, NEW f \in Catalogued \ strayed, holder[f] # NoLib
               PROVE  Beneath(at[f], root[holder[f]]) /\ Reached(f)
    BY Zenon DEF HeldFilesAreListed, Reached
  <2>1. Beneath(at[f], root[holder[f]])
    BY DEF LibsIInv, HeldBeneath
  <2>2. at[f] \in Paths /\ root[holder[f]] \in Paths
    BY NamedPaths DEF LibsIInv, RowsTyped, Catalogued, Registered
  <2> QED  BY <2>1, <2>2, BrowsingReaches
<1> QED  BY <1>1, LibrariesInvariance, PTL

\* Once a registration or a move is over its library leaves no file beneath
\* its root unheld, unless the claim never ran or an overlapping library was
\* removed (libraries/commands.rs, register and move_root).
THEOREM UnclaimedTheorem == LibrariesSpec => []NothingLeftUnclaimed
<1>1. LibsIInv => NothingLeftUnclaimed
  BY DEF LibsIInv
<1> QED  BY <1>1, LibrariesInvariance, PTL
================================================================================
