-------------------------- MODULE RunControlProofs --------------------------
(***************************************************************************)
(* Theorems about RunControl for every set of runs and callers, every      *)
(* bound on the segments and every set of faults: types, safety, and that  *)
(* it implements RunLifecycle.                                             *)
(***************************************************************************)
EXTENDS RunControl, TLAPS

(* The segments are numbers, and none of them stands for no cell.          *)
LEMMA GensFacts ==
    /\ Gens \subseteq Int
    /\ 0 \in Gens
    /\ NoCell \notin Gens
    /\ Waived \notin Gens
    /\ \A g \in Gens : g >= 0 /\ g <= MaxSegment
    /\ \A g \in Gens : g < MaxSegment => g + 1 \in Gens
BY SegmentAssumption DEF Gens, NoCell, Waived

(* A walk is a run and a segment of it.                                    *)
LEMMA WalksFacts ==
    /\ \A w \in Walks : RunOf(w) \in Runs /\ w[2] \in Gens
    /\ \A w \in Walks : w = <<RunOf(w), w[2]>>
    /\ \A r \in Runs, g \in Gens :
          <<r, g>> \in Walks /\ RunOf(<<r, g>>) = r /\ <<r, g>>[2] = g
BY DEF Walks, RunOf

-----------------------------------------------------------------------------
(* Every statement of CatalogRunRepository leaves a row a row. *)
LEMMA RowOperators ==
    ASSUME NEW rw \in RowType, NEW t \in {"none", "partial", "whole"},
           NEW p \in Phases
    PROVE  /\ Started(rw) \in RowType
           /\ Finished(rw, t) \in RowType
           /\ FailedRow(rw) \in RowType
           /\ PausedRow(rw) \in RowType
           /\ CancelledRow(rw, t) \in RowType
           /\ rw.segment < MaxSegment => ResumedRow(rw) \in RowType
           /\ WithProgress(rw, p) \in RowType
           /\ Reconciled(rw) \in RowType
<1>1. rw.segment < MaxSegment => rw.segment + 1 \in Gens
    BY GensFacts DEF RowType
<1>2. /\ {"running", "complete", "failed", "paused", "cancelled"} \subseteq Statuses
      /\ {"none", "discovering"} \subseteq Phases
    BY DEF Statuses, Live, Closed, Phases
<1>. QED
    BY <1>1, <1>2 DEF RowType, Started, Finished, FailedRow, PausedRow,
       CancelledRow, ResumedRow, WithProgress, Reconciled

(* A signal that was raised is a signal.                                   *)
LEMMA RaiseType ==
    ASSUME NEW s \in Signals, NEW verb \in AllVerbs
    PROVE  Raise(s, SignalOf(verb)) \in Signals
BY DEF Raise, SignalOf, Signals, NoSignal, PauseSignal, CancelSignal

(* What stands for no walk and no call has its type.                       *)
LEMMA IdleTypes ==
    /\ IdleWalk \in WalkType
    /\ DoneWalk \in WalkType
    /\ \A r \in Runs : IdleCall(r) \in CallType
<1>1. NoSignal \in Signals /\ "discovering" \in Phases /\ "none" \in Phases
    BY DEF Signals, NoSignal, CancelSignal, Phases
<1>2. IdleWalk \in WalkType
    BY <1>1 DEF IdleWalk, WalkType, WalkPCs
<1>3. DoneWalk \in WalkType
    BY <1>2 DEF DoneWalk, WalkType, WalkPCs
<1>4. \A r \in Runs : IdleCall(r) \in CallType
    BY <1>1 DEF IdleCall, CallType, AllVerbs, Statuses
<1>. QED
    BY <1>2, <1>3, <1>4

(* A guard that closes leaves a cell, or none, for every run.              *)
LEMMA CloseType ==
    ASSUME TypeOK, NEW w \in Walks
    PROVE  Close(w) \in [Runs -> Gens \cup {NoCell}]
BY WalksFacts DEF TypeOK, Close

-----------------------------------------------------------------------------
(* Type correctness. *)

(* A walk that begins, or is gone at once, has its type.                   *)
LEMMA SpawnType ==
    ASSUME TypeOK, NEW r \in Runs, NEW g \in Gens, SpawnOrGone(r, g)
    PROVE  walk' \in [Walks -> WalkType]
<1>1. <<r, g>> \in Walks /\ "spawned" \in WalkPCs
    BY WalksFacts DEF WalkPCs
<1>2. CASE Spawn(r, g)
    BY <1>1, <1>2 DEF TypeOK, Spawn, WalkType
<1>3. CASE UNCHANGED walk
    BY <1>3 DEF TypeOK
<1>. QED
    BY <1>2, <1>3 DEF SpawnOrGone

(* A start keeps the types.                                                *)
LEMMA StartType ==
    ASSUME TypeOK, NEW r \in Runs, Start(r)
    PROVE  TypeOK'
<1>1. row' \in [Runs -> RowType]
    BY RowOperators, "none" \in Phases DEF TypeOK, Start, Phases
<1>2. walk' \in [Walks -> WalkType]
    BY SpawnType, GensFacts DEF Start
<1>. QED
    BY <1>1, <1>2 DEF TypeOK, Start

(* A flush of the tally writes a row.                                      *)
LEMMA FlushType ==
    ASSUME TypeOK, NEW w \in Walks, Flush(w)
    PROVE  row' \in [Runs -> RowType]
<1>1. walk[w].phase \in Phases /\ row[RunOf(w)] \in RowType
    BY WalksFacts DEF TypeOK, WalkType
<1>2. WithProgress(row[RunOf(w)], walk[w].phase) \in RowType
    BY <1>1, RowOperators
<1>. QED
    BY <1>2, WalksFacts DEF TypeOK, Flush

(* The row a walk ends with has its type.                                  *)
LEMMA ConcludeType ==
    ASSUME TypeOK, NEW w \in Walks
    PROVE  Conclude(w) \in RowType
<1>1. row[RunOf(w)] \in RowType
    BY WalksFacts DEF TypeOK
<1>2. Tally(w) \in {"none", "partial", "whole"}
    BY DEF Tally
<1>. QED
    BY <1>1, <1>2, RowOperators, "none" \in Phases DEF Conclude, Phases

(* Every step of a walk keeps the types.                                   *)
LEMMA WalkStepType ==
    ASSUME TypeOK, NEW w \in Walks,
           WalkStep(w) \/ IntervalFlush(w) \/ Panic(w)
    PROVE  TypeOK'
<1>. USE WalksFacts
<1>1. /\ walk[w] \in WalkType
      /\ row[RunOf(w)] \in RowType
      /\ WalkPCs = {"idle", "spawned", "done", "opened", "listing", "starting",
                    "working", "flushing", "closing", "writing", "failing"}
    BY DEF TypeOK, WalkPCs, HoldsCell, Exits
<1>2. Close(w) \in [Runs -> Gens \cup {NoCell}]
    BY CloseType
<1>3. ASSUME NEW pc \in WalkPCs, SetWalk(w, pc)
      PROVE  walk' \in [Walks -> WalkType]
    BY <1>1, <1>3 DEF SetWalk, TypeOK, WalkType
<1>4. EndWalk(w) => walk' \in [Walks -> WalkType]
    BY IdleTypes DEF EndWalk, TypeOK
<1>5. CASE Open(w)
    <2>1. cell' \in [Runs -> Gens \cup {NoCell}]
        BY <1>5 DEF Open, TypeOK
    <2>2. walk' \in [Walks -> WalkType]
        BY <1>1, <1>3, <1>5 DEF Open
    <2>. QED
        BY <1>5, <2>1, <2>2 DEF Open, TypeOK
<1>6. CASE ReadRow(w)
    <2>1. cell' \in [Runs -> Gens \cup {NoCell}]
        BY <1>2, <1>6 DEF ReadRow, TypeOK
    <2>2. walk' \in [Walks -> WalkType]
        <3>1. CASE EndWalk(w)
            BY <1>4, <3>1
        <3>2. CASE SetWalk(w, "listing")
            BY <1>1, <1>3, <3>2
        <3>3. CASE walk' = [walk EXCEPT ![w].pc = "listing",
                                        ![w].known = row[RunOf(w)].segment]
            BY <1>1, <3>3 DEF TypeOK, WalkType, RowType
        <3>. QED
            BY <1>6, <3>1, <3>2, <3>3 DEF ReadRow
    <2>. QED
        BY <1>6, <2>1, <2>2 DEF ReadRow, TypeOK
<1>7. CASE Discover(w)
    <2>1. cell' \in [Runs -> Gens \cup {NoCell}]
        BY <1>2, <1>7 DEF Discover, TypeOK
    <2>2. walk' \in [Walks -> WalkType]
        <3>1. CASE SetWalk(w, "failing")
            BY <1>1, <1>3, <3>1
        <3>2. CASE walk' = [walk EXCEPT ![w].pc = "flushing", ![w].halted = TRUE,
                                        ![w].stop = walk[w].signal]
            BY <1>1, <3>2 DEF TypeOK, WalkType
        <3>3. CASE walk' = [walk EXCEPT ![w].pc = "starting",
                                        ![w].phase = "processing"]
            BY <1>1, <3>3 DEF TypeOK, WalkType, Phases
        <3>. QED
            BY <1>7, <3>1, <3>2, <3>3 DEF Discover
    <2>. QED
        BY <1>7, <2>1, <2>2 DEF Discover, TypeOK
<1>8. CASE FirstFlush(w)
    BY <1>1, <1>3, <1>8, FlushType DEF FirstFlush, TypeOK
<1>9. CASE IntervalFlush(w)
    BY <1>9, FlushType DEF IntervalFlush, TypeOK
<1>10. CASE HaltEntry(w)
    <2>1. walk' \in [Walks -> WalkType]
        BY <1>1, <1>10 DEF HaltEntry, TypeOK, WalkType
    <2>. QED
        BY <1>10, <2>1 DEF HaltEntry, TypeOK
<1>11. CASE Drain(w)
    <2>1. walk' \in [Walks -> WalkType]
        BY <1>1, <1>11 DEF Drain, TypeOK, WalkType
    <2>. QED
        BY <1>11, <2>1 DEF Drain, TypeOK
<1>12. CASE FinalFlush(w)
    BY <1>1, <1>3, <1>12, FlushType DEF FinalFlush, TypeOK
<1>13. CASE DropCell(w)
    BY <1>1, <1>2, <1>3, <1>13 DEF DropCell, TypeOK
<1>14. CASE WriteEnd(w)
    <2>1. row' \in [Runs -> RowType]
        BY <1>14, ConcludeType DEF WriteEnd, TypeOK
    <2>. QED
        BY <1>4, <1>14, <2>1 DEF WriteEnd, TypeOK
<1>15. CASE WriteFailed(w)
    <2>1. FailedRow(row[RunOf(w)]) \in RowType
        BY <1>1, RowOperators, "none" \in Phases DEF Phases
    <2>2. row' \in [Runs -> RowType]
        BY <1>15, <2>1 DEF WriteFailed, TypeOK
    <2>. QED
        BY <1>4, <1>15, <2>2 DEF WriteFailed, TypeOK
<1>16. CASE Panic(w)
    BY <1>2, <1>4, <1>16 DEF Panic, TypeOK
<1>. QED
    BY <1>5, <1>6, <1>7, <1>8, <1>9, <1>10, <1>11, <1>12, <1>13, <1>14, <1>15,
       <1>16 DEF WalkStep

(* Every step of a pause, a cancel or a resume keeps the types.            *)
LEMMA CallStepType ==
    ASSUME TypeOK, NEW c \in Callers, CallStep(c)
    PROVE  TypeOK'
<1>. DEFINE r == call[c].run
<1>. USE WalksFacts
<1>1. /\ call[c] \in CallType
      /\ r \in Runs
      /\ call[c].verb \in AllVerbs
      /\ row[r] \in RowType
      /\ cell[r] \in Gens \cup {NoCell}
    BY DEF TypeOK, CallType
<1>2. Answer(c) => call' \in [Callers -> CallType]
    BY <1>1, IdleTypes DEF TypeOK, Answer
<1>3. \A v \in AllVerbs : Acknowledge(r, v) => acked' \in [Runs -> SUBSET AllVerbs]
    BY <1>1 DEF TypeOK, Acknowledge
<1>4. CASE CheckRegistry(c)
    <2>. DEFINE w == <<r, cell[r]>>
    <2>1. CASE cell[r] # NoCell
        <3>1. w \in Walks /\ walk[w] \in WalkType
            BY <1>1, <2>1 DEF TypeOK
        <3>2. Raise(walk[w].signal, SignalOf(call[c].verb)) \in Signals
            BY <1>1, <3>1, RaiseType DEF WalkType
        <3>3. walk' = [walk EXCEPT ![w].signal =
                          Raise(walk[w].signal, SignalOf(call[c].verb))]
            BY <1>4, <2>1 DEF CheckRegistry
        <3>4. walk' \in [Walks -> WalkType]
            BY <3>1, <3>2, <3>3 DEF TypeOK, WalkType
        <3>. QED
            <4>1. acked' \in [Runs -> SUBSET AllVerbs] /\ call' \in [Callers -> CallType]
                BY <1>1, <1>2, <1>3, <1>4, <2>1 DEF CheckRegistry
            <4>. QED
                BY <1>4, <3>4, <4>1 DEF CheckRegistry, TypeOK
    <2>2. CASE cell[r] = NoCell
        <3>1. call' \in [Callers -> CallType]
            BY <1>1, <1>4, <2>2 DEF CheckRegistry, TypeOK, CallType
        <3>. QED
            BY <1>4, <2>2, <3>1 DEF CheckRegistry, TypeOK
    <2>. QED
        BY <2>1, <2>2
<1>5. CASE WriteStop(c)
    <2>1. PausedRow(row[r]) \in RowType /\ CancelledRow(row[r], "none") \in RowType
        BY <1>1, RowOperators, "none" \in Phases DEF Phases
    <2>2. row' \in [Runs -> RowType]
        BY <1>1, <1>5, <2>1 DEF WriteStop, TypeOK
    <2>3. acked' \in [Runs -> SUBSET AllVerbs]
        BY <1>1, <1>3, <1>5 DEF WriteStop, TypeOK
    <2>. QED
        BY <1>2, <1>5, <2>2, <2>3 DEF WriteStop, TypeOK
<1>6. CASE WriteResume(c)
    <2>1. ASSUME row[r].segment < MaxSegment,
                 row' = [row EXCEPT ![r] = ResumedRow(@)],
                 SpawnOrGone(r, row[r].segment + 1)
          PROVE  row' \in [Runs -> RowType] /\ walk' \in [Walks -> WalkType]
        <3>1. ResumedRow(row[r]) \in RowType
            BY <1>1, <2>1, RowOperators, "none" \in Phases DEF Phases
        <3>2. row' \in [Runs -> RowType]
            BY <2>1, <3>1 DEF TypeOK
        <3>3. row[r].segment + 1 \in Gens
            BY <1>1, <2>1, GensFacts DEF RowType
        <3>4. walk' \in [Walks -> WalkType]
            BY <1>1, <2>1, <3>3, SpawnType
        <3>. QED
            BY <3>2, <3>4
    <2>2. UNCHANGED <<row, walk, acked>> =>
              row' \in [Runs -> RowType] /\ walk' \in [Walks -> WalkType]
        BY DEF TypeOK
    <2>3. row' \in [Runs -> RowType] /\ walk' \in [Walks -> WalkType]
        BY <1>6, <2>1, <2>2 DEF WriteResume, TypeOK
    <2>4. acked' \in [Runs -> SUBSET AllVerbs]
        BY <1>6 DEF WriteResume, TypeOK, Pending
    <2>. QED
        BY <1>2, <1>6, <2>3, <2>4 DEF WriteResume, TypeOK
<1>7. CASE Overlay(c)
    <2>1. cell[r] # NoCell => walk[<<r, cell[r]>>].phase \in Phases
        BY <1>1 DEF TypeOK, WalkType
    <2>2. call' \in [Callers -> CallType]
        BY <1>1, <1>7, <2>1 DEF Overlay, TypeOK, CallType
    <2>. QED
        BY <1>7, <2>2 DEF Overlay, TypeOK
<1>. QED
    BY <1>4, <1>5, <1>6, <1>7 DEF CallStep

(* A new call keeps the types.                                             *)
LEMMA LookupType ==
    ASSUME TypeOK, NEW c \in Callers, NEW verb \in Verbs, NEW r \in Runs,
           Lookup(c, verb, r)
    PROVE  TypeOK'
<1>1. row[r] \in RowType /\ verb \in AllVerbs
    BY VerbsAssumption DEF TypeOK
<1>2. Asked(verb, r) \in CallType
    <2>1. NextPC(verb) \in {"check", "write", "overlay"}
        BY DEF NextPC
    <2>. QED
        BY <1>1, <2>1, IdleTypes DEF Asked, IdleCall, CallType
<1>3. call'[c] \in CallType
    BY <1>1, <1>2 DEF Lookup, TypeOK, CallType, RowType
<1>. QED
    BY <1>3 DEF Lookup, TypeOK

(* A restart keeps the types.                                              *)
LEMMA RestartType ==
    ASSUME TypeOK, Restart
    PROVE  TypeOK'
<1>1. walk' \in [Walks -> WalkType]
    BY IdleTypes DEF Restart, TypeOK
<1>2. call' \in [Callers -> CallType]
    <2>1. \A c \in Callers : call[c].run \in Runs
        BY DEF TypeOK, CallType
    <2>. QED
        BY <2>1, IdleTypes DEF Restart, TypeOK
<1>3. row' \in [Runs -> RowType]
    <2>1. \A r \in Runs : Reconciled(row[r]) \in RowType
        BY RowOperators, "none" \in Phases DEF TypeOK, Phases
    <2>. QED
        BY <2>1 DEF Restart, TypeOK
<1>. QED
    BY <1>1, <1>2, <1>3 DEF Restart, TypeOK

(* The service begins well typed.                                          *)
LEMMA InitType == Init => TypeOK
<1>1. NewRow \in RowType
    BY GensFacts DEF NewRow, RowType, Statuses, Phases
<1>. QED
    BY <1>1, IdleTypes DEF Init, TypeOK

(* Every step keeps the types.                                             *)
LEMMA NextType == TypeOK /\ [Next]_vars => TypeOK'
<1>. SUFFICES ASSUME TypeOK, [Next]_vars PROVE TypeOK'
    OBVIOUS
<1>1. CASE UNCHANGED vars
    BY <1>1 DEF vars, TypeOK
<1>. QED
    BY <1>1, StartType, WalkStepType, CallStepType, LookupType, RestartType
    DEF Next

(* Every variable keeps its type, for every bound and every set of faults. *)
THEOREM TypeCorrect == Spec => []TypeOK
BY InitType, NextType, PTL DEF Spec

-----------------------------------------------------------------------------
(* The inductive invariant. *)

(* What is true of every row: RowShape and CompleteIsWhole of one row, and *)
(* a run nobody started has no history.                                    *)
GoodRow(rw) ==
    /\ rw.status = "absent" => rw = NewRow
    /\ rw.finished <=> rw.status \in Closed
    /\ rw.status = "paused" => rw.pausedAt
    /\ rw.status = "running" => ~rw.pausedAt
    /\ rw.status \in Live => rw.tally = "none"
    /\ rw.status = "complete" => rw.tally = "whole"

(* The segment a walk knows lies between the one it was spawned for and    *)
(* the one its row is on, and a walk that halted an entry stops.           *)
GoodWalk(w) ==
    LET wk == walk[w]
        rw == row[RunOf(w)]
    IN
    /\ wk.pc # "idle" => w[2] <= rw.segment /\ rw.status # "absent"
    /\ wk.known # Waived => w[2] <= wk.known /\ wk.known <= rw.segment
    /\ wk.halted => wk.signal # NoSignal
    /\ wk.halted /\ wk.pc \in {"flushing", "closing", "writing"}
            => wk.stop # NoSignal

GoodRows == \A r \in Runs : GoodRow(row[r])
GoodWalks == \A w \in Walks : GoodWalk(w)

IInv == TypeOK /\ GoodRows /\ GoodWalks /\ RegistryOwned /\ RunningIsOwed

(* The ways a row may move: one disjunct per statement that writes it.     *)
Moves(rw, nw) ==
    \/ nw = rw
    \/ rw.status = "absent" /\ nw = Started(rw)
    \/ rw.status # "absent" /\ nw = Finished(rw, "whole")
    \/ rw.status # "absent" /\ nw = FailedRow(rw)
    \/ rw.status = "running" /\ nw = PausedRow(rw)
    \/ \E t \in {"none", "partial", "whole"} :
          rw.status \in CancellableFrom(t) /\ nw = CancelledRow(rw, t)
    \/ rw.status = "paused" /\ rw.segment < MaxSegment /\ nw = ResumedRow(rw)
    \/ \E p \in Phases : rw.status # "absent" /\ nw = WithProgress(rw, p)
    \/ nw = Reconciled(rw)

(* A row that moves as the statements move it stays sound, and neither     *)
(* returns nor reopens.                                                    *)
LEMMA MovesKeepRow ==
    ASSUME NEW rw \in RowType, NEW nw, GoodRow(rw), Moves(rw, nw)
    PROVE  /\ GoodRow(nw)
           /\ nw.segment >= rw.segment
           /\ rw.status # "absent" => nw.status # "absent"
           /\ rw.status \in Closed => nw.status \in Closed /\ nw.segment = rw.segment
<1>. USE DEF Live, Closed
<1>0. rw.segment \in Int
    BY GensFacts DEF RowType
<1>1. CASE nw = rw
    BY <1>0, <1>1
<1>2. CASE rw.status = "absent" /\ nw = Started(rw)
    BY <1>0, <1>2 DEF GoodRow, NewRow, Started, RowType
<1>3. CASE rw.status # "absent" /\ nw = Finished(rw, "whole")
    BY <1>0, <1>3 DEF GoodRow, Finished, RowType
<1>4. CASE rw.status # "absent" /\ nw = FailedRow(rw)
    BY <1>0, <1>4 DEF GoodRow, FailedRow, RowType
<1>5. CASE rw.status = "running" /\ nw = PausedRow(rw)
    BY <1>0, <1>5 DEF GoodRow, PausedRow, RowType
<1>6. CASE \E t \in {"none", "partial", "whole"} :
              rw.status \in CancellableFrom(t) /\ nw = CancelledRow(rw, t)
    BY <1>0, <1>6 DEF GoodRow, CancellableFrom, CancelledRow, RowType
<1>7. CASE rw.status = "paused" /\ rw.segment < MaxSegment /\ nw = ResumedRow(rw)
    BY <1>0, <1>7 DEF GoodRow, ResumedRow, RowType
<1>8. CASE \E p \in Phases : rw.status # "absent" /\ nw = WithProgress(rw, p)
    BY <1>0, <1>8 DEF GoodRow, WithProgress, RowType
<1>9. CASE nw = Reconciled(rw)
    BY <1>0, <1>9 DEF GoodRow, Reconciled, RowType
<1>. QED
    BY <1>1, <1>2, <1>3, <1>4, <1>5, <1>6, <1>7, <1>8, <1>9 DEF Moves

-----------------------------------------------------------------------------
(* Every step moves every row by one of the statements. *)

(* A flush moves the row as the statements do.                             *)
LEMMA FlushMoves ==
    ASSUME TypeOK, GoodWalks, NEW w \in Walks, walk[w].pc # "idle", Flush(w),
           NEW r \in Runs
    PROVE  Moves(row[r], row'[r])
<1>1. walk[w].phase \in Phases
    BY DEF TypeOK, WalkType
<1>2. row[RunOf(w)].status # "absent"
    BY DEF GoodWalks, GoodWalk
<1>. QED
    BY <1>1, <1>2, WalksFacts DEF Flush, Moves, TypeOK

(* So does the end of a walk.                                              *)
LEMMA WriteEndMoves ==
    ASSUME TypeOK, GoodWalks, NEW w \in Walks, WriteEnd(w), NEW r \in Runs
    PROVE  Moves(row[r], row'[r])
<1>1. row[RunOf(w)].status # "absent"
    BY DEF GoodWalks, GoodWalk, WriteEnd
<1>2. Moves(row[RunOf(w)], Conclude(w))
    <2>1. walk[w].stop = NoSignal => Tally(w) = "whole"
        BY DEF GoodWalks, GoodWalk, WriteEnd, Tally
    <2>2. Tally(w) \in {"none", "partial", "whole"}
        BY DEF Tally
    <2>3. NoSignal # PauseSignal
        BY DEF NoSignal, PauseSignal
    <2>4. CASE walk[w].stop = NoSignal
        <3>1. Conclude(w) = Finished(row[RunOf(w)], "whole")
            BY <2>1, <2>3, <2>4 DEF Conclude
        <3>. QED
            BY <1>1, <3>1 DEF Moves
    <2>5. CASE walk[w].stop = PauseSignal
        BY <2>3, <2>5 DEF Conclude, PauseApplies, Moves
    <2>6. CASE walk[w].stop # NoSignal /\ walk[w].stop # PauseSignal
        BY <2>2, <2>6 DEF Conclude, CancelApplies, Moves
    <2>. QED
        BY <2>4, <2>5, <2>6
<1>. QED
    BY <1>2, WalksFacts DEF WriteEnd, TypeOK, Moves

(* So does every step of a call.                                           *)
LEMMA CallStepMoves ==
    ASSUME TypeOK, NEW c \in Callers, CallStep(c), NEW r \in Runs
    PROVE  Moves(row[r], row'[r])
<1>1. call[c].run \in Runs
    BY DEF TypeOK, CallType
<1>2. CASE UNCHANGED row
    BY <1>2 DEF Moves
<1>3. CASE WriteStop(c) /\ ~UNCHANGED row
    <2>1. CASE call[c].verb = "pause"
        BY <1>1, <1>3, <2>1 DEF WriteStop, StopApplies, PauseApplies, Moves,
           TypeOK
    <2>2. CASE call[c].verb # "pause"
        <3>1. /\ row[call[c].run].status \in CancellableFrom("none")
              /\ row' = [row EXCEPT ![call[c].run] = CancelledRow(@, "none")]
            BY <1>1, <1>3, <2>2 DEF WriteStop, StopApplies, CancelApplies
        <3>. QED
            BY <1>1, <3>1 DEF Moves, TypeOK
    <2>. QED
        BY <2>1, <2>2
<1>4. CASE WriteResume(c) /\ ~UNCHANGED row
    BY <1>1, <1>4 DEF WriteResume, Moves, TypeOK
<1>. QED
    BY <1>2, <1>3, <1>4 DEF CallStep, CheckRegistry, Overlay

(* So does every step.                                                     *)
LEMMA NextMoves ==
    ASSUME TypeOK, GoodWalks, [Next]_vars, NEW r \in Runs
    PROVE  Moves(row[r], row'[r])
<1>1. CASE UNCHANGED row
    BY <1>1 DEF Moves
<1>2. ASSUME NEW q \in Runs, Start(q)
      PROVE  Moves(row[r], row'[r])
    BY <1>2 DEF Start, TypeOK, Moves
<1>3. ASSUME NEW w \in Walks, WalkStep(w) \/ IntervalFlush(w) \/ Panic(w)
      PROVE  Moves(row[r], row'[r])
    <2>1. CASE FirstFlush(w) \/ IntervalFlush(w) \/ FinalFlush(w)
        <3>1. walk[w].pc # "idle" /\ Flush(w)
            BY <2>1 DEF FirstFlush, IntervalFlush, FinalFlush
        <3>. QED
            BY <3>1, FlushMoves
    <2>2. CASE WriteEnd(w)
        BY <2>2, WriteEndMoves
    <2>3. CASE WriteFailed(w)
        <3>1. row[RunOf(w)].status # "absent"
            BY <2>3 DEF WriteFailed, GoodWalks, GoodWalk
        <3>. QED
            BY <2>3, <3>1, WalksFacts DEF WriteFailed, TypeOK, Moves
    <2>4. CASE UNCHANGED row
        BY <2>4, <1>1
    <2>. QED
        BY <1>3, <2>1, <2>2, <2>3, <2>4 DEF WalkStep, Open, ReadRow, Discover,
           HaltEntry, Drain, DropCell, Panic
<1>4. ASSUME NEW c \in Callers, CallStep(c)
      PROVE  Moves(row[r], row'[r])
    BY <1>4, CallStepMoves
<1>5. CASE Restart
    BY <1>5 DEF Restart, Moves
<1>. QED
    BY <1>1, <1>2, <1>3, <1>4, <1>5 DEF Next, Lookup, vars

(* Hence every step keeps the rows sound, and no closed run is reopened.   *)
LEMMA NextKeepsRows ==
    ASSUME TypeOK, GoodRows, GoodWalks, [Next]_vars, NEW r \in Runs
    PROVE  /\ GoodRow(row'[r])
           /\ row[r].segment \in Int
           /\ row'[r].segment >= row[r].segment
           /\ row[r].status # "absent" => row'[r].status # "absent"
           /\ row[r].status \in Closed =>
                 row'[r].status \in Closed /\ row'[r].segment = row[r].segment
<1>1. Moves(row[r], row'[r])
    BY NextMoves
<1>2. row[r] \in RowType /\ GoodRow(row[r])
    BY DEF TypeOK, GoodRows
<1>. QED
    BY <1>1, <1>2, MovesKeepRow, GensFacts DEF RowType

-----------------------------------------------------------------------------
(* Every step keeps the walks good. *)

(* A walk that is left alone stays good, wherever its row moves. *)
LEMMA OtherWalks ==
    ASSUME TypeOK, TypeOK', GoodRows, GoodWalks, [Next]_vars,
           NEW w \in Walks, walk'[w] = walk[w]
    PROVE  GoodWalk(w)'
<1>1. GoodWalk(w) /\ RunOf(w) \in Runs /\ w[2] \in Int
    BY WalksFacts, GensFacts DEF GoodWalks
<1>2. /\ row[RunOf(w)].segment \in Int
      /\ row'[RunOf(w)].segment \in Int
      /\ row'[RunOf(w)].segment >= row[RunOf(w)].segment
      /\ row[RunOf(w)].status # "absent" => row'[RunOf(w)].status # "absent"
    BY <1>1, NextKeepsRows, GensFacts DEF TypeOK, RowType
<1>3. walk[w].known # Waived => walk[w].known \in Int
    BY GensFacts DEF TypeOK, WalkType
<1>. QED
    BY <1>1, <1>2, <1>3 DEF GoodWalk

(* A task that has ended has nothing left to be wrong about. *)
LEMMA EndedWalk ==
    ASSUME TypeOK, TypeOK', GoodRows, GoodWalks, [Next]_vars,
           NEW w \in Walks, walk[w].pc # "idle", walk'[w] = DoneWalk
    PROVE  GoodWalk(w)'
<1>1. GoodWalk(w) /\ RunOf(w) \in Runs /\ w[2] \in Int
    BY WalksFacts, GensFacts DEF GoodWalks
<1>2. /\ row[RunOf(w)].segment \in Int
      /\ row'[RunOf(w)].segment \in Int
      /\ row'[RunOf(w)].segment >= row[RunOf(w)].segment
      /\ row[RunOf(w)].status # "absent" => row'[RunOf(w)].status # "absent"
    BY <1>1, NextKeepsRows, GensFacts DEF TypeOK, RowType
<1>. QED
    BY <1>1, <1>2 DEF GoodWalk, DoneWalk, IdleWalk

(* A step of a walk keeps what the walks know of their rows.               *)
LEMMA WalkStepKeepsWalks ==
    ASSUME TypeOK, TypeOK', GoodRows, GoodWalks, [Next]_vars, NEW w \in Walks,
           WalkStep(w) \/ IntervalFlush(w) \/ Panic(w)
    PROVE  GoodWalks'
<1>. SUFFICES ASSUME NEW v \in Walks PROVE GoodWalk(v)'
    BY DEF GoodWalks
<1>1. CASE v # w
    <2>1. walk'[v] = walk[v]
        BY <1>1 DEF TypeOK, WalkStep, Open, ReadRow, Discover, FirstFlush,
           IntervalFlush, HaltEntry, Drain, FinalFlush, DropCell, WriteEnd,
           WriteFailed, Panic, SetWalk, EndWalk
    <2>. QED
        BY <2>1, OtherWalks
<1>2. CASE v = w /\ EndWalk(w)
    <2>1. walk[w].pc # "idle" /\ walk'[w] = DoneWalk
        BY <1>2 DEF TypeOK, EndWalk, WalkStep, Open, ReadRow, Discover,
           FirstFlush, IntervalFlush, HaltEntry, Drain, FinalFlush, DropCell,
           WriteEnd, WriteFailed, Panic, HoldsCell, Exits
    <2>. QED
        BY <1>2, <2>1, EndedWalk
<1>3. ASSUME ~EndWalk(w)
      PROVE  GoodWalk(w)'
    <2>. USE WalksFacts
    <2>1. /\ GoodWalk(w) /\ RunOf(w) \in Runs /\ w[2] \in Int
          /\ walk[w] \in WalkType
        BY GensFacts DEF GoodWalks, TypeOK
    <2>2. /\ row[RunOf(w)].segment \in Int
          /\ row'[RunOf(w)].segment \in Int
          /\ row'[RunOf(w)].segment >= row[RunOf(w)].segment
          /\ row[RunOf(w)].status # "absent" => row'[RunOf(w)].status # "absent"
        BY <2>1, NextKeepsRows, GensFacts DEF TypeOK, RowType
    <2>3. walk[w].known # Waived => walk[w].known \in Int
        BY <2>1, GensFacts DEF WalkType
    <2>4. ASSUME NEW pc, SetWalk(w, pc), walk[w].pc # "idle",
                 pc \in {"opened", "listing", "starting", "working", "failing"}
                 \/ walk[w].pc \in {"flushing", "closing"}
          PROVE  GoodWalk(w)'
        BY <2>1, <2>2, <2>3, <2>4 DEF SetWalk, TypeOK, GoodWalk
    <2>5. CASE Open(w)
        BY <2>4, <2>5 DEF Open
    <2>6. CASE ReadRow(w)
        <3>1. CASE SetWalk(w, "listing")
            BY <2>4, <2>6, <3>1 DEF ReadRow
        <3>2. CASE walk' = [walk EXCEPT ![w].pc = "listing",
                                        ![w].known = row[RunOf(w)].segment]
            BY <2>1, <2>2, <2>6, <3>2 DEF ReadRow, TypeOK, GoodWalk
        <3>. QED
            BY <1>3, <2>6, <3>1, <3>2 DEF ReadRow
    <2>7. CASE Discover(w)
        <3>1. CASE SetWalk(w, "failing")
            BY <2>4, <2>7, <3>1 DEF Discover
        <3>2. CASE walk[w].signal # NoSignal /\
                   walk' = [walk EXCEPT ![w].pc = "flushing", ![w].halted = TRUE,
                                        ![w].stop = walk[w].signal]
            BY <2>1, <2>2, <2>3, <2>7, <3>2 DEF Discover, TypeOK, GoodWalk, WalkType
        <3>3. CASE walk' = [walk EXCEPT ![w].pc = "starting",
                                        ![w].phase = "processing"]
            BY <2>1, <2>2, <2>3, <2>7, <3>3 DEF Discover, TypeOK, GoodWalk, WalkType
        <3>. QED
            BY <2>7, <3>1, <3>2, <3>3 DEF Discover
    <2>8. CASE FirstFlush(w)
        BY <2>4, <2>8 DEF FirstFlush
    <2>9. CASE IntervalFlush(w)
        BY <1>3, <2>9, OtherWalks DEF IntervalFlush
    <2>10. CASE HaltEntry(w)
        BY <2>1, <2>2, <2>3, <2>10 DEF HaltEntry, TypeOK, GoodWalk, WalkType
    <2>11. CASE Drain(w)
        BY <2>1, <2>2, <2>3, <2>11 DEF Drain, TypeOK, GoodWalk, WalkType
    <2>12. CASE FinalFlush(w)
        BY <2>4, <2>12 DEF FinalFlush
    <2>13. CASE DropCell(w)
        BY <2>4, <2>13 DEF DropCell
    <2>. QED
        BY <1>3, <2>5, <2>6, <2>7, <2>8, <2>9, <2>10, <2>11, <2>12, <2>13
        DEF WalkStep, WriteEnd, WriteFailed, Panic
<1>. QED
    BY <1>1, <1>2, <1>3

(* A walk is only ever spawned for the segment its row has just moved to,  *)
(* so the task it names has not run before.                                *)
LEMMA SpawnKeepsWalks ==
    ASSUME TypeOK, TypeOK', GoodRows, GoodWalks, [Next]_vars, NEW r \in Runs,
           NEW g \in Gens, row'[r].status = "running", row'[r].segment = g,
           SpawnOrGone(r, g)
    PROVE  GoodWalks'
<1>. SUFFICES ASSUME NEW v \in Walks PROVE GoodWalk(v)'
    BY DEF GoodWalks
<1>. DEFINE w == <<r, g>>
<1>0. w \in Walks /\ RunOf(w) = r /\ w[2] = g /\ g \in Int
    BY WalksFacts, GensFacts
<1>1. CASE walk'[v] = walk[v]
    BY <1>1, OtherWalks
<1>2. CASE walk'[v] # walk[v]
    <2>1. v = w /\ walk' = [walk EXCEPT ![w].pc = "spawned"]
        BY <1>0, <1>2 DEF SpawnOrGone, Spawn, TypeOK
    <2>2. /\ GoodWalk(w)
          /\ row[r].segment \in Int
          /\ row'[r].segment >= row[r].segment
          /\ walk[w].known # Waived => walk[w].known \in Int
        BY <1>0, NextKeepsRows, GensFacts DEF GoodWalks, TypeOK, WalkType
    <2>3. GoodWalk(w)'
        BY <1>0, <2>1, <2>2 DEF GoodWalk, TypeOK
    <2>. QED
        BY <2>1, <2>3
<1>. QED
    BY <1>1, <1>2

(* So does a call that finds the cell of a walk and raises its signal.     *)
LEMMA RaiseKeepsWalks ==
    ASSUME TypeOK, TypeOK', GoodRows, GoodWalks, [Next]_vars,
           NEW c \in Callers, CheckRegistry(c)
    PROVE  GoodWalks'
<1>. SUFFICES ASSUME NEW v \in Walks PROVE GoodWalk(v)'
    BY DEF GoodWalks
<1>1. CASE walk'[v] = walk[v]
    BY <1>1, OtherWalks
<1>2. CASE walk'[v] # walk[v]
    <2>1. walk'[v] = [walk[v] EXCEPT !.signal = Raise(@, SignalOf(call[c].verb))]
        <3>. DEFINE w == <<call[c].run, cell[call[c].run]>>
        <3>1. walk' = [walk EXCEPT ![w].signal =
                          Raise(walk[w].signal, SignalOf(call[c].verb))]
            BY <1>2 DEF CheckRegistry
        <3>2. v = w
            BY <1>2, <3>1 DEF TypeOK
        <3>. QED
            BY <3>1, <3>2 DEF TypeOK
    <2>2. /\ GoodWalk(v) /\ RunOf(v) \in Runs
          /\ row' = row
          /\ walk[v] \in WalkType
        BY WalksFacts DEF GoodWalks, CheckRegistry, TypeOK
    <2>3. walk[v].signal # NoSignal => Raise(walk[v].signal, SignalOf(call[c].verb)) # NoSignal
        BY <2>2 DEF Raise, SignalOf, NoSignal, PauseSignal, CancelSignal,
           Signals, WalkType
    <2>. QED
        BY <2>1, <2>2, <2>3 DEF GoodWalk, WalkType
<1>. QED
    BY <1>1, <1>2

(* So does every step.                                                     *)
LEMMA NextKeepsWalks ==
    ASSUME TypeOK, TypeOK', GoodRows, GoodWalks, [Next]_vars
    PROVE  GoodWalks'
<1>1. CASE UNCHANGED walk
    BY <1>1, OtherWalks DEF GoodWalks
<1>2. ASSUME NEW r \in Runs, Start(r)
      PROVE  GoodWalks'
    <2>1. row'[r].status = "running" /\ row'[r].segment = 0
        BY <1>2 DEF Start, Started, GoodRows, GoodRow, NewRow, TypeOK, RowType
    <2>2. SpawnOrGone(r, 0) /\ 0 \in Gens
        BY <1>2, GensFacts DEF Start
    <2>. QED
        BY <2>1, <2>2, SpawnKeepsWalks
<1>3. ASSUME NEW w \in Walks, WalkStep(w) \/ IntervalFlush(w) \/ Panic(w)
      PROVE  GoodWalks'
    BY <1>3, WalkStepKeepsWalks
<1>4. ASSUME NEW c \in Callers, CallStep(c)
      PROVE  GoodWalks'
    <2>1. CASE CheckRegistry(c)
        BY <2>1, RaiseKeepsWalks
    <2>2. CASE WriteResume(c) /\ ~UNCHANGED walk
        <3>. DEFINE r == call[c].run
        <3>1. r \in Runs
            BY DEF TypeOK, CallType
        <3>2. /\ row' = [row EXCEPT ![r] = ResumedRow(@)]
              /\ SpawnOrGone(r, row[r].segment + 1)
            BY <2>2 DEF WriteResume
        <3>3. row'[r].status = "running" /\ row'[r].segment = row[r].segment + 1
            BY <3>1, <3>2 DEF TypeOK, RowType, ResumedRow
        <3>4. row[r].segment + 1 \in Gens
            BY <3>1, <3>3 DEF TypeOK, RowType
        <3>. QED
            BY <3>1, <3>2, <3>3, <3>4, SpawnKeepsWalks
    <2>. QED
        BY <1>1, <1>4, <2>1, <2>2 DEF CallStep, WriteStop, Overlay
<1>5. CASE Restart
    <2>. SUFFICES ASSUME NEW v \in Walks PROVE GoodWalk(v)'
        BY DEF GoodWalks
    <2>1. walk'[v] = walk[v] \/ (walk[v].pc # "idle" /\ walk'[v] = DoneWalk)
        BY <1>5 DEF Restart
    <2>. QED
        BY <2>1, OtherWalks, EndedWalk
<1>. QED
    BY <1>1, <1>2, <1>3, <1>4, <1>5 DEF Next, Lookup, vars

-----------------------------------------------------------------------------
(* The registry. *)

(* A step of a walk leaves every cell with a walk that holds its guard.    *)
LEMMA WalkStepKeepsRegistry ==
    ASSUME TypeOK, RegistryOwned, NEW w \in Walks,
           WalkStep(w) \/ IntervalFlush(w) \/ Panic(w)
    PROVE  RegistryOwned'
<1>. SUFFICES ASSUME NEW r \in Runs, cell'[r] # NoCell
              PROVE  walk'[<<r, cell'[r]>>].pc \in HoldsCell
    BY DEF RegistryOwned
<1>. USE WalksFacts
<1>0. RunOf(w) \in Runs /\ w[2] \in Gens /\ w = <<RunOf(w), w[2]>>
    OBVIOUS
<1>1. CASE Open(w)
    <2>1. CASE r = RunOf(w)
        BY <1>0, <1>1, <2>1 DEF Open, SetWalk, HoldsCell, TypeOK
    <2>2. CASE r # RunOf(w)
        BY <1>0, <1>1, <2>2 DEF Open, SetWalk, TypeOK, RegistryOwned
    <2>. QED
        BY <2>1, <2>2
<1>2. CASE cell' = cell /\ walk'[w].pc \in HoldsCell
    BY <1>2 DEF RegistryOwned, TypeOK, WalkStep, ReadRow, Discover, FirstFlush,
       IntervalFlush, HaltEntry, Drain, FinalFlush, DropCell, WriteEnd,
       WriteFailed, Panic, Open, SetWalk, EndWalk
<1>3. CASE /\ cell' = Close(w)
           /\ walk' = [walk EXCEPT ![w] = walk'[w]]
    <2>1. cell'[r] = cell[r] /\ <<r, cell[r]>> # w
        BY <1>0, <1>3 DEF Close, TypeOK
    <2>2. walk'[<<r, cell[r]>>] = walk[<<r, cell[r]>>]
        BY <1>3, <2>1 DEF TypeOK
    <2>. QED
        BY <2>1, <2>2 DEF RegistryOwned
<1>4. CASE /\ walk[w].pc \in Exits /\ cell' = cell
           /\ walk' = [walk EXCEPT ![w] = walk'[w]]
    <2>1. cell[r] # NoCell => <<r, cell[r]>> # w
        BY <1>4 DEF RegistryOwned, Exits, HoldsCell
    <2>2. walk'[<<r, cell[r]>>] = walk[<<r, cell[r]>>]
        BY <1>4, <2>1 DEF TypeOK
    <2>. QED
        BY <1>4, <2>2 DEF RegistryOwned
<1>5. SetWalk(w, "failing") \/ SetWalk(w, "writing") \/ EndWalk(w) =>
          walk' = [walk EXCEPT ![w] = walk'[w]]
    BY DEF SetWalk, EndWalk, TypeOK
<1>6. walk[w] \in WalkType
    BY DEF TypeOK
<1>7. CASE ReadRow(w)
    BY <1>2, <1>3, <1>5, <1>6, <1>7 DEF ReadRow, SetWalk, HoldsCell, TypeOK, WalkType
<1>8. CASE Discover(w)
    BY <1>2, <1>3, <1>5, <1>6, <1>8 DEF Discover, HoldsCell, TypeOK, WalkType
<1>9. CASE FirstFlush(w) \/ FinalFlush(w)
    BY <1>2, <1>6, <1>9 DEF FirstFlush, FinalFlush, SetWalk, HoldsCell, TypeOK, WalkType
<1>10. CASE IntervalFlush(w)
    BY <1>2, <1>10 DEF IntervalFlush, HoldsCell
<1>11. CASE HaltEntry(w) \/ Drain(w)
    BY <1>2, <1>6, <1>11 DEF HaltEntry, Drain, HoldsCell, TypeOK, WalkType
<1>12. CASE DropCell(w)
    BY <1>3, <1>5, <1>12 DEF DropCell
<1>13. CASE WriteEnd(w) \/ WriteFailed(w)
    BY <1>4, <1>5, <1>13 DEF WriteEnd, WriteFailed, Exits
<1>14. CASE Panic(w)
    BY <1>3, <1>4, <1>5, <1>14 DEF Panic
<1>. QED
    BY <1>1, <1>7, <1>8, <1>9, <1>10, <1>11, <1>12, <1>13, <1>14 DEF WalkStep

(* So does a walk that registers its cell.                                 *)
LEMMA SpawnKeepsRegistry ==
    ASSUME TypeOK, GoodWalks, RegistryOwned, NEW r \in Runs, NEW g \in Gens,
           SpawnOrGone(r, g), UNCHANGED cell,
           row[r].status = "absent" \/ row[r].segment < g
    PROVE  RegistryOwned'
<1>1. <<r, g>> \in Walks /\ walk[<<r, g>>].pc = "idle"
    <2>1. row[r].segment \in Int /\ g \in Int
        BY GensFacts DEF TypeOK, RowType
    <2>. QED
        BY <2>1, WalksFacts DEF GoodWalks, GoodWalk
<1>2. cell[r] # g
    <2>1. g # NoCell
        BY GensFacts
    <2>. QED
        BY <1>1, <2>1 DEF RegistryOwned, HoldsCell
<1>3. ASSUME NEW q \in Runs, cell[q] # NoCell
      PROVE  walk'[<<q, cell[q]>>].pc \in HoldsCell
    <2>1. <<q, cell[q]>> # <<r, g>> /\ <<q, cell[q]>> \in Walks
        BY <1>2, <1>3, WalksFacts DEF TypeOK
    <2>2. walk'[<<q, cell[q]>>] = walk[<<q, cell[q]>>]
        BY <1>1, <2>1 DEF SpawnOrGone, Spawn, TypeOK
    <2>. QED
        BY <1>3, <2>2 DEF RegistryOwned
<1>. QED
    BY <1>3 DEF RegistryOwned

(* So does every step.                                                     *)
LEMMA NextKeepsRegistry ==
    ASSUME TypeOK, GoodWalks, RegistryOwned, [Next]_vars
    PROVE  RegistryOwned'
<1>1. CASE UNCHANGED <<cell, walk>>
    BY <1>1 DEF RegistryOwned
<1>2. ASSUME NEW r \in Runs, Start(r)
      PROVE  RegistryOwned'
    BY <1>2, SpawnKeepsRegistry, GensFacts DEF Start
<1>3. ASSUME NEW w \in Walks, WalkStep(w) \/ IntervalFlush(w) \/ Panic(w)
      PROVE  RegistryOwned'
    BY <1>3, WalkStepKeepsRegistry
<1>4. ASSUME NEW c \in Callers, CallStep(c)
      PROVE  RegistryOwned'
    <2>1. CASE CheckRegistry(c) /\ ~UNCHANGED walk
        <3>. SUFFICES ASSUME NEW q \in Runs, cell[q] # NoCell
                      PROVE  walk'[<<q, cell[q]>>].pc \in HoldsCell
            BY <2>1 DEF RegistryOwned, CheckRegistry
        <3>1. \E w, signal :
                  walk' = [walk EXCEPT ![w].signal = signal]
            BY <2>1, Zenon DEF CheckRegistry
        <3>2. PICK w, signal :
                  walk' = [walk EXCEPT ![w].signal = signal]
            BY <3>1
        <3>3. \A v \in Walks : walk'[v].pc = walk[v].pc
            BY <3>2 DEF TypeOK, WalkType
        <3>. QED
            BY <3>3, WalksFacts DEF RegistryOwned, TypeOK
    <2>2. CASE WriteResume(c) /\ ~UNCHANGED walk
        <3>. DEFINE r == call[c].run
        <3>1. r \in Runs /\ row[r].segment \in Gens /\ row[r].segment \in Int
            BY GensFacts DEF TypeOK, CallType, RowType
        <3>2. /\ row[r].segment < MaxSegment
              /\ SpawnOrGone(r, row[r].segment + 1)
              /\ UNCHANGED cell
            BY <2>2 DEF WriteResume
        <3>3. row[r].segment + 1 \in Gens /\ row[r].segment < row[r].segment + 1
            BY <3>1, <3>2, GensFacts
        <3>. QED
            BY <3>1, <3>2, <3>3, SpawnKeepsRegistry
    <2>3. UNCHANGED cell
        BY <1>4 DEF CallStep, CheckRegistry, WriteStop, WriteResume, Overlay
    <2>. QED
        BY <1>1, <1>4, <2>1, <2>2, <2>3 DEF CallStep, WriteStop, Overlay
<1>5. CASE Restart
    BY <1>5 DEF Restart, RegistryOwned
<1>. QED
    BY <1>1, <1>2, <1>3, <1>4, <1>5 DEF Next, Lookup, vars

-----------------------------------------------------------------------------
(* Who owes a running row its closing write. *)

Sound == Faults \cap Strands = {}

RowOwed(r) ==
    row[r].status = "running" =>
        walk[<<r, row[r].segment>>].pc \notin {"idle", "done"}

(* That running rows are owed, said of each row.                           *)
LEMMA OwedByRow ==
    ASSUME TypeOK
    PROVE  RunningIsOwed <=> (Sound => \A r \in Runs : RowOwed(r))
BY DEF TypeOK, RowType, RunningIsOwed, Sound, RowOwed, Owed

(* A walk that knows the segment it is walking, or none, leaves no running *)
(* row behind: finish is unconditional and its own halt is not refused.    *)
LEMMA OwnConclusion ==
    ASSUME TypeOK, GoodWalks, NEW w \in Walks, WriteEnd(w), Sound,
           row[RunOf(w)].segment = w[2]
    PROVE  row'[RunOf(w)].status # "running"
<1>1. row' = [row EXCEPT ![RunOf(w)] = Conclude(w)]
    BY DEF WriteEnd, Sound, Strands
<1>2. SegmentGuard(row[RunOf(w)], walk[w].known)
    <2>1. walk[w].known # Waived =>
              walk[w].known \in Int /\ w[2] <= walk[w].known /\ walk[w].known <= w[2]
        BY GensFacts DEF GoodWalks, GoodWalk, TypeOK, WalkType
    <2>2. w[2] \in Int
        BY WalksFacts, GensFacts
    <2>. QED
        BY <2>1, <2>2 DEF SegmentGuard
<1>3. /\ RunOf(w) \in Runs /\ row[RunOf(w)] \in RowType
      /\ NoSignal # PauseSignal
    BY WalksFacts DEF TypeOK, NoSignal, PauseSignal
<1>4. Conclude(w).status # "running"
    <2>1. CASE walk[w].stop = NoSignal
        BY <1>3, <2>1 DEF Conclude, Finished, RowType
    <2>2. CASE walk[w].stop = PauseSignal
        BY <1>2, <1>3, <2>2 DEF Conclude, PauseApplies, PausedRow, RowType
    <2>3. CASE walk[w].stop # NoSignal /\ walk[w].stop # PauseSignal
        BY <1>2, <1>3, <2>3 DEF Conclude, CancelApplies, CancellableFrom,
           CancelledRow, RowType
    <2>. QED
        BY <2>1, <2>2, <2>3
<1>. QED
    BY <1>1, <1>3, <1>4 DEF TypeOK

(* No walk makes a row running or moves it to another segment. *)
LEMMA WalkStepRows ==
    ASSUME TypeOK, NEW w \in Walks,
           WalkStep(w) \/ IntervalFlush(w) \/ Panic(w),
           NEW r \in Runs, row'[r].status = "running"
    PROVE  row[r].status = "running" /\ row'[r].segment = row[r].segment
<1>1. row[RunOf(w)] \in RowType /\ RunOf(w) \in Runs
    BY WalksFacts DEF TypeOK
<1>2. CASE FirstFlush(w) \/ IntervalFlush(w) \/ FinalFlush(w)
    BY <1>1, <1>2 DEF FirstFlush, IntervalFlush, FinalFlush, Flush,
       WithProgress, TypeOK, RowType
<1>3. CASE WriteEnd(w)
    <2>1. \/ Conclude(w).status # "running"
          \/ Conclude(w) = row[RunOf(w)]
        BY <1>1 DEF Conclude, Finished, PausedRow, CancelledRow, RowType
    <2>. QED
        BY <1>1, <1>3, <2>1 DEF WriteEnd, TypeOK
<1>4. CASE WriteFailed(w)
    BY <1>1, <1>4 DEF WriteFailed, FailedRow, TypeOK, RowType
<1>5. CASE UNCHANGED row
    BY <1>5
<1>. QED
    BY <1>2, <1>3, <1>4, <1>5 DEF WalkStep, Open, ReadRow, Discover,
       HaltEntry, Drain, DropCell, Panic

(* A step of a walk leaves every running row to a walk.                    *)
LEMMA WalkStepOwes ==
    ASSUME TypeOK, GoodWalks, NEW w \in Walks, Sound,
           WalkStep(w) \/ IntervalFlush(w) \/ Panic(w),
           NEW r \in Runs, RowOwed(r)
    PROVE  RowOwed(r)'
<1>. DEFINE v == <<r, row[r].segment>>
<1>. SUFFICES ASSUME row'[r].status = "running"
              PROVE  walk'[<<r, row'[r].segment>>].pc \notin {"idle", "done"}
    BY DEF RowOwed
<1>1. /\ row[r].status = "running"
      /\ row'[r].segment = row[r].segment
    BY WalkStepRows
<1>2. /\ v \in Walks /\ RunOf(v) = r /\ v[2] = row[r].segment
      /\ walk[v].pc \notin {"idle", "done"}
    BY <1>1, WalksFacts DEF TypeOK, RowType, RowOwed
<1>3. CASE v # w
    <2>1. walk'[v] = walk[v]
        BY <1>2, <1>3 DEF TypeOK, WalkStep, Open, ReadRow, Discover, FirstFlush,
           IntervalFlush, HaltEntry, Drain, FinalFlush, DropCell, WriteEnd,
           WriteFailed, Panic, SetWalk, EndWalk
    <2>. QED
        BY <1>1, <1>2, <2>1
<1>4. CASE v = w
    <2>1. ~WriteEnd(w)
        BY <1>1, <1>2, <1>4, OwnConclusion
    <2>2. ~WriteFailed(w)
        <3>1. row[r] \in RowType => FailedRow(row[r]).status # "running"
            BY DEF FailedRow, RowType
        <3>2. WriteFailed(w) => row' = [row EXCEPT ![r] = FailedRow(row[r])]
            BY <1>2, <1>4 DEF WriteFailed, Sound, Strands
        <3>. QED
            BY <3>1, <3>2 DEF TypeOK
    <2>3. ~Panic(w)
        BY DEF Panic, Sound, Strands
    <2>4. walk'[w].pc \notin {"idle", "done"}
        BY <1>1, <1>2, <1>4, <2>1, <2>2, <2>3 DEF TypeOK, WalkType, WalkStep,
           Open, ReadRow, Discover, FirstFlush, IntervalFlush, HaltEntry, Drain,
           FinalFlush, DropCell, SetWalk
    <2>. QED
        BY <1>1, <1>4, <2>4
<1>. QED
    BY <1>3, <1>4

(* So does every step of a call.                                           *)
LEMMA CallStepOwes ==
    ASSUME TypeOK, NEW c \in Callers, Sound, CallStep(c),
           NEW r \in Runs, RowOwed(r)
    PROVE  RowOwed(r)'
<1>. SUFFICES ASSUME row'[r].status = "running"
              PROVE  walk'[<<r, row'[r].segment>>].pc \notin {"idle", "done"}
    BY DEF RowOwed
<1>0. call[c].run \in Runs /\ row[r] \in RowType
    BY DEF TypeOK, CallType
<1>1. CASE WriteResume(c) /\ call[c].run = r /\ ~UNCHANGED row
    <2>1. /\ row[r].segment < MaxSegment
          /\ row' = [row EXCEPT ![r] = ResumedRow(@)]
          /\ Spawn(r, row[r].segment + 1)
        BY <1>1 DEF WriteResume, SpawnOrGone, Sound, Strands
    <2>2. row'[r].segment = row[r].segment + 1 /\ row[r].segment + 1 \in Gens
        BY <1>0, <2>1, GensFacts DEF ResumedRow, TypeOK, RowType
    <2>. QED
        BY <2>1, <2>2, WalksFacts DEF Spawn, TypeOK, WalkType
<1>2. CASE ~(WriteResume(c) /\ call[c].run = r /\ ~UNCHANGED row)
    <2>1. row'[r] = row[r]
        <3>1. CASE WriteStop(c)
            <4>1. /\ PausedRow(row[r]).status # "running"
                  /\ CancelledRow(row[r], "none").status # "running"
                BY <1>0 DEF PausedRow, CancelledRow, RowType
            <4>2. \/ UNCHANGED row
                  \/ row' = [row EXCEPT ![call[c].run] = PausedRow(@)]
                  \/ row' = [row EXCEPT ![call[c].run] = CancelledRow(@, "none")]
                BY <3>1 DEF WriteStop
            <4>. QED
                BY <1>0, <4>1, <4>2 DEF TypeOK
        <3>2. CASE WriteResume(c)
            BY <1>0, <1>2, <3>2 DEF WriteResume, TypeOK
        <3>. QED
            BY <3>1, <3>2 DEF CallStep, CheckRegistry, Overlay
    <2>2. \A v \in Walks : walk[v].pc \notin {"idle", "done"} =>
                           walk'[v].pc \notin {"idle", "done"}
        <3>1. CASE CheckRegistry(c)
            <4>1. ASSUME NEW w, NEW x, walk' = [walk EXCEPT ![w].signal = x],
                         NEW v \in Walks
                  PROVE  walk'[v].pc = walk[v].pc
                BY <4>1 DEF TypeOK, WalkType
            <4>. QED
                BY <3>1, <4>1 DEF CheckRegistry
        <3>2. CASE WriteResume(c)
            <4>1. ASSUME NEW w, walk' = [walk EXCEPT ![w].pc = "spawned"],
                         NEW v \in Walks
                  PROVE  walk'[v].pc \in {walk[v].pc, "spawned"}
                BY <4>1 DEF TypeOK, WalkType
            <4>. QED
                BY <3>2, <4>1 DEF WriteResume, SpawnOrGone, Spawn
        <3>. QED
            BY <3>1, <3>2 DEF CallStep, WriteStop, Overlay
    <2>. QED
        BY <1>0, <2>1, <2>2, WalksFacts DEF RowOwed, RowType
<1>. QED
    BY <1>1, <1>2

(* So does a start.                                                        *)
LEMMA StartOwes ==
    ASSUME TypeOK, GoodRows, Sound, NEW q \in Runs, Start(q),
           NEW r \in Runs, RowOwed(r)
    PROVE  RowOwed(r)'
<1>1. Spawn(q, 0) /\ <<q, 0>> \in Walks
    BY WalksFacts, GensFacts DEF Start, SpawnOrGone, Sound, Strands
<1>2. CASE q = r
    <2>1. row'[r].segment = 0
        BY <1>2 DEF Start, Started, GoodRows, GoodRow, NewRow, TypeOK, RowType
    <2>. QED
        BY <1>1, <1>2, <2>1 DEF Spawn, TypeOK, WalkType, RowOwed
<1>3. CASE q # r
    <2>1. row'[r] = row[r] /\ <<r, row[r].segment>> \in Walks
        BY <1>3, WalksFacts DEF Start, TypeOK, RowType
    <2>2. walk'[<<r, row[r].segment>>] = walk[<<r, row[r].segment>>]
        BY <1>1, <1>3, <2>1 DEF Spawn, TypeOK
    <2>. QED
        BY <2>1, <2>2 DEF RowOwed
<1>. QED
    BY <1>2, <1>3

(* So does every step.                                                     *)
LEMMA NextOwes ==
    ASSUME TypeOK, GoodRows, GoodWalks, [Next]_vars, Sound,
           NEW r \in Runs, RowOwed(r)
    PROVE  RowOwed(r)'
<1>1. CASE UNCHANGED <<row, walk>>
    BY <1>1 DEF RowOwed
<1>2. ASSUME NEW q \in Runs, Start(q)
      PROVE  RowOwed(r)'
    BY <1>2, StartOwes
<1>3. ASSUME NEW w \in Walks, WalkStep(w) \/ IntervalFlush(w) \/ Panic(w)
      PROVE  RowOwed(r)'
    BY <1>3, WalkStepOwes
<1>4. ASSUME NEW c \in Callers, CallStep(c)
      PROVE  RowOwed(r)'
    BY <1>4, CallStepOwes
<1>5. CASE Restart
    <2>1. row'[r] = Reconciled(row[r]) /\ row[r] \in RowType
        BY <1>5 DEF Restart, Sound, Strands, TypeOK
    <2>. QED
        BY <2>1 DEF Reconciled, RowType, RowOwed
<1>. QED
    BY <1>1, <1>2, <1>3, <1>4, <1>5 DEF Next, Lookup, vars

-----------------------------------------------------------------------------
(* The theorems. *)

(* The inductive invariant holds at first.                                 *)
LEMMA InitIInv == Init => IInv
<1>. SUFFICES ASSUME Init PROVE IInv
    OBVIOUS
<1>1. TypeOK
    BY InitType
<1>2. GoodRows
    BY DEF Init, GoodRows, GoodRow, NewRow, Closed, Live
<1>3. GoodWalks
    BY DEF Init, GoodWalks, GoodWalk, IdleWalk
<1>4. RegistryOwned
    BY DEF Init, RegistryOwned
<1>5. RunningIsOwed
    BY DEF Init, RunningIsOwed, NewRow
<1>. QED
    BY <1>1, <1>2, <1>3, <1>4, <1>5 DEF IInv

(* Every step keeps it.                                                    *)
LEMMA NextIInv == IInv /\ [Next]_vars => IInv'
<1>. SUFFICES ASSUME IInv, [Next]_vars PROVE IInv'
    OBVIOUS
<1>. USE DEF IInv
<1>1. TypeOK'
    BY NextType
<1>2. GoodRows'
    BY NextKeepsRows DEF GoodRows
<1>3. GoodWalks'
    BY <1>1, NextKeepsWalks
<1>4. RegistryOwned'
    BY NextKeepsRegistry
<1>5. RunningIsOwed'
    <2>1. Sound => \A r \in Runs : RowOwed(r)
        BY OwedByRow
    <2>2. Sound => \A r \in Runs : RowOwed(r)'
        BY <2>1, NextOwes
    <2>3. ASSUME NEW r \in Runs, Sound, row'[r].status = "running"
          PROVE  row'[r].segment \in Owed'[r]
        BY <1>1, <2>2, <2>3 DEF TypeOK, RowType, RowOwed, Owed
    <2>. QED
        BY <2>3 DEF RunningIsOwed, Sound
<1>. QED
    BY <1>1, <1>2, <1>3, <1>4, <1>5

(* The inductive invariant holds, for every bound and every set of faults. *)
THEOREM Invariance == Spec => []IInv
BY InitIInv, NextIInv, PTL DEF Spec

(* No exit of a walk leaves its cell in the registry: whatever segments of *)
(* one run overlap, a registered cell is held by the guard of its walk.    *)
THEOREM RegistryTheorem == Spec => []RegistryOwned
BY Invariance, PTL DEF IInv

(* No order of control calls, closing writes and restarts makes a row      *)
(* contradict itself.                                                      *)
THEOREM RowShapeTheorem == Spec => []RowShape
<1>1. IInv => RowShape
    BY DEF IInv, GoodRows, GoodRow, RowShape
<1>. QED
    BY <1>1, Invariance, PTL

(* No stop that halted an entry is ever recorded as a completion.          *)
THEOREM CompleteTheorem == Spec => []CompleteIsWhole
<1>1. IInv => CompleteIsWhole
    BY DEF IInv, GoodRows, GoodRow, CompleteIsWhole
<1>. QED
    BY <1>1, Invariance, PTL

(* Without lost writes, tasks or requests, no running row is stranded.     *)
THEOREM OwedTheorem == Spec => []RunningIsOwed
BY Invariance, PTL DEF IInv

(* A closed run stays closed on its segment, under every fault.            *)
THEOREM ClosedTheorem == Spec => ClosedStaysClosed
<1>1. IInv /\ [Next]_vars =>
        [\A r \in Runs :
            row[r].status \in Closed
                => /\ row'[r].status \in Closed
                   /\ row'[r].segment = row[r].segment]_vars
    BY NextKeepsRows DEF IInv
<1>. QED
    BY <1>1, Invariance, PTL DEF Spec, ClosedStaysClosed

(* Only the walk a cell belongs to takes it out of the registry.           *)
LEMMA CloseIsOwn ==
    ASSUME NEW w \in Walks, NEW r \in Runs, cell' = Close(w), TypeOK,
           cell[r] # NoCell, cell'[r] = NoCell
    PROVE  <<r, cell[r]>> = w
<1>1. w = <<RunOf(w), w[2]>>
    BY WalksFacts
<1>2. r = RunOf(w) /\ cell[r] = w[2]
    BY DEF Close, TypeOK
<1>. QED
    BY <1>1, <1>2

(* A cell is taken out by a walk that has let its guard go, or by a        *)
(* restart.                                                                *)
LEMMA NextOwnerCloses ==
    ASSUME TypeOK, [Next]_vars, NEW r \in Runs, cell[r] # NoCell,
           cell'[r] = NoCell
    PROVE  walk'[<<r, cell[r]>>].pc \notin HoldsCell
<1>1. <<r, cell[r]>> \in Walks
    BY WalksFacts DEF TypeOK
<1>2. ASSUME NEW w \in Walks, WalkStep(w) \/ IntervalFlush(w) \/ Panic(w)
      PROVE  walk'[<<r, cell[r]>>].pc \notin HoldsCell
    <2>1. CASE Open(w)
        <3>1. w[2] \in Gens /\ RunOf(w) \in Runs
            BY WalksFacts
        <3>2. cell'[r] = cell[r] \/ cell'[r] = w[2]
            BY <2>1, <3>1 DEF Open, TypeOK
        <3>. QED
            BY <3>1, <3>2, GensFacts
    <2>2. CASE UNCHANGED cell
        BY <2>2
    <2>3. CASE cell' = Close(w) /\ ~UNCHANGED cell /\ ~Open(w)
        <3>1. <<r, cell[r]>> = w
            BY <2>3, CloseIsOwn
        <3>2. walk[w] \in WalkType
            BY DEF TypeOK
        <3>3. walk'[w].pc \in {"done", "failing", "writing"}
            <4>1. EndWalk(w) \/ SetWalk(w, "failing") \/ SetWalk(w, "writing")
                BY <1>2, <2>3 DEF WalkStep, ReadRow, Discover, FirstFlush,
                   IntervalFlush, HaltEntry, Drain, FinalFlush, DropCell,
                   WriteEnd, WriteFailed, Panic
            <4>. QED
                BY <3>2, <4>1 DEF SetWalk, EndWalk, DoneWalk, IdleWalk, TypeOK,
                   WalkType
        <3>. QED
            BY <3>1, <3>3 DEF HoldsCell
    <2>. QED
        BY <1>2, <2>1, <2>2, <2>3 DEF WalkStep, ReadRow, Discover, FirstFlush,
           IntervalFlush, HaltEntry, Drain, FinalFlush, DropCell, WriteEnd,
           WriteFailed, Panic
<1>3. CASE UNCHANGED cell
    BY <1>3
<1>4. CASE Restart
    BY <1>1, <1>4 DEF Restart, DoneWalk, IdleWalk, HoldsCell
<1>. QED
    BY <1>2, <1>3, <1>4 DEF Next, Start, Lookup, CallStep, CheckRegistry,
       WriteStop, WriteResume, Overlay, vars

(* A stale guard of an earlier segment never evicts the cell of the segment *)
(* that replaced it.                                                       *)
THEOREM OwnerClosesTheorem == Spec => OnlyOwnerCloses
<1>1. TypeOK /\ [Next]_vars =>
        [\A r \in Runs :
            cell[r] # NoCell /\ cell'[r] = NoCell
                => walk'[<<r, cell[r]>>].pc \notin HoldsCell]_vars
    BY NextOwnerCloses
<1>. QED
    BY <1>1, TypeCorrect, PTL DEF Spec, OnlyOwnerCloses

-----------------------------------------------------------------------------
(* What a status answers. *)

(* A run that was never resumed nor asked to cancel.                       *)
Plain(r) == row[r].segment = 0 /\ "cancel" \notin acked[r]

(* Once such a run is closed its walk is gone and its row has no phase.    *)
QuietWhenClosed(r) ==
    Plain(r) /\ row[r].status \in Closed =>
        row[r].phase = "none" /\ walk[<<r, 0>>].pc \in {"idle", "done"}

(* A status query that read it closed still sees it closed, with no phase. *)
Seen(c) ==
    LET r == call[c].run IN
    (/\ call[c].verb = "status" /\ call[c].pc \in {"overlay", "answered"}
     /\ call[c].status \in Closed /\ Plain(r))
        => row[r].status \in Closed /\ call[c].phase = "none"

ViewIInv == /\ IInv
            /\ \A r \in Runs : QuietWhenClosed(r)
            /\ \A c \in Callers : Seen(c)

(* A walk of a run on its first segment is the first one.                  *)
LEMMA FirstSegment ==
    ASSUME TypeOK, GoodWalks, NEW r \in Runs, row[r].segment = 0,
           NEW w \in Walks, RunOf(w) = r, walk[w].pc # "idle"
    PROVE  w = <<r, 0>>
<1>1. w[2] \in Gens /\ w[2] <= 0
    BY WalksFacts DEF GoodWalks, GoodWalk
<1>2. w[2] = 0
    BY <1>1, SegmentAssumption DEF Gens
<1>3. w = <<r, w[2]>>
    BY WalksFacts
<1>. QED
    BY <1>2, <1>3

(* A step leaves the segment of a run and forgets no stop of it, or        *)
(* resumes it and keeps the stops that are pending.                        *)
LEMMA AckedMoves ==
    ASSUME TypeOK, [Next]_vars, NEW r \in Runs
    PROVE  \/ row'[r].segment = row[r].segment /\ acked[r] \subseteq acked'[r]
           \/ /\ row'[r].segment = row[r].segment + 1
              /\ acked'[r] = Pending(r)
              /\ SpawnOrGone(r, row[r].segment + 1)
<1>0. /\ row[r] \in RowType
      /\ row[r].segment = row'[r].segment \/ row'[r] # row[r]
    BY DEF TypeOK
<1>1. ASSUME NEW q \in Runs, Start(q)
      PROVE  row'[r].segment = row[r].segment /\ acked[r] \subseteq acked'[r]
    BY <1>0, <1>1 DEF Start, Started, RowType, TypeOK
<1>2. ASSUME NEW w \in Walks, WalkStep(w) \/ IntervalFlush(w) \/ Panic(w)
      PROVE  row'[r].segment = row[r].segment /\ acked[r] \subseteq acked'[r]
    <2>1. UNCHANGED acked
        BY <1>2 DEF WalkStep, Open, ReadRow, Discover, FirstFlush, IntervalFlush,
           HaltEntry, Drain, FinalFlush, DropCell, WriteEnd, WriteFailed, Panic
    <2>2. CASE UNCHANGED row
        BY <2>1, <2>2
    <2>3. CASE FirstFlush(w) \/ IntervalFlush(w) \/ FinalFlush(w)
        <3>1. row'[r].segment = row[r].segment
            BY <1>0, <2>3 DEF FirstFlush, IntervalFlush, FinalFlush, Flush, WithProgress,
               RowType, TypeOK
        <3>. QED
            BY <2>1, <3>1
    <2>4. CASE WriteEnd(w) /\ ~ UNCHANGED row
        <3>1. row' = [row EXCEPT ![RunOf(w)] = Conclude(w)]
            BY <2>4 DEF WriteEnd
        <3>2. RunOf(w) = r => Conclude(w).segment = row[r].segment
            BY <1>0 DEF Conclude, Finished, PausedRow, CancelledRow, RowType
        <3>. QED
            BY <1>0, <2>1, <3>1, <3>2 DEF TypeOK
    <2>5. CASE WriteFailed(w) /\ ~ UNCHANGED row
        <3>1. row' = [row EXCEPT ![RunOf(w)] = FailedRow(@)]
            BY <2>5 DEF WriteFailed
        <3>2. FailedRow(row[r]).segment = row[r].segment
            BY <1>0 DEF FailedRow, RowType
        <3>. QED
            BY <1>0, <2>1, <3>1, <3>2 DEF TypeOK
    <2>. QED
        BY <1>2, <2>2, <2>3, <2>4, <2>5 DEF WalkStep, Open, ReadRow, Discover,
           HaltEntry, Drain, DropCell, Panic
<1>3. ASSUME NEW c \in Callers, CheckRegistry(c)
      PROVE  row'[r].segment = row[r].segment /\ acked[r] \subseteq acked'[r]
    BY <1>3 DEF CheckRegistry, Acknowledge, TypeOK
<1>4. ASSUME NEW c \in Callers, WriteStop(c)
      PROVE  row'[r].segment = row[r].segment /\ acked[r] \subseteq acked'[r]
    <2>1. acked[r] \subseteq acked'[r]
        BY <1>4 DEF WriteStop, Acknowledge, TypeOK
    <2>2. CASE UNCHANGED row
        BY <2>1, <2>2
    <2>3. CASE row' = [row EXCEPT ![call[c].run] =
                    IF call[c].verb = "pause" THEN PausedRow(@) ELSE CancelledRow(@, "none")]
        <3>1. row'[r].segment = row[r].segment
            BY <1>0, <2>3 DEF PausedRow, CancelledRow, RowType, TypeOK
        <3>. QED
            BY <2>1, <3>1
    <2>. QED
        BY <1>4, <2>2, <2>3 DEF WriteStop
<1>5. ASSUME NEW c \in Callers, WriteResume(c)
      PROVE  \/ row'[r].segment = row[r].segment /\ acked[r] \subseteq acked'[r]
             \/ /\ row'[r].segment = row[r].segment + 1
                /\ acked'[r] = Pending(r)
                /\ SpawnOrGone(r, row[r].segment + 1)
    <2>1. CASE UNCHANGED <<row, acked>>
        BY <2>1
    <2>2. CASE call[c].run # r
        BY <1>5, <2>2 DEF WriteResume, TypeOK
    <2>3. CASE call[c].run = r /\ ~ UNCHANGED <<row, acked>>
        <3>1. /\ row' = [row EXCEPT ![r] = ResumedRow(@)]
              /\ acked' = [acked EXCEPT ![r] = Pending(r)]
              /\ SpawnOrGone(r, row[r].segment + 1)
            BY <1>5, <2>3 DEF WriteResume
        <3>2. row'[r] = ResumedRow(row[r]) /\ acked'[r] = Pending(r)
            BY <3>1 DEF TypeOK
        <3>. QED
            BY <1>0, <3>1, <3>2 DEF ResumedRow, RowType
    <2>. QED
        BY <2>1, <2>2, <2>3
<1>6. CASE Restart
    <2>1. UNCHANGED acked /\ (row'[r] = row[r] \/ row'[r] = Reconciled(row[r]))
        BY <1>6 DEF Restart
    <2>. QED
        BY <1>0, <2>1 DEF Reconciled, RowType
<1>7. CASE UNCHANGED <<row, acked>>
    BY <1>7
<1>. QED
    BY <1>1, <1>2, <1>3, <1>4, <1>5, <1>6, <1>7 DEF Next, CallStep, Lookup, Overlay, vars

(* Resumes and cancels are not forgotten, but for the stops a resume       *)
(* supersedes.                                                             *)
LEMMA StaysPlain ==
    ASSUME TypeOK, GoodRows, GoodWalks, [Next]_vars, NEW r \in Runs, Plain(r)'
    PROVE  Plain(r)
<1>1. row[r].segment \in Int /\ row[r].segment >= 0
    BY GensFacts DEF TypeOK, RowType
<1>2. row'[r].segment = 0 /\ "cancel" \notin acked'[r]
    BY DEF Plain
<1>3. row'[r].segment = row[r].segment /\ acked[r] \subseteq acked'[r]
    BY <1>1, <1>2, AckedMoves
<1>. QED
    BY <1>2, <1>3 DEF Plain

(* The closing write of a walk leaves no phase on a row it closes.         *)
LEMMA ConcludedRow ==
    ASSUME TypeOK, NEW w \in Walks, Conclude(w).status \in Closed,
           row[RunOf(w)].status \notin Closed
    PROVE  Conclude(w).phase = "none"
<1>1. row[RunOf(w)] \in RowType
    BY WalksFacts DEF TypeOK
<1>. QED
    BY <1>1 DEF Conclude, Finished, PausedRow, CancelledRow, RowType, Closed

(* Every step keeps a closed run quiet.                                    *)
LEMMA NextQuiet ==
    ASSUME ViewIInv, [Next]_vars, NEW r \in Runs
    PROVE  QuietWhenClosed(r)'
<1>. SUFFICES ASSUME Plain(r)', row'[r].status \in Closed
              PROVE  row'[r].phase = "none" /\ walk'[<<r, 0>>].pc \in {"idle", "done"}
    BY DEF QuietWhenClosed
<1>0. /\ TypeOK /\ GoodRows /\ GoodWalks /\ Plain(r) /\ row[r].segment = 0
      /\ <<r, 0>> \in Walks /\ RunOf(<<r, 0>>) = r /\ row[r] \in RowType
      /\ row[r].status \in Closed =>
            row[r].phase = "none" /\ walk[<<r, 0>>].pc \in {"idle", "done"}
    BY StaysPlain, WalksFacts, GensFacts DEF ViewIInv, IInv, QuietWhenClosed, Plain, TypeOK
<1>1. CASE UNCHANGED <<row, walk>>
    BY <1>0, <1>1
<1>2. ASSUME NEW q \in Runs, Start(q)
      PROVE  row'[r].phase = "none" /\ walk'[<<r, 0>>].pc \in {"idle", "done"}
    <2>1. q # r
        BY <1>0, <1>2 DEF Start, Started, RowType, Closed, TypeOK
    <2>2. row'[r] = row[r] /\ walk'[<<r, 0>>] = walk[<<r, 0>>]
        BY <1>0, <1>2, <2>1 DEF Start, SpawnOrGone, Spawn, TypeOK
    <2>. QED
        BY <1>0, <2>2
<1>3. ASSUME NEW w \in Walks, WalkStep(w) \/ IntervalFlush(w) \/ Panic(w)
      PROVE  row'[r].phase = "none" /\ walk'[<<r, 0>>].pc \in {"idle", "done"}
    <2>0. walk[w].pc \notin {"idle", "done"}
        BY <1>3 DEF WalkStep, Open, ReadRow, Discover, FirstFlush, IntervalFlush,
           HaltEntry, Drain, FinalFlush, DropCell, WriteEnd, WriteFailed, Panic,
           HoldsCell, Exits
    <2>1. CASE RunOf(w) # r
        <3>1. w # <<r, 0>>
            BY <1>0, <2>1
        <3>2. row'[r] = row[r] /\ walk'[<<r, 0>>] = walk[<<r, 0>>]
            BY <1>0, <1>3, <2>1, <3>1 DEF TypeOK, WalkStep, Open, ReadRow, Discover,
               FirstFlush, IntervalFlush, HaltEntry, Drain, FinalFlush, DropCell,
               WriteEnd, WriteFailed, Panic, SetWalk, EndWalk, Flush
        <3>. QED
            BY <1>0, <3>2
    <2>2. CASE RunOf(w) = r
        <3>1. w = <<r, 0>> /\ row[r].status \notin Closed
            BY <1>0, <2>0, <2>2, FirstSegment
        <3>2. CASE FirstFlush(w) \/ IntervalFlush(w) \/ FinalFlush(w)
            <4>1. row'[r].status = row[r].status
                BY <1>0, <2>2, <3>2 DEF FirstFlush, IntervalFlush, FinalFlush, Flush,
                   WithProgress, RowType, TypeOK
            <4>. QED
                BY <3>1, <4>1
        <3>3. CASE UNCHANGED row
            BY <3>1, <3>3
        <3>4. CASE WriteEnd(w) /\ ~ UNCHANGED row
            <4>1. row'[r] = Conclude(w) /\ walk'[w].pc = "done"
                BY <1>0, <2>2, <3>4 DEF WriteEnd, EndWalk, DoneWalk, IdleWalk, TypeOK
            <4>. QED
                BY <1>0, <2>2, <3>1, <4>1, ConcludedRow
        <3>5. CASE WriteFailed(w) /\ ~ UNCHANGED row
            <4>1. row'[r] = FailedRow(row[r]) /\ walk'[w].pc = "done"
                BY <1>0, <2>2, <3>5 DEF WriteFailed, EndWalk, DoneWalk, IdleWalk, TypeOK
            <4>. QED
                BY <1>0, <3>1, <4>1 DEF FailedRow, RowType
        <3>. QED
            BY <1>3, <3>2, <3>3, <3>4, <3>5 DEF WalkStep, Open, ReadRow, Discover,
               HaltEntry, Drain, DropCell, Panic
    <2>. QED
        BY <2>1, <2>2
<1>4. ASSUME NEW c \in Callers, CallStep(c)
      PROVE  row'[r].phase = "none" /\ walk'[<<r, 0>>].pc \in {"idle", "done"}
    <2>1. CASE CheckRegistry(c)
        <3>1. row' = row /\ walk'[<<r, 0>>].pc = walk[<<r, 0>>].pc
            BY <1>0, <2>1 DEF CheckRegistry, TypeOK, WalkType
        <3>. QED
            BY <1>0, <3>1
    <2>2. CASE WriteStop(c)
        <3>1. CASE UNCHANGED row
            BY <1>0, <2>2, <3>1 DEF WriteStop
        <3>2. CASE call[c].run # r
            BY <1>0, <2>2, <3>2 DEF WriteStop, TypeOK
        <3>3. CASE call[c].run = r /\ ~ UNCHANGED row
            <4>1. CASE call[c].verb = "pause"
                BY <1>0, <2>2, <3>3, <4>1 DEF WriteStop, PausedRow, RowType, Closed, TypeOK
            <4>2. CASE call[c].verb # "pause"
                <5>1. call[c].verb = "cancel" /\ Acknowledge(r, call[c].verb)
                    BY <2>2, <3>3, <4>2 DEF WriteStop, ControlVerbs
                <5>2. "cancel" \in acked'[r]
                    BY <1>0, <5>1 DEF Acknowledge, TypeOK
                <5>. QED
                    BY <5>2 DEF Plain
            <4>. QED
                BY <4>1, <4>2
        <3>. QED
            BY <3>1, <3>2, <3>3
    <2>3. CASE WriteResume(c)
        <3>1. CASE UNCHANGED <<row, walk>>
            BY <1>1, <3>1
        <3>2. CASE call[c].run = r /\ ~ UNCHANGED <<row, walk>>
            <4>1. row' = [row EXCEPT ![r] = ResumedRow(@)]
                BY <2>3, <3>2 DEF WriteResume
            <4>. QED
                BY <1>0, <4>1 DEF ResumedRow, RowType, Closed, TypeOK
        <3>3. CASE call[c].run # r
            <4>1. \A g : <<r, 0>> # <<call[c].run, g>>
                BY <3>3
            <4>2. row'[r] = row[r] /\ walk'[<<r, 0>>] = walk[<<r, 0>>]
                BY <1>0, <2>3, <3>3, <4>1 DEF WriteResume, SpawnOrGone, Spawn, TypeOK
            <4>. QED
                BY <1>0, <4>2
        <3>. QED
            BY <3>1, <3>2, <3>3
    <2>4. CASE Overlay(c)
        BY <1>1, <2>4 DEF Overlay
    <2>. QED
        BY <1>4, <2>1, <2>2, <2>3, <2>4 DEF CallStep
<1>5. CASE Restart
    <2>1. row'[r] = row[r] \/ row'[r] = Reconciled(row[r])
        BY <1>5 DEF Restart
    <2>2. row'[r] = row[r]
        BY <1>0, <2>1 DEF Reconciled, RowType, Closed
    <2>3. walk'[<<r, 0>>].pc \in {"idle", "done"}
        BY <1>0, <1>5 DEF Restart, DoneWalk, IdleWalk
    <2>. QED
        BY <1>0, <2>2, <2>3
<1>. QED
    BY <1>1, <1>2, <1>3, <1>4, <1>5 DEF Next, Lookup, vars

(* Every step keeps what the status queries have seen.                     *)
LEMMA NextSeen ==
    ASSUME ViewIInv, [Next]_vars, NEW c \in Callers
    PROVE  Seen(c)'
<1> DEFINE r == call[c].run
<1>0. /\ TypeOK /\ GoodRows /\ GoodWalks /\ RegistryOwned /\ Seen(c)
      /\ call[c] \in CallType /\ r \in Runs /\ \A q \in Runs : QuietWhenClosed(q)
    BY DEF ViewIInv, IInv, TypeOK, CallType
<1>1. ASSUME call'[c] = call[c]
      PROVE  Seen(c)'
    <2> SUFFICES ASSUME NEW q \in Runs, call[c].run = q, call[c].verb = "status",
                        call[c].pc \in {"overlay", "answered"},
                        call[c].status \in Closed, Plain(q)'
                 PROVE  row'[q].status \in Closed /\ call[c].phase = "none"
        BY <1>0, <1>1 DEF Seen, Plain
    <2>1. row[q].status \in Closed /\ call[c].phase = "none"
        BY <1>0, StaysPlain DEF Seen
    <2>. QED
        BY <1>0, <2>1, NextKeepsRows
<1>2. ASSUME call'[c].pc \notin {"overlay", "answered"}
      PROVE  Seen(c)'
    BY <1>2 DEF Seen
<1>3. ASSUME NEW verb \in Verbs, NEW q \in Runs, Lookup(c, verb, q)
      PROVE  Seen(c)'
    <2>1. CASE verb # "status"
        <3>1. call'[c] = Asked(verb, q)
            BY <1>0, <1>3, <2>1 DEF Lookup, TypeOK
        <3>. QED
            BY <2>1, <3>1 DEF Seen, Asked, IdleCall
    <2>2. CASE verb = "status"
        <3>1. /\ call'[c].run = q /\ call'[c].status = row[q].status
              /\ call'[c].phase = row[q].phase /\ UNCHANGED <<row, acked>>
            BY <1>0, <1>3, <2>2 DEF Lookup, Asked, IdleCall, TypeOK
        <3>. QED
            BY <1>0, <3>1 DEF Seen, QuietWhenClosed, Plain
    <2>. QED
        BY <2>1, <2>2
<1>4. CASE Overlay(c)
    <2>1. /\ call[c].pc = "overlay" /\ UNCHANGED <<row, acked>>
          /\ call'[c].run = r /\ call'[c].verb = call[c].verb
          /\ call'[c].status = call[c].status
          /\ cell[r] = NoCell => call'[c].phase = call[c].phase
        BY <1>0, <1>4 DEF Overlay, TypeOK, CallType
    <2> SUFFICES ASSUME call[c].verb = "status", call[c].status \in Closed, Plain(r)
                 PROVE  row[r].status \in Closed /\ call'[c].phase = "none"
        BY <2>1 DEF Seen, Plain
    <2>2. row[r].status \in Closed /\ call[c].phase = "none"
        BY <1>0, <2>1 DEF Seen
    <2>3. cell[r] = NoCell
        <3> SUFFICES ASSUME cell[r] # NoCell PROVE FALSE
            OBVIOUS
        <3>1. walk[<<r, cell[r]>>].pc \in HoldsCell
            BY <1>0 DEF RegistryOwned
        <3>2. <<r, cell[r]>> \in Walks /\ RunOf(<<r, cell[r]>>) = r
            BY <1>0, WalksFacts DEF TypeOK
        <3>3. <<r, cell[r]>> = <<r, 0>>
            BY <1>0, <3>1, <3>2, FirstSegment DEF Plain, HoldsCell
        <3>. QED
            BY <1>0, <2>2, <3>1, <3>3 DEF QuietWhenClosed, HoldsCell
    <2>. QED
        BY <2>1, <2>2, <2>3
<1>5. ASSUME NEW d \in Callers, CallStep(d), ~ (d = c /\ Overlay(c))
      PROVE  Seen(c)'
    <2>1. CASE d # c
        <3>1. call'[c] = call[c]
            BY <1>0, <1>5, <2>1 DEF CallStep, CheckRegistry, WriteStop, WriteResume, Overlay,
               Answer, TypeOK
        <3>. QED
            BY <1>1, <3>1
    <2>2. CASE d = c
        <3>1. call'[c].pc \in {"idle", "write"}
            <4>1. CASE Answer(c)
                BY <1>0, <4>1 DEF Answer, IdleCall, TypeOK
            <4>2. CASE call' = [call EXCEPT ![c].pc = "write"]
                BY <1>0, <4>2 DEF CallType, TypeOK
            <4>. QED
                BY <1>5, <2>2, <4>1, <4>2 DEF CallStep, CheckRegistry, WriteStop, WriteResume
        <3>. QED
            BY <1>2, <3>1
    <2>. QED
        BY <2>1, <2>2
<1>6. ASSUME NEW d \in Callers, NEW verb \in Verbs, NEW q \in Runs, d # c, Lookup(d, verb, q)
      PROVE  Seen(c)'
    <2>1. call'[c] = call[c]
        BY <1>0, <1>6 DEF Lookup, TypeOK
    <2>. QED
        BY <1>1, <2>1
<1>7. CASE Restart
    <2>1. call'[c].pc = "idle"
        BY <1>7 DEF Restart, IdleCall
    <2>. QED
        BY <1>2, <2>1
<1>8. CASE UNCHANGED call
    BY <1>1, <1>8
<1>. QED
    BY <1>3, <1>4, <1>5, <1>6, <1>7, <1>8 DEF Next, Start, vars, WalkStep, Open, ReadRow,
       Discover, FirstFlush, IntervalFlush, HaltEntry, Drain, FinalFlush, DropCell,
       WriteEnd, WriteFailed, Panic

(* A status answered for a closed run that was neither resumed nor asked   *)
(* to cancel carries no phase (run_status.rs, overlay_live_state), under   *)
(* every fault.                                                            *)
THEOREM ViewTheorem == Spec => []ViewConsistent
<1>1. Init => ViewIInv
    <2>1. Init => (\A r \in Runs : QuietWhenClosed(r)) /\ (\A c \in Callers : Seen(c))
        BY DEF Init, NewRow, IdleCall, QuietWhenClosed, Seen, Closed
    <2>. QED
        BY <2>1, InitIInv DEF ViewIInv
<1>2. ViewIInv /\ [Next]_vars => ViewIInv'
    BY NextIInv, NextQuiet, NextSeen DEF ViewIInv
<1>3. ViewIInv => ViewConsistent
    BY DEF ViewIInv, Seen, Plain, ViewConsistent
<1>. QED
    BY <1>1, <1>2, <1>3, PTL DEF Spec

-----------------------------------------------------------------------------
(* Who asked for a stop. *)

(* A stop raised for a run was answered Ok, and is still in force.         *)
InForce(r, signal) ==
    /\ signal = PauseSignal => "pause" \in acked[r]
    /\ signal = CancelSignal => "cancel" \in acked[r]

(* What a walk has been told before it opens its cell and after it has     *)
(* ended: nothing.  From the moment it knows its segment, and while it has *)
(* yet to read it, what it was told is in force for as long as its run is  *)
(* on that segment.                                                        *)
Told(w) ==
    LET wk == walk[w]
        r == RunOf(w)
    IN
    /\ wk.pc \in {"idle", "spawned", "done"} => wk.signal = NoSignal
    /\ wk.pc \in {"idle", "spawned", "opened", "done"} =>
          wk.stop = NoSignal /\ wk.known = Waived
    /\ wk.pc \in (HoldsCell \cup {"writing"}) \ {"opened"} => wk.known # Waived
    /\ wk.pc = "opened" \/ wk.known = row[r].segment => InForce(r, wk.signal)
    /\ wk.known = row[r].segment => InForce(r, wk.stop)

(* Only a pause and a cancel go to the registry.                           *)
HaltIInv == /\ IInv
            /\ \A w \in Walks : Told(w)
            /\ \A c \in Callers : call[c].pc = "check" => call[c].verb \in ControlVerbs

(* A walk that a step leaves alone has been told nothing new, and a resume *)
(* keeps the stops of the walks that are yet to read their segment.        *)
LEMMA StillTold ==
    ASSUME HaltIInv, [Next]_vars, NEW w \in Walks, walk'[w] = walk[w]
    PROVE  Told(w)'
<1> DEFINE r == RunOf(w)
<1>0. /\ TypeOK /\ GoodRows /\ GoodWalks /\ Told(w) /\ GoodWalk(w)
      /\ r \in Runs /\ walk[w] \in WalkType /\ w = <<r, w[2]>> /\ w[2] \in Gens
      /\ row[r].segment \in Int
    BY WalksFacts, GensFacts DEF HaltIInv, IInv, GoodWalks, TypeOK, RowType
<1>1. CASE row'[r].segment = row[r].segment /\ acked[r] \subseteq acked'[r]
    BY <1>0, <1>1 DEF Told, InForce
<1>2. CASE row'[r].segment = row[r].segment + 1 /\ acked'[r] = Pending(r)
    <2>1. walk[w].known # row'[r].segment
        <3>1. row[r].segment >= 0
            BY <1>0, GensFacts DEF TypeOK, RowType
        <3>2. walk[w].known = Waived \/ (walk[w].known \in Int /\ walk[w].known <= row[r].segment)
            BY <1>0, GensFacts DEF GoodWalk, WalkType
        <3>. QED
            BY <1>0, <1>2, <3>1, <3>2 DEF Waived
    <2>2. ASSUME walk[w].pc = "opened"
          PROVE  InForce(r, walk[w].signal)'
        <3>1. InForce(r, walk[w].signal)
            BY <1>0, <2>2 DEF Told
        <3>2. ASSUME NEW verb \in acked[r], walk[w].signal = SignalOf(verb)
              PROVE  verb \in acked'[r]
            BY <1>0, <1>2, <2>2, <3>2 DEF Pending
        <3>. QED
            BY <3>1, <3>2 DEF InForce, SignalOf, PauseSignal, CancelSignal
    <2>. QED
        BY <1>0, <2>1, <2>2 DEF Told
<1>. QED
    BY <1>0, <1>1, <1>2, AckedMoves

(* So has one that has ended.                                              *)
LEMMA EndedTold ==
    ASSUME HaltIInv, [Next]_vars, NEW w \in Walks, walk'[w] = DoneWalk
    PROVE  Told(w)'
<1>1. RunOf(w) \in Runs /\ TypeOK'
    BY WalksFacts, NextType DEF HaltIInv, IInv
<1>2. row'[RunOf(w)].segment # Waived
    BY <1>1, GensFacts DEF TypeOK, RowType
<1>. QED
    BY <1>2 DEF Told, DoneWalk, IdleWalk, HoldsCell, InForce, NoSignal, PauseSignal, CancelSignal

(* A walk that could read its row knows its segment, and passes on what it *)
(* was told.                                                               *)
LEMMA WalkTold ==
    ASSUME HaltIInv, [Next]_vars, "read" \notin Faults, NEW w \in Walks,
           WalkStep(w) \/ IntervalFlush(w) \/ Panic(w)
    PROVE  Told(w)'
<1> DEFINE r == RunOf(w)
<1>0. /\ TypeOK /\ Told(w) /\ GoodWalk(w)
      /\ r \in Runs /\ walk[w] \in WalkType /\ row[r].segment \in Gens
      /\ walk \in [Walks -> WalkType]
    BY WalksFacts DEF HaltIInv, IInv, GoodWalks, TypeOK, RowType
<1>1. row'[r].segment = row[r].segment /\ UNCHANGED acked
    <2>1. UNCHANGED acked
        BY DEF WalkStep, Open, ReadRow, Discover, FirstFlush, IntervalFlush,
           HaltEntry, Drain, FinalFlush, DropCell, WriteEnd, WriteFailed, Panic
    <2>2. row'[r] = row[r] \/ row'[r].segment = row[r].segment
        <3>1. CASE UNCHANGED row
            BY <3>1
        <3>2. CASE FirstFlush(w) \/ IntervalFlush(w) \/ FinalFlush(w)
            BY <1>0, <3>2 DEF FirstFlush, IntervalFlush, FinalFlush, Flush, WithProgress,
               RowType, TypeOK
        <3>3. CASE WriteEnd(w)
            <4>1. row'[r] = Conclude(w) \/ UNCHANGED row
                BY <1>0, <3>3 DEF WriteEnd, TypeOK
            <4>2. row[r] \in RowType
                BY <1>0 DEF TypeOK
            <4>. QED
                BY <4>1, <4>2 DEF Conclude, Finished, PausedRow, CancelledRow, RowType
        <3>4. CASE WriteFailed(w)
            <4>1. row'[r] = FailedRow(row[r]) \/ UNCHANGED row
                BY <1>0, <3>4 DEF WriteFailed, TypeOK
            <4>2. row[r] \in RowType
                BY <1>0 DEF TypeOK
            <4>. QED
                BY <4>1, <4>2 DEF FailedRow, RowType
        <3>. QED
            BY <3>1, <3>2, <3>3, <3>4 DEF WalkStep, Open, ReadRow, Discover,
               HaltEntry, Drain, DropCell, Panic
    <2>. QED
        BY <2>1, <2>2
<1>2. ASSUME NEW pc, SetWalk(w, pc),
             \/ walk[w].pc = "spawned" /\ pc = "opened"
             \/ walk[w].pc # "opened" /\ walk[w].pc \in HoldsCell
                  /\ pc \in (HoldsCell \cup Exits) \ {"opened"}
      PROVE  Told(w)'
    <2>1. walk'[w] = [walk[w] EXCEPT !.pc = pc]
        BY <1>0, <1>2 DEF SetWalk
    <2>. QED
        BY <1>0, <1>1, <1>2, <2>1
        DEF Told, HoldsCell, Exits, WalkType, InForce, NoSignal, PauseSignal, CancelSignal
<1>3. CASE Open(w)
    BY <1>2, <1>3 DEF Open
<1>4. CASE ReadRow(w)
    <2>1. CASE EndWalk(w)
        BY <1>0, <2>1, EndedTold DEF EndWalk
    <2>2. CASE walk' = [walk EXCEPT ![w].pc = "listing", ![w].known = row[r].segment]
        <3>1. walk'[w] = [walk[w] EXCEPT !.pc = "listing", !.known = row[r].segment]
            BY <1>0, <2>2
        <3>2. walk[w].pc = "opened" /\ row[r].segment # Waived
            BY <1>0, <1>4, GensFacts DEF ReadRow
        <3>. QED
            BY <1>0, <1>1, <3>1, <3>2
            DEF Told, HoldsCell, WalkType, InForce, NoSignal, PauseSignal, CancelSignal
    <2>. QED
        BY <1>4, <2>1, <2>2 DEF ReadRow
<1>5. CASE Discover(w)
    <2>0. walk[w].pc = "listing"
        BY <1>5 DEF Discover
    <2>1. CASE SetWalk(w, "failing")
        BY <1>2, <2>0, <2>1 DEF HoldsCell, Exits
    <2>2. CASE walk' = [walk EXCEPT ![w].pc = "flushing", ![w].halted = TRUE,
                                    ![w].stop = walk[w].signal]
        <3>1. walk'[w] = [walk[w] EXCEPT !.pc = "flushing", !.halted = TRUE,
                                         !.stop = walk[w].signal]
            BY <1>0, <2>2
        <3>. QED
            BY <1>0, <1>1, <2>0, <3>1 DEF Told, HoldsCell, WalkType, InForce
    <2>3. CASE walk' = [walk EXCEPT ![w].pc = "starting", ![w].phase = "processing"]
        <3>1. walk'[w] = [walk[w] EXCEPT !.pc = "starting", !.phase = "processing"]
            BY <1>0, <2>3
        <3>. QED
            BY <1>0, <1>1, <2>0, <3>1 DEF Told, HoldsCell, WalkType, InForce
    <2>. QED
        BY <1>5, <2>1, <2>2, <2>3 DEF Discover
<1>6. CASE FirstFlush(w) \/ FinalFlush(w) \/ DropCell(w)
    BY <1>2, <1>6 DEF FirstFlush, FinalFlush, DropCell, HoldsCell, Exits
<1>7. CASE IntervalFlush(w)
    BY <1>7, StillTold DEF IntervalFlush
<1>8. CASE HaltEntry(w)
    <2>1. walk'[w] = [walk[w] EXCEPT !.halted = TRUE]
        BY <1>0, <1>8 DEF HaltEntry
    <2>. QED
        BY <1>0, <1>1, <2>1 DEF Told, WalkType, InForce
<1>9. CASE Drain(w)
    <2>1. walk'[w] = [walk[w] EXCEPT !.pc = "flushing", !.stop = walk[w].signal]
        BY <1>0, <1>9 DEF Drain
    <2>2. walk[w].pc = "working"
        BY <1>9 DEF Drain
    <2>. QED
        BY <1>0, <1>1, <2>1, <2>2 DEF Told, HoldsCell, WalkType, InForce
<1>10. CASE WriteEnd(w) \/ WriteFailed(w) \/ Panic(w)
    BY <1>0, <1>10, EndedTold DEF WriteEnd, WriteFailed, Panic, EndWalk
<1>. QED
    BY <1>3, <1>4, <1>5, <1>6, <1>7, <1>8, <1>9, <1>10 DEF WalkStep

(* A call that raises the signal of a walk is answered Ok for that stop.   *)
LEMMA RaiseTold ==
    ASSUME HaltIInv, [Next]_vars, NEW c \in Callers, CheckRegistry(c),
           NEW w \in Walks, walk'[w] # walk[w]
    PROVE  Told(w)'
<1> DEFINE r == RunOf(w)
           verb == call[c].verb
           new == Raise(walk[w].signal, SignalOf(verb))
<1>0. /\ TypeOK /\ Told(w) /\ RegistryOwned /\ r \in Runs /\ walk[w] \in WalkType
      /\ walk \in [Walks -> WalkType] /\ acked \in [Runs -> SUBSET AllVerbs]
      /\ call[c].run \in Runs /\ verb \in AllVerbs
    BY WalksFacts DEF HaltIInv, IInv, TypeOK, CallType
<1>1. /\ w = <<call[c].run, cell[call[c].run]>> /\ cell[call[c].run] # NoCell
      /\ walk'[w] = [walk[w] EXCEPT !.signal = new]
      /\ UNCHANGED row
      /\ acked' = [acked EXCEPT ![call[c].run] = @ \cup {verb}]
    BY <1>0 DEF CheckRegistry, Acknowledge
<1>2. r = call[c].run /\ walk[w].pc \in HoldsCell
    BY <1>0, <1>1 DEF RegistryOwned, RunOf
<1>3. acked'[r] = acked[r] \cup {verb}
    BY <1>0, <1>1, <1>2
<1>4. verb \in ControlVerbs
    BY DEF HaltIInv, CheckRegistry
<1>5. ASSUME InForce(r, walk[w].signal)
      PROVE  InForce(r, walk[w].signal)'
    <2>1. walk'[w].signal = walk[w].signal \/ walk'[w].signal = SignalOf(verb)
        BY <1>0, <1>1 DEF Raise, WalkType
    <2>2. CASE walk'[w].signal = walk[w].signal
        BY <1>3, <1>5, <2>2 DEF InForce
    <2>3. CASE walk'[w].signal = SignalOf(verb)
        BY <1>3, <1>4, <2>3 DEF InForce, ControlVerbs, SignalOf, PauseSignal, CancelSignal
    <2>. QED
        BY <2>1, <2>2, <2>3
<1>6. /\ walk'[w].pc = walk[w].pc /\ walk'[w].known = walk[w].known
      /\ walk'[w].stop = walk[w].stop /\ row'[r] = row[r]
    BY <1>0, <1>1 DEF WalkType
<1>7. InForce(r, walk[w].stop) => InForce(r, walk[w].stop)'
    BY <1>3, <1>6 DEF InForce
<1>. QED
    BY <1>0, <1>2, <1>5, <1>6, <1>7 DEF Told, HoldsCell

(* Every step keeps what the walks were told.                              *)
LEMMA NextTold ==
    ASSUME HaltIInv, [Next]_vars, "read" \notin Faults
    PROVE  HaltIInv'
<1>0. TypeOK /\ call \in [Callers -> CallType] /\ walk \in [Walks -> WalkType]
    BY DEF HaltIInv, IInv, TypeOK
<1>1. ASSUME NEW w \in Walks
      PROVE  Told(w)'
    <2>1. CASE walk'[w] = walk[w]
        BY <2>1, StillTold
    <2>2. ASSUME NEW v \in Walks, WalkStep(v) \/ IntervalFlush(v) \/ Panic(v)
          PROVE  Told(w)'
        <3>1. v # w => walk'[w] = walk[w]
            BY <1>0, <2>2 DEF WalkStep, Open, ReadRow, Discover, FirstFlush,
               IntervalFlush, HaltEntry, Drain, FinalFlush, DropCell, WriteEnd,
               WriteFailed, Panic, SetWalk, EndWalk
        <3>. QED
            BY <2>1, <2>2, <3>1, WalkTold
    <2>3. ASSUME NEW r \in Runs, NEW g \in Gens, SpawnOrGone(r, g), walk'[w] # walk[w],
                 walk[<<r, g>>].pc = "idle"
          PROVE  Told(w)'
        <3>1. /\ w = <<r, g>> /\ walk'[w] = [walk[w] EXCEPT !.pc = "spawned"]
              /\ walk[w] \in WalkType /\ Told(w)
            BY <1>0, <2>3 DEF SpawnOrGone, Spawn, HaltIInv
        <3>2. row'[RunOf(w)].segment # Waived
            BY NextType, WalksFacts, GensFacts DEF HaltIInv, IInv, TypeOK, RowType
        <3>. QED
            BY <2>3, <3>1, <3>2
            DEF Told, HoldsCell, WalkType, InForce, NoSignal, PauseSignal, CancelSignal
    <2>4. CASE \E r \in Runs : Start(r)
        <3>1. PICK r \in Runs : Start(r)
            BY <2>4
        <3>2. walk[<<r, 0>>].pc = "idle" /\ SpawnOrGone(r, 0) /\ 0 \in Gens
            BY <3>1, WalksFacts, GensFacts DEF Start, HaltIInv, IInv, GoodWalks, GoodWalk
        <3>. QED
            BY <2>1, <2>3, <3>2
    <2>5. ASSUME NEW c \in Callers, CallStep(c), walk'[w] # walk[w]
          PROVE  Told(w)'
        <3>1. CASE CheckRegistry(c)
            BY <2>5, <3>1, RaiseTold
        <3>2. CASE WriteResume(c)
            <4>1. /\ SpawnOrGone(call[c].run, row[call[c].run].segment + 1)
                  /\ row[call[c].run].segment < MaxSegment
                BY <2>5, <3>2 DEF WriteResume
            <4>2. call[c].run \in Runs /\ row[call[c].run].segment + 1 \in Gens
                BY <1>0, <4>1, GensFacts DEF CallType, TypeOK, RowType
            <4>3. GoodWalk(<<call[c].run, row[call[c].run].segment + 1>>)
                BY <4>2, WalksFacts DEF HaltIInv, IInv, GoodWalks
            <4>4. walk[<<call[c].run, row[call[c].run].segment + 1>>].pc = "idle"
                <5>1. row[call[c].run].segment \in Int
                    BY <1>0, <4>2, GensFacts DEF TypeOK, RowType
                <5>2. ~ (row[call[c].run].segment + 1 <= row[call[c].run].segment)
                    BY <5>1
                <5>. QED
                    BY <4>2, <4>3, <5>2, WalksFacts DEF GoodWalk
            <4>. QED
                BY <2>3, <2>5, <4>1, <4>2, <4>4
        <3>. QED
            BY <2>5, <3>1, <3>2 DEF CallStep, WriteStop, Overlay
    <2>6. CASE Restart
        <3>1. walk'[w] = walk[w] \/ walk'[w] = DoneWalk
            BY <2>6 DEF Restart
        <3>. QED
            BY <2>1, <3>1, EndedTold
    <2>. QED
        BY <2>1, <2>2, <2>4, <2>5, <2>6 DEF Next, Lookup, vars
<1>2. ASSUME NEW c \in Callers, call'[c].pc = "check"
      PROVE  call'[c].verb \in ControlVerbs
    <2>1. CASE call'[c] = call[c]
        BY <1>2, <2>1 DEF HaltIInv
    <2>2. ASSUME NEW d \in Callers, NEW verb \in Verbs, NEW q \in Runs, Lookup(d, verb, q)
          PROVE  call'[c].verb \in ControlVerbs
        <3>1. c # d => call'[c] = call[c]
            BY <1>0, <2>2 DEF Lookup
        <3>2. c = d => call'[c].verb = verb /\ call'[c].pc = NextPC(verb)
            BY <1>0, <2>2 DEF Lookup, Asked, IdleCall
        <3>. QED
            BY <1>2, <2>1, <3>1, <3>2 DEF NextPC
    <2>3. ASSUME NEW d \in Callers, CallStep(d)
          PROVE  call'[c].verb \in ControlVerbs
        <3>1. CASE c # d
            <4>1. call'[c] = call[c]
                BY <1>0, <2>3, <3>1 DEF CallStep, CheckRegistry, WriteStop, WriteResume,
                   Overlay, Answer
            <4>. QED
                BY <2>1, <4>1
        <3>2. CASE c = d
            <4>1. CASE Answer(c)
                BY <1>0, <1>2, <4>1 DEF Answer, IdleCall
            <4>2. CASE call' = [call EXCEPT ![c].pc = "write"]
                BY <1>0, <1>2, <4>2 DEF CallType
            <4>3. CASE Overlay(c)
                BY <1>0, <1>2, <4>3 DEF Overlay, CallType
            <4>. QED
                BY <2>3, <3>2, <4>1, <4>2, <4>3 DEF CallStep, CheckRegistry, WriteStop,
                   WriteResume
        <3>. QED
            BY <3>1, <3>2
    <2>4. CASE Restart
        BY <1>2, <2>4 DEF Restart, IdleCall
    <2>5. CASE UNCHANGED call
        BY <2>1, <2>5
    <2>. QED
        BY <2>2, <2>3, <2>4, <2>5 DEF Next, Start, vars, WalkStep, Open, ReadRow,
           Discover, FirstFlush, IntervalFlush, HaltEntry, Drain, FinalFlush, DropCell,
           WriteEnd, WriteFailed, Panic
<1>. QED
    BY <1>1, <1>2, NextIInv DEF HaltIInv

(* The row of a run is paused by a caller that was answered Ok, by a walk  *)
(* that was told to, or by the restart; it is cancelled by the first two.  *)
LEMMA HaltsEarned ==
    ASSUME HaltIInv, [Next]_vars, NEW r \in Runs
    PROVE  /\ row[r].status # "paused" /\ row'[r].status = "paused"
                => "pause" \in acked'[r] \/ Restart
           /\ row[r].status # "cancelled" /\ row'[r].status = "cancelled"
                => "cancel" \in acked'[r]
<1> DEFINE Earned == /\ row[r].status # "paused" /\ row'[r].status = "paused"
                          => "pause" \in acked'[r] \/ Restart
                     /\ row[r].status # "cancelled" /\ row'[r].status = "cancelled"
                          => "cancel" \in acked'[r]
<1>0. /\ TypeOK /\ row[r] \in RowType /\ row \in [Runs -> RowType]
      /\ acked \in [Runs -> SUBSET AllVerbs]
    BY DEF HaltIInv, IInv, TypeOK
<1>1. CASE row'[r] = row[r]
    BY <1>1
<1>2. CASE row'[r].status = row[r].status
    BY <1>2
<1>3. CASE \E q \in Runs : Start(q)
    BY <1>0, <1>1, <1>3 DEF Start, Started, RowType
<1>4. ASSUME NEW w \in Walks, WriteEnd(w), row'[r] # row[r]
      PROVE  Earned
    <2>1. RunOf(w) = r /\ row'[r] = Conclude(w) /\ UNCHANGED acked
        BY <1>0, <1>4 DEF WriteEnd
    <2>2. /\ walk[w] \in WalkType /\ Told(w) /\ walk[w].pc = "writing"
          /\ walk[w].stop \in {NoSignal, PauseSignal, CancelSignal}
        BY <1>4 DEF HaltIInv, IInv, TypeOK, WriteEnd, WalkType, Signals, NoSignal,
           PauseSignal, CancelSignal
    <2>3. walk[w].known # Waived
        BY <2>2 DEF Told
    <2>4. CASE walk[w].stop = NoSignal
        <3>1. row'[r] = Finished(row[r], Tally(w))
            BY <2>1, <2>4 DEF Conclude, NoSignal, PauseSignal
        <3>. QED
            BY <1>0, <3>1 DEF Finished, RowType
    <2>5. CASE walk[w].stop = PauseSignal
        <3>1. PauseApplies(row[r], walk[w].known) /\ row'[r] = PausedRow(row[r])
            BY <1>4, <2>1, <2>5 DEF Conclude, NoSignal, PauseSignal
        <3>2. walk[w].known = row[r].segment
            BY <2>3, <3>1 DEF PauseApplies, SegmentGuard
        <3>3. "pause" \in acked'[r]
            BY <2>1, <2>2, <2>5, <3>2 DEF Told, InForce
        <3>. QED
            BY <1>0, <3>1, <3>3 DEF PausedRow, RowType
    <2>6. CASE walk[w].stop = CancelSignal
        <3>1. /\ CancelApplies(row[r], Tally(w), walk[w].known)
              /\ row'[r] = CancelledRow(row[r], Tally(w))
            BY <1>4, <2>1, <2>6 DEF Conclude, NoSignal, PauseSignal, CancelSignal
        <3>2. walk[w].known = row[r].segment
            BY <2>3, <3>1 DEF CancelApplies, SegmentGuard
        <3>3. "cancel" \in acked'[r]
            BY <2>1, <2>2, <2>6, <3>2 DEF Told, InForce
        <3>. QED
            BY <1>0, <3>1, <3>3 DEF CancelledRow, RowType
    <2>. QED
        BY <2>2, <2>4, <2>5, <2>6
<1>5. ASSUME NEW w \in Walks, WriteFailed(w)
      PROVE  Earned
    <2>1. row'[r] = row[r] \/ row'[r] = FailedRow(row[r])
        BY <1>0, <1>5 DEF WriteFailed
    <2>. QED
        BY <1>0, <2>1 DEF FailedRow, RowType
<1>6. ASSUME NEW w \in Walks, FirstFlush(w) \/ IntervalFlush(w) \/ FinalFlush(w)
      PROVE  Earned
    BY <1>0, <1>2, <1>6 DEF FirstFlush, IntervalFlush, FinalFlush, Flush, WithProgress, RowType
<1>7. ASSUME NEW c \in Callers, WriteStop(c), row'[r] # row[r]
      PROVE  Earned
    <2>1. /\ call[c].run = r /\ call[c].verb \in ControlVerbs
          /\ acked'[r] = acked[r] \cup {call[c].verb}
          /\ row'[r] = IF call[c].verb = "pause" THEN PausedRow(row[r])
                                                 ELSE CancelledRow(row[r], "none")
        BY <1>0, <1>7 DEF WriteStop, Acknowledge
    <2>. QED
        BY <1>0, <2>1 DEF ControlVerbs, PausedRow, CancelledRow, RowType
<1>8. ASSUME NEW c \in Callers, WriteResume(c), row'[r] # row[r]
      PROVE  Earned
    <2>1. row'[r] = ResumedRow(row[r])
        BY <1>0, <1>8 DEF WriteResume
    <2>. QED
        BY <1>0, <2>1 DEF ResumedRow, RowType
<1>9. CASE Restart
    <2>1. row'[r] = row[r] \/ row'[r] = Reconciled(row[r])
        BY <1>9 DEF Restart
    <2>. QED
        BY <1>0, <1>9, <2>1 DEF Reconciled, RowType
<1>. QED
    BY <1>1, <1>3, <1>4, <1>5, <1>6, <1>7, <1>8, <1>9
    DEF Next, CallStep, Lookup, Overlay, CheckRegistry, vars, WalkStep, Open, ReadRow,
        Discover, HaltEntry, Drain, DropCell, Panic

(* A run is paused or cancelled only when a caller was answered Ok for     *)
(* that very stop and no resume has superseded it (index.rs, record_halt;  *)
(* runs.rs, segment_guard), whatever fails but a walk's read of its row,   *)
(* which waives the segment it would be held to.                           *)
THEOREM HaltsTheorem ==
    ASSUME "read" \notin Faults
    PROVE  Spec => HaltsAreAsked
<1>1. Init => HaltIInv
    <2>1. Init => \A w \in Walks : Told(w)
        BY GensFacts DEF Init, Told, IdleWalk, NewRow, HoldsCell, InForce, NoSignal,
           PauseSignal, CancelSignal, Waived
    <2>2. Init => \A c \in Callers : call[c].pc = "idle"
        BY DEF Init, IdleCall
    <2>. QED
        BY <2>1, <2>2, InitIInv DEF HaltIInv
<1>2. HaltIInv /\ [Next]_vars => HaltIInv'
    BY NextTold
<1> DEFINE Step == \A r \in Runs :
          /\ row[r].status # "paused" /\ row'[r].status = "paused"
                => "pause" \in acked'[r] \/ Restart
          /\ row[r].status # "cancelled" /\ row'[r].status = "cancelled"
                => "cancel" \in acked'[r]
<1>3. HaltIInv /\ [Next]_vars => [Step]_vars
    BY HaltsEarned
<1>4. Spec => [][Step]_vars
    BY <1>1, <1>2, <1>3, PTL DEF Spec
<1>. QED
    BY <1>4 DEF HaltsAreAsked

-----------------------------------------------------------------------------
(***************************************************************************)
(* RunControl implements RunLifecycle: whatever the walks, the callers and *)
(* the restarts do to the registry and the rows, each of their steps is a  *)
(* step of the lifecycle or none at all.                                   *)
(***************************************************************************)

StatusOf == [r \in Runs |-> row[r].status]
SegmentOf == [r \in Runs |-> row[r].segment]

Alive(pc) == pc \notin {"idle", "done"}

(* A step that moves no status, no segment and ends or spawns no walk is   *)
(* invisible.                                                              *)
LEMMA Stutter ==
    ASSUME \A r \in Runs : row'[r].status = row[r].status
                        /\ row'[r].segment = row[r].segment,
           \A w \in Walks : Alive(walk'[w].pc) <=> Alive(walk[w].pc)
    PROVE  UNCHANGED Lifecycle!lifecycle
<1>1. Owed' = Owed
    BY WalksFacts DEF Owed, Alive
<1>2. StatusOf' = StatusOf /\ SegmentOf' = SegmentOf
    BY DEF StatusOf, SegmentOf
<1>. QED
    BY <1>1, <1>2 DEF Lifecycle!lifecycle, StatusOf, SegmentOf

(* What spawning and ending one walk does to the walks that are owed.      *)
LEMMA OwedAfterSpawn ==
    ASSUME TypeOK, NEW r \in Runs, NEW g \in Gens, Spawn(r, g)
    PROVE  Owed' = [Owed EXCEPT ![r] = @ \cup {g}]
<1>1. \A q \in Runs, h \in Gens :
          walk'[<<q, h>>].pc = IF q = r /\ h = g THEN "spawned" ELSE walk[<<q, h>>].pc
    BY WalksFacts DEF Spawn, TypeOK, WalkType
<1>2. \A q \in Runs : Owed'[q] = IF q = r THEN Owed[q] \cup {g} ELSE Owed[q]
    BY <1>1 DEF Owed
<1>. QED
    BY <1>2 DEF Owed

(* A walk that ends owes its run nothing more.                             *)
LEMMA OwedAfterEnd ==
    ASSUME TypeOK, NEW w \in Walks, EndWalk(w)
    PROVE  Owed' = [Owed EXCEPT ![RunOf(w)] = @ \ {w[2]}]
<1>1. \A q \in Runs, h \in Gens :
          walk'[<<q, h>>].pc = IF q = RunOf(w) /\ h = w[2] THEN "done"
                                                           ELSE walk[<<q, h>>].pc
    BY WalksFacts DEF EndWalk, TypeOK, DoneWalk, IdleWalk
<1>2. \A q \in Runs : Owed'[q] = IF q = RunOf(w) THEN Owed[q] \ {w[2]} ELSE Owed[q]
    BY <1>1 DEF Owed
<1>. QED
    BY <1>2 DEF Owed

(* A row written in its segment changes one status of the abstract runs.   *)
LEMMA OneStatus ==
    ASSUME TypeOK, NEW r \in Runs, NEW nw, row' = [row EXCEPT ![r] = nw],
           nw.segment = row[r].segment
    PROVE  /\ StatusOf' = [StatusOf EXCEPT ![r] = nw.status]
           /\ SegmentOf' = SegmentOf
BY DEF TypeOK, StatusOf, SegmentOf

(* The first states are first states of the lifecycle.                     *)
LEMMA InitRefines == Init => Lifecycle!Init
BY DEF Init, Lifecycle!Init, NewRow, Owed, IdleWalk, Walks

(* A start begins a run.                                                   *)
LEMMA StartRefines ==
    ASSUME IInv, NEW r \in Runs, Start(r)
    PROVE  Lifecycle!Begin(r)
<1>. USE DEF IInv
<1>1. row[r] \in RowType /\ Started(row[r]).segment = row[r].segment
             /\ Started(row[r]).status = "running"
    BY DEF TypeOK, RowType, Started
<1>2. StatusOf' = [StatusOf EXCEPT ![r] = "running"] /\ SegmentOf' = SegmentOf
    BY <1>1, OneStatus DEF Start
<1>3. \/ Owed' = [Owed EXCEPT ![r] = @ \cup {0}]
      \/ Faults \cap Strands # {} /\ Owed' = Owed
    BY OwedAfterSpawn, GensFacts DEF Start, SpawnOrGone, Strands, Owed
<1>. QED
    BY <1>2, <1>3 DEF Start, Lifecycle!Begin, Lifecycle!Becomes, Lifecycle!Owe,
       StatusOf, SegmentOf

(* The last step of a walk leaves the record in one of the ways the        *)
(* lifecycle lists.                                                        *)
LEMMA EndRefines ==
    ASSUME IInv, NEW w \in Walks, EndWalk(w), Alive(walk[w].pc),
           NEW nw, row' = [row EXCEPT ![RunOf(w)] = nw],
           nw.segment = row[RunOf(w)].segment,
           \/ nw.status \in {"complete", "failed"}
           \/ row[RunOf(w)].status = "running" /\ nw.status = "paused"
           \/ row[RunOf(w)].status \in {"running", "paused"} /\ nw.status = "cancelled"
           \/ /\ nw.status = row[RunOf(w)].status
              /\ row[RunOf(w)].status = "running" /\ w[2] = row[RunOf(w)].segment
                    => Faults \cap Strands # {}
    PROVE  Lifecycle!Next
<1>. DEFINE r == RunOf(w)  g == w[2]
<1>1. r \in Runs /\ g \in Gens /\ g \in Owed[r]
    BY WalksFacts DEF Owed, Alive
<1>2. StatusOf' = [StatusOf EXCEPT ![r] = nw.status] /\ SegmentOf' = SegmentOf
    BY <1>1, OneStatus DEF IInv
<1>3. Owed' = [Owed EXCEPT ![r] = @ \ {g}]
    BY OwedAfterEnd DEF IInv
<1>4. nw.status = row[r].status => StatusOf' = StatusOf
    BY <1>1, <1>2 DEF StatusOf
<1>5. StatusOf[r] = row[r].status /\ SegmentOf[r] = row[r].segment
    BY <1>1 DEF StatusOf, SegmentOf
<1>6. Lifecycle!Leave(r, g)
    BY <1>1, <1>2, <1>3, <1>4, <1>5
    DEF Lifecycle!Leave, Lifecycle!Becomes, StatusOf, SegmentOf
<1>. QED
    BY <1>1, <1>6 DEF Lifecycle!Next

(* The last write of a walk is a step of the lifecycle.                    *)
LEMMA WriteEndRefines ==
    ASSUME IInv, NEW w \in Walks, WriteEnd(w)
    PROVE  Lifecycle!Next
<1>. DEFINE rw == row[RunOf(w)]
<1>. USE DEF IInv
<1>1. /\ rw \in RowType /\ RunOf(w) \in Runs
      /\ EndWalk(w) /\ Alive(walk[w].pc)
    BY WalksFacts DEF TypeOK, WriteEnd, Alive
<1>2. ASSUME row' = [row EXCEPT ![RunOf(w)] = Conclude(w)]
      PROVE  Lifecycle!Next
    <2>1. /\ Conclude(w).segment = rw.segment
          /\ \/ Conclude(w).status \in {"complete", "failed"}
             \/ rw.status = "running" /\ Conclude(w).status = "paused"
             \/ rw.status \in {"running", "paused"} /\ Conclude(w).status = "cancelled"
             \/ Conclude(w).status = rw.status
        BY <1>1 DEF Conclude, Finished, PausedRow, CancelledRow, PauseApplies,
           CancelApplies, CancellableFrom, RowType
    <2>2. rw.status = "running" /\ w[2] = rw.segment /\ Conclude(w).status = rw.status
              => Faults \cap Strands # {}
        BY <1>1, <1>2, OwnConclusion DEF Sound, TypeOK
    <2>. QED
        BY <1>1, <1>2, <2>1, <2>2, EndRefines
<1>3. ASSUME "write" \in Faults, UNCHANGED row
      PROVE  Lifecycle!Next
    <2>1. row' = [row EXCEPT ![RunOf(w)] = rw] /\ Faults \cap Strands # {}
        BY <1>3 DEF TypeOK, Strands
    <2>. QED
        BY <1>1, <2>1, EndRefines
<1>. QED
    BY <1>2, <1>3 DEF WriteEnd

(* A step of a walk is a step of the lifecycle, or none.                   *)
LEMMA WalkStepRefines ==
    ASSUME IInv, NEW w \in Walks, WalkStep(w) \/ IntervalFlush(w) \/ Panic(w)
    PROVE  Lifecycle!Next \/ UNCHANGED Lifecycle!lifecycle
<1>. DEFINE rw == row[RunOf(w)]
<1>. USE DEF IInv
<1>1. rw \in RowType /\ RunOf(w) \in Runs /\ walk[w] \in WalkType
    BY WalksFacts DEF TypeOK
<1>2. ASSUME EndWalk(w), UNCHANGED row, Alive(walk[w].pc),
             rw.status # "running" \/ Faults \cap Strands # {}
      PROVE  Lifecycle!Next
    <2>1. row' = [row EXCEPT ![RunOf(w)] = rw]
        BY <1>2 DEF TypeOK
    <2>. QED
        BY <1>2, <2>1, EndRefines
<1>3. ASSUME NEW pc, walk'[w].pc = pc, walk' = [walk EXCEPT ![w] = walk'[w]],
             Alive(pc), Alive(walk[w].pc), UNCHANGED row \/ Flush(w)
      PROVE  UNCHANGED Lifecycle!lifecycle
    <2>1. \A v \in Walks : Alive(walk'[v].pc) <=> Alive(walk[v].pc)
        BY <1>3 DEF TypeOK
    <2>2. \A r \in Runs : row'[r].status = row[r].status
                       /\ row'[r].segment = row[r].segment
        BY <1>1, <1>3 DEF Flush, WithProgress, TypeOK, RowType
    <2>. QED
        BY <2>1, <2>2, Stutter
<1>4. ASSUME NEW pc, SetWalk(w, pc)
      PROVE  walk'[w].pc = pc /\ walk' = [walk EXCEPT ![w] = walk'[w]]
    BY <1>1, <1>4 DEF SetWalk, TypeOK, WalkType
<1>5. CASE Open(w)
    BY <1>3, <1>4, <1>5 DEF Open, Alive
<1>6. CASE ReadRow(w)
    <2>1. CASE EndWalk(w)
        BY <1>1, <1>2, <1>6, <2>1 DEF ReadRow, Alive, EndWalk, DoneWalk,
           IdleWalk, SetWalk, TypeOK, WalkType
    <2>2. CASE SetWalk(w, "listing")
        BY <1>3, <1>4, <1>6, <2>2 DEF ReadRow, Alive
    <2>3. CASE walk' = [walk EXCEPT ![w].pc = "listing",
                                    ![w].known = row[RunOf(w)].segment]
        <3>1. walk'[w].pc = "listing" /\ walk' = [walk EXCEPT ![w] = walk'[w]]
            BY <1>1, <2>3 DEF TypeOK, WalkType
        <3>. QED
            BY <1>3, <1>6, <3>1 DEF ReadRow, Alive
    <2>. QED
        BY <1>6, <2>1, <2>2, <2>3 DEF ReadRow
<1>7. CASE Discover(w)
    <2>1. CASE SetWalk(w, "failing")
        BY <1>3, <1>4, <1>7, <2>1 DEF Discover, Alive
    <2>2. CASE walk' = [walk EXCEPT ![w].pc = "flushing", ![w].halted = TRUE,
                                    ![w].stop = walk[w].signal]
        <3>1. walk'[w].pc = "flushing" /\ walk' = [walk EXCEPT ![w] = walk'[w]]
            BY <1>1, <2>2 DEF TypeOK, WalkType
        <3>. QED
            BY <1>3, <1>7, <3>1 DEF Discover, Alive
    <2>3. CASE walk' = [walk EXCEPT ![w].pc = "starting",
                                    ![w].phase = "processing"]
        <3>1. walk'[w].pc = "starting" /\ walk' = [walk EXCEPT ![w] = walk'[w]]
            BY <1>1, <2>3 DEF TypeOK, WalkType
        <3>. QED
            BY <1>3, <1>7, <3>1 DEF Discover, Alive
    <2>. QED
        BY <1>7, <2>1, <2>2, <2>3 DEF Discover
<1>8. CASE FirstFlush(w)
    BY <1>3, <1>4, <1>8 DEF FirstFlush, Alive
<1>9. CASE IntervalFlush(w)
    <2>1. walk' = [walk EXCEPT ![w] = walk'[w]]
        BY <1>9 DEF IntervalFlush, TypeOK
    <2>. QED
        BY <1>3, <1>9, <2>1 DEF IntervalFlush, Alive
<1>10. CASE HaltEntry(w)
    BY <1>1, <1>3, <1>10 DEF HaltEntry, Alive, TypeOK, WalkType
<1>11. CASE Drain(w)
    <2>1. walk'[w].pc = "flushing" /\ walk' = [walk EXCEPT ![w] = walk'[w]]
        BY <1>1, <1>11 DEF Drain, TypeOK, WalkType
    <2>. QED
        BY <1>3, <1>11, <2>1 DEF Drain, Alive
<1>12. CASE FinalFlush(w)
    BY <1>3, <1>4, <1>12 DEF FinalFlush, Alive
<1>13. CASE DropCell(w)
    BY <1>3, <1>4, <1>13 DEF DropCell, Alive
<1>14. CASE WriteEnd(w)
    BY <1>14, WriteEndRefines
<1>15. CASE WriteFailed(w)
    <2>1. FailedRow(rw).status = "failed" /\ FailedRow(rw).segment = rw.segment
        BY <1>1 DEF FailedRow, RowType
    <2>2. CASE row' = [row EXCEPT ![RunOf(w)] = FailedRow(@)]
        BY <1>15, <2>1, <2>2, EndRefines DEF WriteFailed, Alive
    <2>3. CASE "write" \in Faults /\ UNCHANGED row
        BY <1>2, <1>15, <2>3 DEF WriteFailed, Alive, Strands
    <2>. QED
        BY <1>15, <2>2, <2>3 DEF WriteFailed
<1>16. CASE Panic(w)
    BY <1>2, <1>16 DEF Panic, Alive, Strands, HoldsCell, Exits
<1>. QED
    BY <1>5, <1>6, <1>7, <1>8, <1>9, <1>10, <1>11, <1>12, <1>13, <1>14, <1>15,
       <1>16 DEF WalkStep

(* A pause that applies is a step of the lifecycle.                        *)
LEMMA PauseRefines ==
    ASSUME IInv, NEW r \in Runs, PauseApplies(row[r], Waived), UNCHANGED walk,
           row' = [row EXCEPT ![r] = PausedRow(@)]
    PROVE  Lifecycle!Next
<1>1. row[r] \in RowType
    BY DEF IInv, TypeOK
<1>2. PausedRow(row[r]).status = "paused" /\ PausedRow(row[r]).segment = row[r].segment
    BY <1>1 DEF PausedRow, RowType
<1>3. StatusOf' = [StatusOf EXCEPT ![r] = "paused"] /\ SegmentOf' = SegmentOf
    BY <1>2, OneStatus DEF IInv
<1>4. Owed' = Owed
    BY DEF Owed
<1>5. Lifecycle!Pause(r)
    BY <1>3, <1>4 DEF PauseApplies, Lifecycle!Pause, Lifecycle!Becomes,
       StatusOf, SegmentOf
<1>. QED
    BY <1>5 DEF Lifecycle!Next

(* So is a cancel that applies.                                            *)
LEMMA CancelRefines ==
    ASSUME IInv, NEW r \in Runs, CancelApplies(row[r], "none", Waived),
           UNCHANGED walk, row' = [row EXCEPT ![r] = CancelledRow(@, "none")]
    PROVE  Lifecycle!Next
<1>1. row[r] \in RowType
    BY DEF IInv, TypeOK
<1>2. /\ CancelledRow(row[r], "none").status = "cancelled"
      /\ CancelledRow(row[r], "none").segment = row[r].segment
    BY <1>1 DEF CancelledRow, RowType
<1>3. StatusOf' = [StatusOf EXCEPT ![r] = "cancelled"] /\ SegmentOf' = SegmentOf
    BY <1>2, OneStatus DEF IInv
<1>4. Owed' = Owed
    BY DEF Owed
<1>5. Lifecycle!Cancel(r)
    BY <1>3, <1>4 DEF CancelApplies, CancellableFrom, Lifecycle!Cancel,
       Lifecycle!Becomes, StatusOf, SegmentOf
<1>. QED
    BY <1>5 DEF Lifecycle!Next

(* So is a resume of a paused run.                                         *)
LEMMA ResumeRefines ==
    ASSUME IInv, NEW r \in Runs, row[r].status = "paused",
           row[r].segment < MaxSegment,
           row' = [row EXCEPT ![r] = ResumedRow(@)],
           SpawnOrGone(r, row[r].segment + 1)
    PROVE  Lifecycle!Next
<1>1. row[r] \in RowType /\ row[r].segment + 1 \in Gens
    BY GensFacts DEF IInv, TypeOK, RowType
<1>2. ResumedRow(row[r]).status = "running" /\ ResumedRow(row[r]).segment = row[r].segment + 1
    BY <1>1 DEF ResumedRow, RowType
<1>3. /\ StatusOf' = [StatusOf EXCEPT ![r] = "running"]
      /\ SegmentOf' = [SegmentOf EXCEPT ![r] = @ + 1]
    BY <1>2 DEF IInv, TypeOK, StatusOf, SegmentOf
<1>4. \/ Owed' = [Owed EXCEPT ![r] = @ \cup {row[r].segment + 1}]
      \/ Faults \cap Strands # {} /\ Owed' = Owed
    <2>1. CASE Spawn(r, row[r].segment + 1)
        BY <1>1, <2>1, OwedAfterSpawn DEF IInv
    <2>2. CASE "gone" \in Faults /\ UNCHANGED walk
        BY <2>2 DEF Strands, Owed
    <2>. QED
        BY <2>1, <2>2 DEF SpawnOrGone
<1>5. Lifecycle!Resume(r)
    BY <1>3, <1>4 DEF Lifecycle!Resume, Lifecycle!Becomes, Lifecycle!Owe,
       StatusOf, SegmentOf
<1>. QED
    BY <1>5 DEF Lifecycle!Next

(* Every step of a call is a step of the lifecycle, or none.               *)
LEMMA CallStepRefines ==
    ASSUME IInv, NEW c \in Callers, CallStep(c)
    PROVE  Lifecycle!Next \/ UNCHANGED Lifecycle!lifecycle
<1>. USE DEF IInv
<1>1. call[c].run \in Runs
    BY DEF TypeOK, CallType
<1>2. CASE UNCHANGED <<row, walk>>
    BY <1>2, Stutter
<1>3. CASE CheckRegistry(c)
    <2>1. ASSUME NEW w, NEW x, walk' = [walk EXCEPT ![w].signal = x],
                 NEW v \in Walks
          PROVE  walk'[v].pc = walk[v].pc
        BY <2>1 DEF TypeOK, WalkType
    <2>2. \A v \in Walks : walk'[v].pc = walk[v].pc
        BY <1>3, <2>1 DEF CheckRegistry
    <2>. QED
        BY <1>3, <2>2, Stutter DEF CheckRegistry
<1>4. CASE WriteStop(c) /\ ~UNCHANGED row
    <2>1. /\ StopApplies(c) /\ UNCHANGED walk
          /\ row' = [row EXCEPT ![call[c].run] =
                        IF call[c].verb = "pause" THEN PausedRow(@)
                                                  ELSE CancelledRow(@, "none")]
        BY <1>4 DEF WriteStop
    <2>. QED
        BY <1>1, <2>1, PauseRefines, CancelRefines DEF StopApplies
<1>5. CASE WriteResume(c) /\ ~UNCHANGED <<row, walk>>
    BY <1>1, <1>5, ResumeRefines DEF WriteResume
<1>. QED
    BY <1>2, <1>3, <1>4, <1>5 DEF CallStep, WriteStop, Overlay

(* A restart recovers the running runs.                                    *)
LEMMA RestartRefines ==
    ASSUME IInv, Restart
    PROVE  Lifecycle!Recover
<1>. USE DEF IInv
<1>1. Owed' = [r \in Runs |-> {}]
    BY WalksFacts DEF Restart, Owed, DoneWalk, IdleWalk
<1>2. \A r \in Runs :
          /\ Reconciled(row[r]).segment = row[r].segment
          /\ Reconciled(row[r]).status =
                IF row[r].status = "running" THEN "paused" ELSE row[r].status
    BY DEF Reconciled, TypeOK, RowType
<1>3. SegmentOf' = SegmentOf
    BY <1>2 DEF Restart, SegmentOf
<1>4. \/ StatusOf' = [r \in Runs |->
                         IF StatusOf[r] = "running" THEN "paused" ELSE StatusOf[r]]
      \/ Faults \cap Strands # {} /\ StatusOf' = StatusOf
    BY <1>2 DEF Restart, StatusOf, Strands
<1>. QED
    BY <1>1, <1>3, <1>4 DEF Lifecycle!Recover, StatusOf, SegmentOf

(* Every step is a step of the lifecycle, or none.                         *)
LEMMA NextRefines ==
    IInv /\ [Next]_vars => [Lifecycle!Next]_(Lifecycle!lifecycle)
<1>. SUFFICES ASSUME IInv, [Next]_vars
              PROVE  Lifecycle!Next \/ UNCHANGED Lifecycle!lifecycle
    OBVIOUS
<1>1. CASE UNCHANGED <<row, walk>>
    BY <1>1, Stutter
<1>2. ASSUME NEW r \in Runs, Start(r)
      PROVE  Lifecycle!Next
    BY <1>2, StartRefines DEF Lifecycle!Next
<1>3. CASE Restart
    BY <1>3, RestartRefines DEF Lifecycle!Next
<1>. QED
    BY <1>1, <1>2, <1>3, WalkStepRefines, CallStepRefines DEF Next, Lookup, vars

(* RunControl implements the lifecycle of a run's record, for every bound  *)
(* and every set of faults.                                                *)
THEOREM RefinementTheorem == Spec => FollowsLifecycle
BY InitRefines, NextRefines, Invariance, PTL DEF Spec, FollowsLifecycle, Lifecycle!Spec
=============================================================================
