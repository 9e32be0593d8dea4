----------------------------- MODULE RunControl -----------------------------
(***************************************************************************)
(* Run control: how a catalog run (an index or a refresh) is started,      *)
(* walked, paused, cancelled, resumed, closed and recovered after a        *)
(* restart.                                                                *)
(*                                                                         *)
(* Three kinds of actor share the state.  Walks are the background tasks   *)
(* that run IndexHandler::execute or RefreshHandler::execute; callers are  *)
(* the HTTP and FFI requests for a run; the restart is the process ending  *)
(* and coming back.  A walk and a caller meet in two places: the row of    *)
(* the run in the catalog_runs table, and the cell of the run in the       *)
(* in-memory RunRegistry.  Every await of the code is a boundary between   *)
(* two actions, so callers and walks interleave wherever the code lets     *)
(* them.                                                                   *)
(***************************************************************************)
EXTENDS Integers

CONSTANTS
    Runs,        \* ids of runs
    Callers,     \* API requests that may be in flight at the same time
    MaxSegment,  \* bound on the resumes of one run
    Verbs,       \* what callers ask: a subset of AllVerbs
    Faults       \* what may go wrong: a subset of FaultKinds

-----------------------------------------------------------------------------
(* Types *)

ControlVerbs == {"pause", "cancel"}
AllVerbs == ControlVerbs \cup {"resume", "status"}

(* read   the walk's SELECT of its own row fails after its retries         *)
(* list   discovery fails: the root cannot be listed, or list_all fails    *)
(* flush  a progress flush is not written                                  *)
(* write  a closing write of a walk, or a caller's write, fails after its  *)
(*        retries                                                          *)
(* panic  a walk's task ends without reaching its closing write            *)
(* gone   the request that starts or resumes a run is dropped after its    *)
(*        write and before it spawns the walk                              *)
(* crash  the process ends and is started again                            *)
(* boot   the reconciliation at startup fails                              *)
FaultKinds == {"read", "list", "flush", "write", "panic", "gone", "crash", "boot"}

ASSUME SegmentAssumption == MaxSegment \in Nat
ASSUME VerbsAssumption == Verbs \subseteq AllVerbs
ASSUME FaultsAssumption == Faults \subseteq FaultKinds

Live == {"running", "paused"}
Closed == {"complete", "failed", "cancelled"}
Statuses == {"absent"} \cup Live \cup Closed

(* The codes of RunSignal, which raise compares. *)
NoSignal == 0
PauseSignal == 1
CancelSignal == 2
Signals == NoSignal..CancelSignal

SignalOf(verb) == IF verb = "pause" THEN PauseSignal ELSE CancelSignal

Phases == {"none", "discovering", "processing"}

Gens == 0..MaxSegment
NoCell == -1
Waived == -1

(* The walk spawned for segment g of run r.  A run's segments are numbered *)
(* by its resumes and each spawns one walk, so the pair names the task.    *)
Walks == Runs \X Gens
RunOf(w) == w[1]

(* Where a walk stands in execute.                                         *)
Exits == {"writing", "failing"}
HoldsCell == {"opened", "listing", "starting", "working", "flushing", "closing"}
WalkPCs == {"idle", "spawned", "done"} \cup HoldsCell \cup Exits

RowType == [status : Statuses, phase : Phases, segment : Gens,
            finished : BOOLEAN, pausedAt : BOOLEAN,
            tally : {"none", "partial", "whole"}]

WalkType == [pc : WalkPCs, known : Gens \cup {Waived}, signal : Signals,
             stop : Signals, phase : Phases, halted : BOOLEAN]

CallType == [pc : {"idle", "check", "write", "overlay", "answered"},
             verb : AllVerbs, run : Runs,
             status : Statuses, phase : Phases]  \* the view of a status query

VARIABLES
    row,    \* the catalog_runs table
    cell,   \* the registry: which walk's cell is registered for a run
    walk,   \* the background tasks, with the cell each has opened
    call,   \* the requests in flight
    acked   \* history: the stops answered Ok and still in force for a run

vars == <<row, cell, walk, call, acked>>

TypeOK ==
    /\ row \in [Runs -> RowType]
    /\ cell \in [Runs -> Gens \cup {NoCell}]
    /\ walk \in [Walks -> WalkType]
    /\ call \in [Callers -> CallType]
    /\ acked \in [Runs -> SUBSET AllVerbs]

-----------------------------------------------------------------------------
(* The statements of CatalogRunRepository, as functions of a row. *)

NewRow == [status |-> "absent", phase |-> "none", segment |-> 0,
           finished |-> FALSE, pausedAt |-> FALSE, tally |-> "none"]

Started(rw) == [rw EXCEPT !.status = "running"]

Finished(rw, tally) ==
    [rw EXCEPT !.status = "complete", !.finished = TRUE, !.phase = "none",
               !.tally = tally]

FailedRow(rw) ==
    [rw EXCEPT !.status = "failed", !.finished = TRUE, !.phase = "none"]

SegmentGuardTrue(rw, expected) == TRUE
SegmentGuardNext(rw, expected) == expected = Waived \/ rw.segment = expected + 1

(* A WHERE clause: NULL waives the segment, a walk's own segment pins it. *)
SegmentGuard(rw, expected) == expected = Waived \/ rw.segment = expected

PauseAppliesAnyStatus(rw, expected) == SegmentGuard(rw, expected)

PauseApplies(rw, expected) ==
    rw.status = "running" /\ SegmentGuard(rw, expected)

PausedRow(rw) == [rw EXCEPT !.status = "paused", !.pausedAt = TRUE]

CancellableFrom(tally) ==
    IF tally = "none" THEN {"running", "paused"}
                      ELSE {"running", "paused", "cancelled"}

CancelApplies(rw, tally, expected) ==
    rw.status \in CancellableFrom(tally) /\ SegmentGuard(rw, expected)

CancelledRow(rw, tally) ==
    [rw EXCEPT !.status = "cancelled", !.finished = TRUE, !.phase = "none",
               !.tally = IF tally = "none" THEN @ ELSE tally]

ResumedRowKeepsPausedAt(rw) ==
    [rw EXCEPT !.status = "running", !.phase = "discovering", !.segment = @ + 1]

ResumedRow(rw) ==
    [rw EXCEPT !.status = "running", !.pausedAt = FALSE,
               !.phase = "discovering", !.segment = @ + 1]

WithProgress(rw, phase) == [rw EXCEPT !.phase = phase]

ReconciledNever(rw) == rw

(* pause_running: every running row, whoever may be walking it. *)
Reconciled(rw) ==
    IF rw.status = "running"
    THEN [rw EXCEPT !.status = "paused", !.pausedAt = TRUE, !.phase = "none"]
    ELSE rw

-----------------------------------------------------------------------------
(* The registry *)

RaiseAdds(old, new) == old + new

(* RunCell::raise is fetch_max: a signal never becomes less severe. *)
Raise(old, new) == IF new > old THEN new ELSE old

CloseForgets(w) == cell
CloseById(w) == [cell EXCEPT ![RunOf(w)] = NoCell]

(* close_if_owned: a guard removes the registered cell only when it is the *)
(* guard's own.                                                            *)
Close(w) ==
    IF cell[RunOf(w)] = w[2] THEN [cell EXCEPT ![RunOf(w)] = NoCell] ELSE cell

IdleWalk == [pc |-> "idle", known |-> Waived, signal |-> NoSignal,
             stop |-> NoSignal, phase |-> "discovering", halted |-> FALSE]

IdleCall(r) == [pc |-> "idle", verb |-> "status", run |-> r,
                status |-> "absent", phase |-> "none"]

Init ==
    /\ row = [r \in Runs |-> NewRow]
    /\ cell = [r \in Runs |-> NoCell]
    /\ walk = [w \in Walks |-> IdleWalk]
    /\ call \in [Callers -> {IdleCall(r) : r \in Runs}]
    /\ acked = [r \in Runs |-> {}]

Spawn(r, g) == walk' = [walk EXCEPT ![<<r, g>>].pc = "spawned"]

(* The transport either spawns the walk of the write it has just made, or  *)
(* was dropped in between and never will.                                  *)
SpawnOrGone(r, g) ==
    \/ Spawn(r, g)
    \/ "gone" \in Faults /\ UNCHANGED walk

(* IndexHandler::start or RefreshHandler::start, and the transport's spawn *)
Start(r) ==
    /\ row[r].status = "absent"
    /\ row' = [row EXCEPT ![r] = Started(@)]
    /\ SpawnOrGone(r, 0)
    /\ UNCHANGED <<cell, call, acked>>

-----------------------------------------------------------------------------
(* Walks: one action per await of execute. *)

SetWalk(w, pc) == walk' = [walk EXCEPT ![w].pc = pc]

(* The task has returned, or was dropped: its locals are gone with it. *)
DoneWalk == [IdleWalk EXCEPT !.pc = "done"]
EndWalk(w) == walk' = [walk EXCEPT ![w] = DoneWalk]

(* RunRegistry::open: a fresh cell replaces whatever was registered. *)
Open(w) ==
    /\ walk[w].pc = "spawned"
    /\ cell' = [cell EXCEPT ![RunOf(w)] = w[2]]
    /\ SetWalk(w, "opened")
    /\ UNCHANGED <<row, call, acked>>

(* The walk's SELECT of its own row.  A row that is no longer running ends *)
(* the walk; a read that fails leaves it walking with no segment to match. *)
ReadRow(w) ==
    LET r == RunOf(w) IN
    /\ walk[w].pc = "opened"
    /\ \/ /\ row[r].status # "running"
          /\ cell' = Close(w)
          /\ EndWalk(w)
       \/ /\ row[r].status = "running"
          /\ walk' = [walk EXCEPT ![w].pc = "listing",
                                  ![w].known = row[r].segment]
          /\ UNCHANGED cell
       \/ /\ "read" \in Faults
          /\ SetWalk(w, "listing")
          /\ UNCHANGED cell
    /\ UNCHANGED <<row, call, acked>>

(* Discovery.  The signal is looked at once when it returns: a run stopped *)
(* here has processed nothing and keeps its phase at discovering.          *)
Discover(w) ==
    /\ walk[w].pc = "listing"
    /\ \/ /\ "list" \in Faults
          /\ cell' = Close(w)
          /\ SetWalk(w, "failing")
       \/ /\ walk[w].signal # NoSignal
          /\ walk' = [walk EXCEPT ![w].pc = "flushing", ![w].halted = TRUE,
                                  ![w].stop = walk[w].signal]
          /\ UNCHANGED cell
       \/ /\ walk[w].signal = NoSignal
          /\ walk' = [walk EXCEPT ![w].pc = "starting",
                                  ![w].phase = "processing"]
          /\ UNCHANGED cell
    /\ UNCHANGED <<row, call, acked>>

(* flush_progress: an UPDATE with no guard, whose failure is swallowed. *)
Flush(w) ==
    LET r == RunOf(w) IN
    \/ row' = [row EXCEPT ![r] = WithProgress(@, walk[w].phase)]
    \/ "flush" \in Faults /\ UNCHANGED row

FirstFlush(w) ==
    /\ walk[w].pc = "starting"
    /\ Flush(w)
    /\ SetWalk(w, "working")
    /\ UNCHANGED <<cell, call, acked>>

(* The fold crossing the flush interval after an entry. *)
IntervalFlush(w) ==
    /\ walk[w].pc = "working"
    /\ Flush(w)
    /\ UNCHANGED <<cell, walk, call, acked>>

(* An entry reached with a signal raised is not processed. *)
HaltEntry(w) ==
    /\ walk[w].pc = "working"
    /\ walk[w].signal # NoSignal
    /\ walk' = [walk EXCEPT ![w].halted = TRUE]
    /\ UNCHANGED <<row, cell, call, acked>>

DrainUnsignalled(w) ==
    /\ walk[w].pc = "working"
    /\ walk' = [walk EXCEPT ![w].pc = "flushing"]
    /\ UNCHANGED <<row, cell, call, acked>>

(* The stream is exhausted, every entry processed or halted, and the       *)
(* signal is read for the last time.                                       *)
Drain(w) ==
    /\ walk[w].pc = "working"
    /\ walk' = [walk EXCEPT ![w].pc = "flushing",
                            ![w].stop = walk[w].signal]
    /\ UNCHANGED <<row, cell, call, acked>>

FinalFlush(w) ==
    /\ walk[w].pc = "flushing"
    /\ Flush(w)
    /\ SetWalk(w, "closing")
    /\ UNCHANGED <<cell, call, acked>>

DropCellForgets(w) ==
    /\ walk[w].pc = "closing"
    /\ SetWalk(w, "writing")
    /\ UNCHANGED <<row, cell, call, acked>>

(* The guard is dropped before the closing write, so that nobody can       *)
(* overlay a live cell on a run that has already stopped.                  *)
DropCell(w) ==
    /\ walk[w].pc = "closing"
    /\ cell' = Close(w)
    /\ SetWalk(w, "writing")
    /\ UNCHANGED <<row, call, acked>>

Tally(w) == IF walk[w].halted THEN "partial" ELSE "whole"

(* finish for a walk nobody stopped, record_halt for one that was: the     *)
(* first is unconditional, the second conditional on status and segment.   *)
Conclude(w) ==
    LET r == RunOf(w)
        rw == row[r]
    IN
    CASE walk[w].stop = NoSignal -> Finished(rw, Tally(w))
      [] walk[w].stop = PauseSignal ->
            IF PauseApplies(rw, walk[w].known) THEN PausedRow(rw) ELSE rw
      [] OTHER ->
            IF CancelApplies(rw, Tally(w), walk[w].known)
            THEN CancelledRow(rw, Tally(w)) ELSE rw

WriteEnd(w) ==
    /\ walk[w].pc = "writing"
    /\ \/ row' = [row EXCEPT ![RunOf(w)] = Conclude(w)]
       \/ "write" \in Faults /\ UNCHANGED row
    /\ EndWalk(w)
    /\ UNCHANGED <<cell, call, acked>>

(* fail: unconditional too. *)
WriteFailed(w) ==
    /\ walk[w].pc = "failing"
    /\ \/ row' = [row EXCEPT ![RunOf(w)] = FailedRow(@)]
       \/ "write" \in Faults /\ UNCHANGED row
    /\ EndWalk(w)
    /\ UNCHANGED <<cell, call, acked>>

(* A panic or an abort: the guard's Drop closes the cell, and nothing      *)
(* writes the row.                                                         *)
Panic(w) ==
    /\ "panic" \in Faults
    /\ walk[w].pc \in HoldsCell \cup Exits
    /\ cell' = IF walk[w].pc \in HoldsCell THEN Close(w) ELSE cell
    /\ EndWalk(w)
    /\ UNCHANGED <<row, call, acked>>

WalkStep(w) ==
    \/ Open(w) \/ ReadRow(w) \/ Discover(w) \/ FirstFlush(w)
    \/ HaltEntry(w) \/ Drain(w) \/ FinalFlush(w) \/ DropCell(w)
    \/ WriteEnd(w) \/ WriteFailed(w)

-----------------------------------------------------------------------------
(* Callers: RunControlHandler::{pause, cancel, resume} and the status      *)
(* query.  Authentication comes first in each and changes nothing.         *)

Permits(verb, status) ==
    \/ verb = "pause" /\ status = "running"
    \/ verb = "cancel" /\ status \in {"running", "paused"}
    \/ verb = "resume" /\ status = "paused"
    \/ verb = "status"

NextPC(verb) ==
    IF verb \in ControlVerbs THEN "check"
    ELSE IF verb = "resume" THEN "write" ELSE "overlay"

Asked(verb, r) == [IdleCall(r) EXCEPT !.verb = verb, !.pc = NextPC(verb)]

(* The SELECT every verb starts with.  A transition the status it read     *)
(* does not permit is refused, and changes nothing.                        *)
Lookup(c, verb, r) ==
    /\ call[c].pc \in {"idle", "answered"}
    /\ row[r].status # "absent"
    /\ Permits(verb, row[r].status)
    /\ verb = "resume" => row[r].segment < MaxSegment
    /\ call' = [call EXCEPT ![c] =
          IF verb = "status"
          THEN [Asked(verb, r) EXCEPT !.status = row[r].status,
                                      !.phase = row[r].phase]
          ELSE Asked(verb, r)]
    /\ UNCHANGED <<row, cell, walk, acked>>

(* The request is answered, Ok or not, and gone. *)
Answer(c) == call' = [call EXCEPT ![c] = IdleCall(@.run)]

Acknowledge(r, verb) == acked' = [acked EXCEPT ![r] = @ \cup {verb}]

(* A registered cell is signalled, and that is the whole job; with none,   *)
(* the caller goes on to write the row itself.                             *)
CheckRegistry(c) ==
    LET r == call[c].run
        w == <<r, cell[r]>>
    IN
    /\ call[c].pc = "check"
    /\ \/ /\ cell[r] # NoCell
          /\ walk' = [walk EXCEPT ![w].signal =
                            Raise(@, SignalOf(call[c].verb))]
          /\ Acknowledge(r, call[c].verb)
          /\ Answer(c)
       \/ /\ cell[r] = NoCell
          /\ call' = [call EXCEPT ![c].pc = "write"]
          /\ UNCHANGED <<walk, acked>>
    /\ UNCHANGED <<row, cell>>

(* The caller's own guarded UPDATE, which waives the segment. *)
StopApplies(c) ==
    LET rw == row[call[c].run] IN
    IF call[c].verb = "pause" THEN PauseApplies(rw, Waived)
                              ELSE CancelApplies(rw, "none", Waived)

WriteStop(c) ==
    LET r == call[c].run IN
    /\ call[c].pc = "write"
    /\ call[c].verb \in ControlVerbs
    /\ \/ /\ StopApplies(c)
          /\ row' = [row EXCEPT ![r] =
                 IF call[c].verb = "pause" THEN PausedRow(@)
                                           ELSE CancelledRow(@, "none")]
          /\ Acknowledge(r, call[c].verb)
          /\ Answer(c)
       \/ /\ ~StopApplies(c)
          /\ Answer(c)
          /\ UNCHANGED <<row, acked>>
       \/ /\ "write" \in Faults
          /\ Answer(c)
          /\ UNCHANGED <<row, acked>>
    /\ UNCHANGED <<cell, walk>>

(* The stops a resume does not supersede: those raised on the cell of a    *)
(* walk that has yet to read which segment it is walking.                  *)
Pending(r) ==
    {verb \in acked[r] : \E g \in Gens :
        /\ walk[<<r, g>>].pc = "opened"
        /\ walk[<<r, g>>].signal = SignalOf(verb)}

(* The UPDATE of resume, and the transport's spawn of the new segment. *)
WriteResume(c) ==
    LET r == call[c].run IN
    /\ call[c].pc = "write"
    /\ call[c].verb = "resume"
    /\ \/ /\ row[r].status = "paused"
          /\ row[r].segment < MaxSegment
          /\ row' = [row EXCEPT ![r] = ResumedRow(@)]
          /\ SpawnOrGone(r, row[r].segment + 1)
          /\ acked' = [acked EXCEPT ![r] = Pending(r)]
          /\ Answer(c)
       \/ /\ row[r].status # "paused"
          /\ Answer(c)
          /\ UNCHANGED <<row, walk, acked>>
       \/ /\ "write" \in Faults
          /\ Answer(c)
          /\ UNCHANGED <<row, walk, acked>>
    /\ UNCHANGED cell

(* overlay_live_state: the row was read first, and a live cell outranks it *)
Overlay(c) ==
    LET r == call[c].run IN
    /\ call[c].pc = "overlay"
    /\ call' = [call EXCEPT ![c].pc = "answered",
            ![c].phase = IF cell[r] = NoCell THEN @ ELSE walk[<<r, cell[r]>>].phase]
    /\ UNCHANGED <<row, cell, walk, acked>>

CallStep(c) == CheckRegistry(c) \/ WriteStop(c) \/ WriteResume(c) \/ Overlay(c)

-----------------------------------------------------------------------------
(* The process ends: tasks, cells and requests are gone, the table is not. *)
(* build_services then reconciles the rows, or fails to and carries on.    *)
Restart ==
    /\ "crash" \in Faults
    /\ walk' = [w \in Walks |->
          IF walk[w].pc = "idle" THEN walk[w] ELSE DoneWalk]
    /\ cell' = [r \in Runs |-> NoCell]
    /\ call' = [c \in Callers |-> IdleCall(call[c].run)]
    /\ \/ row' = [r \in Runs |-> Reconciled(row[r])]
       \/ "boot" \in Faults /\ UNCHANGED row
    /\ UNCHANGED acked

Next ==
    \/ \E r \in Runs : Start(r)
    \/ \E w \in Walks : WalkStep(w) \/ IntervalFlush(w) \/ Panic(w)
    \/ \E c \in Callers :
          \/ \E verb \in Verbs, r \in Runs : Lookup(c, verb, r)
          \/ CallStep(c)
    \/ Restart

(* Tokio polls every spawned task until it completes, and a library is     *)
(* finite, so each walk keeps stepping.  Nothing makes a caller ask, a     *)
(* task panic or the process restart, and a request may be dropped.        *)
Fairness == \A w \in Walks : WF_vars(WalkStep(w))

Spec == Init /\ [][Next]_vars
FairSpec == Spec /\ Fairness

-----------------------------------------------------------------------------
(* Safety *)

(* A registered cell always belongs to a walk that is still holding its    *)
(* guard: no exit of execute, a panic included, leaves a dead run's cell   *)
(* behind for a status query to report as live progress.                   *)
RegistryOwned ==
    \A r \in Runs :
        cell[r] # NoCell => walk[<<r, cell[r]>>].pc \in HoldsCell

(* A row never contradicts itself, whatever order the control calls, the   *)
(* walks' closing writes and the reconciliation land in: a finish time     *)
(* exactly on closed rows, a pause time on paused rows and none on running *)
(* ones, and no tally on a run that can still go on.                       *)
RowShape ==
    \A r \in Runs :
        LET rw == row[r] IN
        /\ rw.finished <=> rw.status \in Closed
        /\ rw.status = "paused" => rw.pausedAt
        /\ rw.status = "running" => ~rw.pausedAt
        /\ rw.status \in Live => rw.tally = "none"

(* A run reads complete only when a walk of it got through every entry: no *)
(* stop that halted an entry can be closed as a completion (finish against *)
(* record_halt at the bottom of execute).                                  *)
CompleteIsWhole ==
    \A r \in Runs : row[r].status = "complete" => row[r].tally = "whole"

(* A row that reads running has, for the segment it is on, a walk that     *)
(* will still close it: no running row is stranded by the refused writes   *)
(* of record_halt, by a pause and a resume in the gap, or by a restart.    *)
(* Failed closing writes, panics, dropped requests and a failed            *)
(* reconciliation do strand one, so it is stated for Faults without them.  *)
Owed == [r \in Runs |->
            {g \in Gens : walk[<<r, g>>].pc \notin {"idle", "done"}}]

Strands == {"write", "panic", "gone", "boot"}

RunningIsOwed ==
    Faults \cap Strands = {} =>
        \A r \in Runs :
            row[r].status = "running" => row[r].segment \in Owed[r]

(* "None again once the run is terminal": a status answered for a closed   *)
(* run carries no phase, neither from its row nor from a live cell. A walk *)
(* drops its cell before its closing write and the status reads its row    *)
(* before the cell, so no order of the two shows both. Excepted are a walk *)
(* that opens its cell over a cancel already written, and a resumed        *)
(* segment that overlaps the end of the one before.                        *)
ViewConsistent ==
    \A c \in Callers :
        (/\ call[c].verb = "status" /\ call[c].pc = "answered"
         /\ call[c].status \in Closed
         /\ row[call[c].run].segment = 0 /\ "cancel" \notin acked[call[c].run])
                => call[c].phase = "none"

-----------------------------------------------------------------------------
(* Action properties *)

(* Only the walk whose cell is registered takes it out, and only on its    *)
(* way out: a stale guard of an earlier segment never evicts the cell of   *)
(* the segment that replaced it (close_if_owned).                          *)
OnlyOwnerCloses ==
    [][\A r \in Runs :
          cell[r] # NoCell /\ cell'[r] = NoCell
              => walk'[<<r, cell[r]>>].pc \notin HoldsCell]_vars

(* A closed run is never reopened, re-paused or moved to another segment,  *)
(* by a late halt, a late control call, a resume or the reconciliation.    *)
ClosedStaysClosed ==
    [][\A r \in Runs :
          row[r].status \in Closed
              => /\ row'[r].status \in Closed
                 /\ row'[r].segment = row[r].segment]_vars

(* A run leaves running for paused, or a live run becomes cancelled, only  *)
(* when a caller was answered Ok for that very stop and no resume has      *)
(* superseded it: a walk's late halt never stops the segment that replaced *)
(* its own (segment_guard). The restart alone pauses unasked; and a walk   *)
(* that could not read its row waives the segment, so this is stated for   *)
(* runs without that fault.                                                *)
HaltsAreAsked ==
    [][\A r \in Runs :
          /\ row[r].status # "paused" /\ row'[r].status = "paused"
                => "pause" \in acked'[r] \/ Restart
          /\ row[r].status # "cancelled" /\ row'[r].status = "cancelled"
                => "cancel" \in acked'[r]]_vars

-----------------------------------------------------------------------------
(* Liveness *)

(* A running row does not read running for ever: its walk completes it,    *)
(* fails it, or records the stop it was given.                             *)
RunningIsTransient ==
    \A r \in Runs : row[r].status = "running" ~> row[r].status # "running"

-----------------------------------------------------------------------------
(* Refinement *)

(* The rows, with every walk, cell, signal and request forgotten, follow   *)
(* the lifecycle: the abstract specification of the catalog_runs record.   *)
Lifecycle == INSTANCE RunLifecycle WITH
    status <- [r \in Runs |-> row[r].status],
    segment <- [r \in Runs |-> row[r].segment],
    owed <- Owed,
    Lossy <- Faults \cap Strands # {}

FollowsLifecycle == Lifecycle!Spec

-----------------------------------------------------------------------------
(* What the docs say and the code does not do *)

(* "Cancelled ... Terminal, exactly like Complete and Failed": a cancelled *)
(* run stays cancelled.                                                    *)
CancelStands ==
    [][\A r \in Runs :
          row[r].status = "cancelled" => row'[r].status = "cancelled"]_vars
=============================================================================
