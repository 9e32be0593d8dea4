-------------------------------- MODULE ReInit --------------------------------
(***************************************************************************)
(* alexandria_index_init called again while the core is in use             *)
(* (alexandria-ffi/src/lib.rs): it looks for live runs, builds a second    *)
(* set of services, whose startup pauses every row that says running, and  *)
(* swaps the slot if no run is live by then. Runs are started meanwhile by *)
(* other threads, each holding the services it fetched from the slot.      *)
(*                                                                         *)
(* One database; a run is started once and not resumed here (RunControl    *)
(* has the rest of its life).                                              *)
(***************************************************************************)
EXTENDS Integers, FiniteSets

CONSTANTS
  Starts,         \* runs that other threads start
  Inits,          \* calls of alexandria_index_init
  MaxServices     \* bound on the services built

ASSUME ReInitAssumption == MaxServices \in Nat \ {0} /\ IsFiniteSet(Starts)

VARIABLES
  slot,           \* SERVICES: which services it holds, 0 for none
  built,          \* services built so far
  begun,          \* each run: the services its starter fetched, its row, its
                  \* walk, and the calls that first looked before it opened
  initCall        \* each call: how far it is, and the services it built

initVars == <<slot, built, begun, initCall>>

NotBegun == [via |-> 0, row |-> "none", walk |-> "none", unseen |-> {}]
NotCalled == [at |-> "idle", services |-> 0]

InitTypeOK ==
  /\ slot \in 0..MaxServices /\ built \in 0..MaxServices
  /\ begun \in [Starts -> [via : 0..MaxServices,
                           row : {"none", "running", "paused", "over"},
                           walk : {"none", "fetched", "spawned", "open", "ended"},
                           unseen : SUBSET Inits]]
  /\ initCall \in [Inits -> [at : {"idle", "looked", "built", "ok", "busy", "failed"},
                             services : 0..MaxServices]]
  /\ slot # 0 => \E i \in Inits : initCall[i] = [at |-> "ok", services |-> slot]

InitInit ==
  /\ slot = 0 /\ built = 0
  /\ begun = [r \in Starts |-> NotBegun]
  /\ initCall = [i \in Inits |-> NotCalled]

\* RunRegistry::live_runs: the cells open in the registry of these services
live_runs(services) ==
  Cardinality({r \in Starts : begun[r].walk = "open" /\ begun[r].via = services})

----------------------------------------------------------------------------
(* A run, from locked_services to the end of its walk.                     *)

Fetch(r) ==
  /\ begun[r].walk = "none" /\ slot # 0
  /\ begun' = [begun EXCEPT ![r].walk = "fetched", ![r].via = slot]
  /\ UNCHANGED <<slot, built, initCall>>

\* index_handler.start writes the row, and execute is spawned
StartRun(r) ==
  /\ begun[r].walk = "fetched"
  /\ begun' = [begun EXCEPT ![r].walk = "spawned", ![r].row = "running"]
  /\ UNCHANGED <<slot, built, initCall>>

\* execute opens its cell before it reads the row
OpenRun(r) ==
  /\ begun[r].walk = "spawned"
  /\ begun' = [begun EXCEPT
       ![r].walk = "open",
       ![r].unseen = {i \in Inits : initCall[i].at = "looked"}]
  /\ UNCHANGED <<slot, built, initCall>>

\* the cell is dropped, at once if the row no longer says running; what the
\* walk writes to its row last is RunControl's
EndRun(r) ==
  /\ begun[r].walk = "open"
  /\ \E row \in {"over", begun[r].row} :
       begun' = [begun EXCEPT ![r].walk = "ended", ![r].row = row]
  /\ UNCHANGED <<slot, built, initCall>>

----------------------------------------------------------------------------
(* The call.                                                               *)

LooksAway(i) ==
  /\ initCall[i].at = "idle"
  /\ initCall' = [initCall EXCEPT ![i].at =
       "looked"]
  /\ UNCHANGED <<slot, built, begun>>

\* the first look, before anything is loaded or built
Look(i) ==
  /\ initCall[i].at = "idle"
  /\ initCall' = [initCall EXCEPT ![i].at =
       IF slot # 0 /\ live_runs(slot) > 0 THEN "busy" ELSE "looked"]
  /\ UNCHANGED <<slot, built, begun>>

\* auth.validate, verify_owner or the migration refuses
Refuses(i) ==
  /\ initCall[i].at = "looked"
  /\ initCall' = [initCall EXCEPT ![i].at = "failed"]
  /\ UNCHANGED <<slot, built, begun>>

\* build_services: pause_running, whose failure is only logged
Builds(i) ==
  /\ initCall[i].at = "looked" /\ built < MaxServices
  /\ built' = built + 1
  /\ initCall' = [initCall EXCEPT ![i] = [at |-> "built", services |-> built + 1]]
  /\ begun' \in {begun, [r \in Starts |->
                   [begun[r] EXCEPT !.row = IF @ = "running" THEN "paused" ELSE @]]}
  /\ UNCHANGED slot

\* asked again, under the lock, at the moment of the swap
Swaps(i) ==
  /\ initCall[i].at = "built"
  /\ IF slot # 0 /\ live_runs(slot) > 0
     THEN /\ initCall' = [initCall EXCEPT ![i].at = "busy"]
          /\ UNCHANGED slot
     ELSE /\ initCall' = [initCall EXCEPT ![i].at = "ok"]
          /\ slot' = initCall[i].services
  /\ UNCHANGED <<built, begun>>

InitNext ==
  \/ \E r \in Starts : Fetch(r) \/ StartRun(r) \/ OpenRun(r) \/ EndRun(r)
  \/ \E i \in Inits : Look(i) \/ Refuses(i) \/ Builds(i) \/ Swaps(i)

InitSpec == InitInit /\ [][InitNext]_initVars

----------------------------------------------------------------------------
(* Properties.                                                             *)

\* The reconciliation of a second call pauses the row of a run that is being
\* walked only if the call's first look came before the run opened its cell: a
\* run that was live then makes the call answer INDEX_ERR_BUSY and change
\* nothing. (The BUSY of the second look does come after a pause.)
LiveAtTheLookIsLeftAlone ==
  [][\A r \in Starts :
       /\ begun[r].walk = "open" /\ begun[r].via = slot
       /\ begun[r].row = "running" /\ begun'[r].row = "paused"
       => \E i \in begun[r].unseen : initCall[i].at = "looked"]_initVars
=============================================================================
