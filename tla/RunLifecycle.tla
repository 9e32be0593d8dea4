---------------------------- MODULE RunLifecycle ----------------------------
(***************************************************************************)
(* What the record of a catalog run promises, whoever writes it: the       *)
(* lifecycle of RunStatus as the doc of CatalogRunRepository states it,    *)
(* with no registry, no signals and no program counters.                   *)
(*                                                                         *)
(* A run has one status and one segment.  owed is the set of the segments  *)
(* whose walk has yet to leave its mark: a walk owes the record at most    *)
(* one closing write, and only a walk that owes one may complete or fail   *)
(* the run.                                                                *)
(***************************************************************************)
EXTENDS Integers

CONSTANTS
    Runs,        \* ids of runs
    MaxSegment,  \* bound on the resumes of one run
    Lossy        \* whether closing writes, tasks and requests may be lost

VARIABLES status, segment, owed

lifecycle == <<status, segment, owed>>

Init ==
    /\ status = [r \in Runs |-> "absent"]
    /\ segment = [r \in Runs |-> 0]
    /\ owed = [r \in Runs |-> {}]

Becomes(r, s) == status' = [status EXCEPT ![r] = s]

(* A walk is spawned for segment g, or the request that would have spawned *)
(* it is lost.                                                             *)
Owe(r, g) ==
    \/ owed' = [owed EXCEPT ![r] = @ \cup {g}]
    \/ Lossy /\ UNCHANGED owed

Begin(r) ==
    /\ status[r] = "absent"
    /\ Becomes(r, "running")
    /\ Owe(r, 0)
    /\ UNCHANGED segment

Resume(r) ==
    /\ status[r] = "paused"
    /\ segment[r] < MaxSegment
    /\ Becomes(r, "running")
    /\ segment' = [segment EXCEPT ![r] = @ + 1]
    /\ Owe(r, segment[r] + 1)

(* A control call's own write, beside the walks. *)
Pause(r) ==
    /\ status[r] = "running"
    /\ Becomes(r, "paused")
    /\ UNCHANGED <<segment, owed>>

Cancel(r) ==
    /\ status[r] \in {"running", "paused"}
    /\ Becomes(r, "cancelled")
    /\ UNCHANGED <<segment, owed>>

(* A walk's last step.  It completes or fails the run from whatever status *)
(* it finds, it records the stop it was given, or it leaves the record to  *)
(* the writer that got there first - but it does not leave its own segment *)
(* running with nobody to close it.                                        *)
Leave(r, g) ==
    /\ g \in owed[r]
    /\ owed' = [owed EXCEPT ![r] = @ \ {g}]
    /\ \/ \E s \in {"complete", "failed"} : Becomes(r, s)
       \/ status[r] = "running" /\ Becomes(r, "paused")
       \/ status[r] \in {"running", "paused"} /\ Becomes(r, "cancelled")
       \/ /\ status[r] = "running" /\ g = segment[r] => Lossy
          /\ UNCHANGED status
    /\ UNCHANGED segment

(* The process restarts: nothing is walked any more, and the runs that     *)
(* still read running are offered for resume.                              *)
Recover ==
    /\ owed' = [r \in Runs |-> {}]
    /\ \/ status' = [r \in Runs |->
                        IF status[r] = "running" THEN "paused" ELSE status[r]]
       \/ Lossy /\ UNCHANGED status
    /\ UNCHANGED segment

Next ==
    \/ \E r \in Runs : Begin(r) \/ Resume(r) \/ Pause(r) \/ Cancel(r)
    \/ \E r \in Runs : \E g \in owed[r] : Leave(r, g)
    \/ Recover

Spec == Init /\ [][Next]_lifecycle
=============================================================================
