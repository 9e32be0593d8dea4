--------------------------- MODULE MCFileLifecycle ---------------------------
(* Values of the constants of FileLifecycle for TLC. *)
EXTENDS FileLifecycle, TLC

CONSTANTS a, b, c, d, f1, f2, c1, c2, c3, x

CallerSymmetry == Permutations(Callers)

AnyTarget == [k \in Callers |-> [u \in Files |-> Paths]]

(* Each caller renames a file of its own to names of its own.              *)
OwnTargets ==
    [k \in Callers |-> [u \in Files |->
        CASE k = c1 /\ u = f1 -> {a, b}
          [] k = c2 /\ u = f2 -> {c, d}
          [] OTHER -> {}]]
=============================================================================
