---------------------------- MODULE MCRunControl ----------------------------
(* Model values, symmetry and fault sets for checking RunControl with TLC. *)
EXTENDS RunControl, TLC

CallerSymmetry == Permutations(Callers)

(* Everything but the failed read that waives a walk's segment, and the    *)
(* failed flush, which changes nothing a control call can see.             *)
KnownSegmentFaults == FaultKinds \ {"read", "flush"}
=============================================================================
