---------------------------- MODULE MCCatalogWalk ----------------------------
(* Values of the constants of CatalogWalk for TLC. *)
EXTENDS CatalogWalk, TLC

CONSTANTS a, b, c, f1, f2, f3, c1, c2, x, run1, run2

RunSymmetry == Permutations({f2, f3}) \cup Permutations({run1, run2})

AnyTarget == [k \in Callers |-> [u \in Files |-> Paths]]

(* Of two callers one renames.                                             *)
OneRenamer == [k \in Callers |-> [u \in Files |-> IF k = c1 THEN Paths ELSE {}]]

Nothing == {}
OneRefresh == {run1} \X Files
RefreshF1 == {<<run1, f1>>}
TwoIndexesOfB == {run1, run2} \X {b}
IndexOfB == {<<run1, b>>}
=============================================================================
