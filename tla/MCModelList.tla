----------------------------- MODULE MCModelList -----------------------------
(***************************************************************************)
(* An instance of ModelList for TLC.  Callers are interchangeable.         *)
(***************************************************************************)
EXTENDS ModelList, TLC

CONSTANTS c1, c2, c3

MCCallers == {c1, c2, c3}
Symmetry == Permutations(MCCallers)

=============================================================================
