---------------------------- MODULE MCReplayCache ----------------------------
(***************************************************************************)
(* Instances of ReplayCache for TLC.  Handlers, accounts and ids are       *)
(* interchangeable.                                                        *)
(***************************************************************************)
EXTENDS ReplayCache, TLC

CONSTANTS h1, h2, a1, a2, a3, i1, i2, i3

MCHandlers == {h1, h2}
MCAccounts == {a1, a2, a3}
MCIds == {i1, i2, i3}
Symmetry ==
  Permutations(MCHandlers) \cup Permutations(MCAccounts) \cup Permutations(MCIds)

\* Bound on the requests let through: one more than the cache holds.
MaxAccepted == 3
FewAccepted == Len(log) <= MaxAccepted

=============================================================================
