------------------------------- MODULE MCProxy -------------------------------
(***************************************************************************)
(* Instances of Proxy for TLC: one status of each class mapProviderError   *)
(* tells apart.                                                            *)
(***************************************************************************)
EXTENDS Proxy

MCStatuses == {400, 401, 429, 500, 503, 504}

=============================================================================
