---------------------------- MODULE MCVsockRelay -----------------------------
(***************************************************************************)
(* Instances of VsockRelay for TLC.                                        *)
(***************************************************************************)
EXTENDS VsockRelay

CONSTANTS x1, x2

\* Two connections to the forwarder's ingress, or one to the enclave's TLS bridge.
MCKinds ==
  {[x \in Conns |-> "forward"],
   [x \in Conns |-> IF x = x1 THEN "bridge" ELSE "absent"]}

=============================================================================
