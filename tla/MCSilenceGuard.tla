--------------------------- MODULE MCSilenceGuard ---------------------------
(* Instances of SilenceGuard for TLC. *)
EXTENDS SilenceGuard

AllExchanges == Exchange

=============================================================================
