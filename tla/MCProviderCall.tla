--------------------------- MODULE MCProviderCall ---------------------------
(* Instances of ProviderCall for TLC. *)
EXTENDS ProviderCall

\* A status of each kind the adapters tell apart.
MCStatuses == {400, 401, 422, 429, 500, 503, 504, 529}

=============================================================================
