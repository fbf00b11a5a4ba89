----------------------------- MODULE MCClientIO ------------------------------
(***************************************************************************)
(* An instance of ClientIO for TLC: a body of up to two small frames, read *)
(* with buffers smaller and larger than a prefix.                          *)
(***************************************************************************)
EXTENDS ClientIO

MCLengths == {Unknown, 0, 6, MaxBody + 1}

=============================================================================
