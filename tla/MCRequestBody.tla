---------------------------- MODULE MCRequestBody ----------------------------
(* Instances of RequestBody for TLC. *)
EXTENDS RequestBody

MCLimits == {0, 2, 3}

\* Every value a field may have, and those of a name in other letters.
MCSpelled == {Absent, Null, 2}
SpelledLimits == {Absent, 2}
NotSpelled == {Absent}

OnePrompt == {[text |-> 1, images |-> 0, imageBytes |-> 0, other |-> FALSE]}

=============================================================================
