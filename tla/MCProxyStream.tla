---------------------------- MODULE MCProxyStream ----------------------------
(***************************************************************************)
(* Instances of ProxyStream for TLC.                                       *)
(***************************************************************************)
EXTENDS ProxyStream

\* One choice whose text may be held back, and a second one.
c1 == 0
c2 == 1
MCIndexes == {c1, c2}

Plain(kind) ==
  [kind |-> kind, choice |-> NoChoice, role |-> FALSE, text |-> FALSE,
   finish |-> "none", usage |-> FALSE, error |-> "none"]

Chunk(c) == [Plain("chunk") EXCEPT !.choice = c]
Text(c) == [Chunk(c) EXCEPT !.text = TRUE, !.role = TRUE]
Role(c) == [Chunk(c) EXCEPT !.role = TRUE]
Finish(c, reason) == [Chunk(c) EXCEPT !.finish = reason]
Usage == [Plain("chunk") EXCEPT !.usage = TRUE]
Error == [Plain("chunk") EXCEPT !.error = "object"]

\* Usage in an event that also has a null error, or a base_resp that failed.
NullError == [Usage EXCEPT !.error = "null"]
FailedUsage == [Usage EXCEPT !.error = "base_resp"]

\* Every kind of line, for short streams.
MCLines ==
  {Plain("blank"), Plain("done"), Plain("malformed"), Text(c1), Text(c2),
   Role(c1), Finish(c1, "stop"), Usage, Error, NullError, FailedUsage}

\* The lines of long streams: events, their separators and the end.
MCLongLines ==
  {Plain("blank"), Plain("done"), Text(c1), Finish(c1, "stop"), Usage}

\* Streams for the liveness check and the two disagreements.
MCFewLines ==
  {Plain("blank"), Plain("comment"), Plain("done"), Text(c1), Finish(c1, "empty"),
   Finish(c1, "stop"), [Usage EXCEPT !.error = "object"]}

=============================================================================
