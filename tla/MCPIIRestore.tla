---------------------------- MODULE MCPIIRestore ----------------------------
(* Instances of PIIRestore for TLC. *)
EXTENDS PIIRestore

Text(t, entities) == [text |-> t, entities |-> entities]

\* A value in brackets: a link's text, or the only element of a JSON array.
BracketRequests == {Text(<<"[", "A", "]">>, {<<2, 2>>})}

\* One value, a repeated one, two, spans that overlap, a word beside one, and one
\* between the start of a placeholder and the end of another; and texts that are
\* not plain: a value in brackets, and one beside a bare placeholder that the
\* client wrote itself.
MCRequests ==
  BracketRequests \cup
  {Text(<<"A">>, {<<1, 1>>}),
   Text(<<"A", ".", "B", "A">>, {<<1, 1>>, <<3, 3>>, <<4, 4>>}),
   Text(<<"w", "A", "B", ".">>, {<<2, 2>>, <<2, 3>>}),
   Text(<<"A", "B", "A">>, {<<1, 2>>, <<2, 3>>}),
   Text(<<"p", "A", "]">>, {<<2, 2>>}),
   Text(<<"A", ".", "p", "1">>, {<<1, 1>>}),
   Text(<<"w", ".">>, {})}

OneRequest == {Text(<<"A">>, {<<1, 1>>})}

MCSymbols == {"[", "]", "p", "1", "w", "."}

=============================================================================
