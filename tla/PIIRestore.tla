------------------------------ MODULE PIIRestore ------------------------------
(***************************************************************************)
(* Masking of one text of a request and restoring of the answer to it: the *)
(* placeholders that PIIMapping assigns, ApplyMask, Unmask, and the buffer *)
(* that holds back what may be the start of a placeholder while an answer  *)
(* is streamed.                                                            *)
(*                                                                         *)
(* A text is a sequence of symbols.  "p" and "1" are what placeholders are *)
(* made of (a type, and digits), "w" is any other letter, digit or         *)
(* underscore, the brackets are themselves, and every other symbol is no   *)
(* part of a word.  Numbers are unary: the first placeholder is the start  *)
(* of the second, as EMAIL_1 is of EMAIL_10.  A symbol stands for a letter *)
(* in either case, and p1 for its short form, too.                         *)
(***************************************************************************)
EXTENDS Integers, Sequences, FiniteSets, SequencesExt, FiniteSetsExt

CONSTANTS
  Requests,    \* texts with what the analyzer finds in them: a set of Request
  Symbols,     \* what an answer is made of
  MaxAnswer    \* the longest answer that is not an echo

\* entities are the spans <<first, last>> that Analyze returned.
Request(r) ==
  /\ r.text \in Seq(STRING)
  /\ \A e \in r.entities : e[1] \in DOMAIN r.text /\ e[2] \in e[1] .. Len(r.text)

ASSUME RestoreAssumption ==
  /\ \A r \in Requests : Request(r)
  /\ Symbols \subseteq STRING
  /\ MaxAnswer \in Nat

VARIABLES
  rq,         \* the request
  mapping,    \* PIIMapping: the masked values, by number
  masked,     \* the text as the provider gets it
  pc,         \* mask, answer, done
  echo,       \* the answer repeats the masked text
  text,       \* what the provider has answered
  buf,        \* the stream's buffer
  emitted,    \* symbols of text that left the buffer
  restored    \* spans of text that were replaced by their values

vars == <<rq, mapping, masked, pc, echo, text, buf, emitted, restored>>
answer == <<text, buf, emitted, restored>>

-----------------------------------------------------------------------------
(* Scanning.                                                               *)

\* Where a scan from the left stops that goes on from i at next[i].
Stops(next) ==
  LET stop[i \in DOMAIN next] == i = 1 \/ \E j \in 1 .. i - 1 : next[j] = i /\ stop[j]
  IN {i \in DOMAIN next : stop[i]}

\* t with each span of DOMAIN by replaced by by[span].
Replaced(t, by) ==
  LET rest[i \in 1 .. Len(t) + 1] ==
        LET here == {s \in DOMAIN by : s[1] = i}
            span == CHOOSE s \in here : TRUE
        IN IF i > Len(t) THEN <<>>
           ELSE IF here = {} THEN <<t[i]>> \o rest[i + 1]
           ELSE by[span] \o rest[span[2] + 1]
  IN rest[1]

-----------------------------------------------------------------------------
(* Masking.                                                                *)

\* The spans ApplyMask keeps: in order, the longer of two that start together,
\* and none that starts inside another.
EndsAt(r, i) == {e[2] : e \in {f \in r.entities : f[1] = i}}
MaskScan(r) ==
  [i \in DOMAIN r.text |-> IF EndsAt(r, i) = {} THEN i + 1 ELSE Max(EndsAt(r, i)) + 1]
Kept(r) ==
  {<<i, MaskScan(r)[i] - 1>> : i \in {j \in Stops(MaskScan(r)) : EndsAt(r, j) # {}}}

Value(t, span) == SubSeq(t, span[1], span[2])

\* Token: values are numbered in the order of their first occurrence, and one
\* that was seen before keeps its number.
Firsts(r) ==
  {s \in Kept(r) :
     \A u \in Kept(r) : u[1] < s[1] => Value(r.text, u) # Value(r.text, s)}
Rank(r, s) == Cardinality({u \in Firsts(r) : u[1] <= s[1]})
Assigned(r) ==
  [n \in 1 .. Cardinality(Firsts(r)) |->
     Value(r.text, CHOOSE s \in Firsts(r) : Rank(r, s) = n)]

Bare(n) == <<"p">> \o [i \in 1 .. n |-> "1"]
Token(n) == <<"[">> \o Bare(n) \o <<"]">>
NumberOf(values, v) == CHOOSE n \in DOMAIN values : values[n] = v

\* ApplyMask with the spans that are kept.
ApplyMask(r, values) ==
  Replaced(r.text, [s \in Kept(r) |-> Token(NumberOf(values, Value(r.text, s)))])

Mask ==
  /\ pc = "mask"
  /\ mapping' = Assigned(rq)
  /\ masked' = ApplyMask(rq, Assigned(rq))
  /\ pc' = "answer"
  /\ UNCHANGED <<rq, echo, answer>>

-----------------------------------------------------------------------------
(* Unmask, with the values m.                                              *)

Word == {"p", "1", "w"}
isBareTokenBoundary(t, i) == i \notin DOMAIN t \/ t[i] \notin Word

\* The bare placeholders that t continues with at i; the longest counts.
BareAt(t, i, m) ==
  {n \in DOMAIN m : IsPrefix(Bare(n), SubSeq(t, i, Len(t)))}
matchBareAlias(t, i, m) == i + Len(Bare(Max(BareAt(t, i, m)))) - 1

IsBare(t, i, m) ==
  /\ t[i] # "[" /\ isBareTokenBoundary(t, i - 1)
  /\ BareAt(t, i, m) # {} /\ isBareTokenBoundary(t, matchBareAlias(t, i, m) + 1)

\* An open bracket takes everything up to the next closing one, known or not.
CloseAfter(t, i) == {j \in i + 1 .. Len(t) : t[j] = "]"}

IsToken(t, i, m) ==
  /\ t[i] = "[" /\ CloseAfter(t, i) # {}
  /\ \E n \in DOMAIN m : SubSeq(t, i, Min(CloseAfter(t, i))) = Token(n)

\* Where Unmask goes on from i; an open bracket that is never closed ends it.
UnmaskScan(t, m) ==
  [i \in DOMAIN t |->
     IF t[i] = "[" THEN IF CloseAfter(t, i) = {} THEN Len(t) + 1
                        ELSE Min(CloseAfter(t, i)) + 1
     ELSE IF IsBare(t, i, m) THEN matchBareAlias(t, i, m) + 1
     ELSE i + 1]

\* The spans of t that Unmask replaces.
Unmask(t, m) ==
  {<<i, UnmaskScan(t, m)[i] - 1>> :
     i \in {j \in Stops(UnmaskScan(t, m)) : IsToken(t, j, m) \/ IsBare(t, j, m)}}

\* The value of a placeholder, in either form.
Original(t, m) == m[CHOOSE n \in DOMAIN m : t = Token(n) \/ t = Bare(n)]

-----------------------------------------------------------------------------
(* The stream's buffer.                                                    *)

\* Mutant of bareAliasHoldStart: only a complete bare form is held.
bareAliasHoldStartWhole(t, m) ==
  {i \in DOMAIN t : /\ isBareTokenBoundary(t, i - 1)
                    /\ \E n \in DOMAIN m : SubSeq(t, i, Len(t)) = Bare(n)}

\* Where t ends in what may become a bare placeholder, complete ones included:
\* a longer one may follow.
bareAliasHoldStart(t, m) ==
  {i \in DOMAIN t : /\ isBareTokenBoundary(t, i - 1)
                    /\ \E n \in DOMAIN m : IsPrefix(SubSeq(t, i, Len(t)), Bare(n))}

\* Mutant of openBracket: only a bracket at the very end counts.
openBracketLast(t) == {i \in DOMAIN t : i = Len(t) /\ t[i] = "["}

\* The last bracket of t, if it is an open one.
openBracket(t) ==
  {i \in DOMAIN t : t[i] = "[" /\ \A j \in i + 1 .. Len(t) : t[j] \notin {"[", "]"}}

\* Where t is cut: at the first of both, or behind t.  Without a mapping there is
\* no unmasker and nothing is held.
Held(t, m) == IF m = <<>> THEN {} ELSE openBracket(t) \cup bareAliasHoldStart(t, m)
Cut(t, m) == Min(Held(t, m) \cup {Len(t) + 1})

\* Spans of what leaves the buffer, as spans of the answer.
Shifted(spans) == {<<s[1] + emitted, s[2] + emitted>> : s \in spans}

\* feedPIIStreamBuffer.
Feed(delta) ==
  /\ text' = text \o delta
  /\ LET full == buf \o delta
         safe == SubSeq(full, 1, Cut(full, mapping) - 1)
     IN /\ buf' = SubSeq(full, Cut(full, mapping), Len(full))
        /\ emitted' = emitted + Len(safe)
        /\ restored' = restored \cup Shifted(Unmask(safe, mapping))

\* An event brings the next piece of the masked text, or whatever else the
\* model writes.
Event ==
  /\ pc = "answer"
  /\ \/ /\ echo
        /\ \E n \in 1 .. Len(masked) - Len(text) :
             Feed(SubSeq(masked, Len(text) + 1, Len(text) + n))
     \/ /\ ~echo
        /\ \E n \in 1 .. MaxAnswer - Len(text) : \E delta \in [1 .. n -> Symbols] :
             Feed(delta)
  /\ UNCHANGED <<rq, mapping, masked, pc, echo>>

\* flushPIIStreamBuffer, with the finish reason or the end of the stream; an
\* echo is finished when it is complete.
Flush ==
  /\ pc = "answer"
  /\ echo => text = masked
  /\ emitted' = emitted + Len(buf)
  /\ restored' = restored \cup Shifted(Unmask(buf, mapping))
  /\ buf' = <<>>
  /\ pc' = "done"
  /\ UNCHANGED <<rq, mapping, masked, echo, text>>

\* An answer that is not streamed is restored at once.
RestoreBody ==
  /\ pc = "answer" /\ echo /\ text = <<>>
  /\ text' = masked /\ emitted' = Len(masked)
  /\ restored' = Unmask(masked, mapping)
  /\ pc' = "done"
  /\ UNCHANGED <<rq, mapping, masked, echo, buf>>

-----------------------------------------------------------------------------
Init ==
  /\ rq \in Requests /\ echo \in BOOLEAN
  /\ mapping = <<>> /\ masked = <<>> /\ pc = "mask"
  /\ text = <<>> /\ buf = <<>> /\ emitted = 0 /\ restored = {}

Next == Mask \/ Event \/ Flush \/ RestoreBody

Spec == Init /\ [][Next]_vars

-----------------------------------------------------------------------------
(* Properties.                                                             *)

\* What the client gets of the answer.
Client ==
  Replaced(SubSeq(text, 1, emitted),
           [s \in restored |-> Original(Value(text, s), mapping)])

\* Outside the values that are masked the text has no open bracket, and nothing
\* that starts a bare placeholder.
Plain(r) ==
  \A i \in Stops(MaskScan(r)) :
    EndsAt(r, i) = {} =>
      /\ r.text[i] # "["
      /\ r.text[i] = "p" /\ i < Len(r.text) /\ EndsAt(r, i + 1) = {} => r.text[i + 1] # "1"

\* A provider that repeats the masked text gives the client its own text back,
\* streamed in any pieces or not streamed, if that text is plain outside of the
\* values: no placeholder that ApplyMask put there is left in the answer, none is
\* taken for another, and nothing else is replaced.  EchoRestored shows why it
\* must be plain.
RoundTrip == pc = "done" /\ echo /\ Plain(rq) => Client = rq.text

\* The same of every request, which Unmask's comment says: it "replaces every
\* `[TYPE_N]` placeholder found in `text` with its original value".  It does not
\* hold: an open bracket before a value takes the value's placeholder for its
\* own.
EchoRestored == pc = "done" /\ echo => Client = rq.text

\* Splitting an answer over events never costs a placeholder: whatever Unmask
\* restores in the whole text is restored in its pieces, a bare form that is
\* the start of a longer one included.
SplitsRestored == pc = "done" => Unmask(text, mapping) \subseteq restored

\* "keep XEMAIL_ADDRESS_1Y but restore EMAIL_ADDRESS_1" (the test of Unmask): a
\* placeholder inside a longer word is not one, streamed or not.
WordsIntact ==
  pc = "done" =>
    \A s \in restored :
      text[s[1]] # "[" =>
        isBareTokenBoundary(text, s[1] - 1) /\ isBareTokenBoundary(text, s[2] + 1)

=============================================================================
