----------------------------- MODULE RelayProofs -----------------------------
(***************************************************************************)
(* Theorems about the two relays, for streams and connections of any       *)
(* length: the lines of a provider's stream on their way to the client     *)
(* (ProxyStream), and the connections between TCP and vsock (VsockRelay).  *)
(***************************************************************************)
EXTENDS ProxyStream, VsockRelay, FiniteSetTheorems, TLAPS

-----------------------------------------------------------------------------
(* ProxyStream: the inductive invariant.                                   *)

\* The lines that reach the client.
Out == [src : Nat, kind : {"comment", "blank", "done", "malformed", "chunk", "interrupted"},
        role : SUBSET Indexes, text : [Indexes -> Seq(Nat)]]

StreamTypeOK ==
  /\ read \in Seq(Lines)
  /\ upstream \in {"open", "eof", "broken"}
  /\ held \in [Indexes -> Seq(Nat)]
  /\ o \in [finish : BOOLEAN, usage : Nat, err : {"none", "provider", "read", "canceled"}]
  /\ pending \in Seq(Out) /\ sent \in Seq(Out)
  /\ phase \in {"prime", "failed", "opened", "relay", "ending", "closed"}

\* A stream is metered when it ends and not before; one that was read to its end
\* left nothing behind.
StreamEnded ==
  /\ phase \in {"prime", "failed", "opened", "relay"} => end = "none" /\ metered = 0
  /\ phase \in {"ending", "closed"} => end # "none" /\ metered = 1
  /\ phase = "ending" => end # "closed_before_eof"
  /\ phase \in {"ending", "closed"} /\ end # "closed_before_eof" =>
       upstream # "open" /\ ~Holding /\ pending = <<>>

\* The outcome has the usage of the last line that reported any.
UsageKept ==
  /\ \A i \in DOMAIN read : read[i].usage => i <= o.usage
  /\ o.usage # 0 => o.usage \in DOMAIN read /\ read[o.usage].usage

-----------------------------------------------------------------------------
(* ProxyStream: types.                                                     *)

\* A line the gateway writes, and one it passes on.
LEMMA WrittenType ==
  ASSUME NEW word \in {"comment", "blank", "done", "malformed", "chunk", "interrupted"},
         NEW n \in Nat
  PROVE  /\ NoText \in [Indexes -> Seq(Nat)]
         /\ Written(word) \in Out /\ Passed(word, n) \in Out
         /\ Written(word).src = 0 /\ Written(word).kind = word /\ Written(word).text = NoText
         /\ Passed(word, n).src = n /\ Passed(word, n).kind = word
         /\ Passed(word, n).text = NoText
<1>1. NoText \in [Indexes -> Seq(Nat)]
  BY DEF NoText
<1>2. /\ Written(word) \in Out
      /\ Written(word).src = 0 /\ Written(word).kind = word /\ Written(word).text = NoText
  BY <1>1 DEF Written, Out
<1> QED
  BY <1>1, <1>2 DEF Passed, Out

\* What the client may see of a line is typed.
LEMMA heldTailType ==
  ASSUME held \in [Indexes -> Seq(Nat)]
  PROVE  /\ heldTail \in Out /\ heldTail.src = 0 /\ heldTail.kind = "chunk"
         /\ heldTail.text = held
<1>1. Written("chunk") \in Out /\ Written("chunk").src = 0 /\ Written("chunk").kind = "chunk"
  BY WrittenType, 0 \in Nat
<1> QED
  BY <1>1 DEF heldTail, Out

\* A line that belongs to a choice belongs to one of the indexes.
LEMMA ChoiceType ==
  ASSUME NEW line \in Lines
  PROVE  /\ line \in Line
         /\ HasChoice(line) => line.choice \in Indexes
         /\ line.role => line.choice \in Indexes
         /\ line.kind # "chunk" => ~HasChoice(line) /\ ~line.usage /\ line.error = "none"
         /\ line.text \/ line.role => HasChoice(line)
<1>1. line \in Line
  BY LinesAssumption
<1>2. line.choice \in Indexes \cup {NoChoice}
  BY <1>1 DEF Line
<1>3. line.choice = NoChoice => ~line.role /\ ~line.text
  BY LinesAssumption
<1>4. line.kind # "chunk" => line.choice = NoChoice /\ ~line.usage /\ line.error = "none"
  BY LinesAssumption
<1> QED
  BY <1>1, <1>2, <1>3, <1>4 DEF HasChoice

\* The text of a choice is cut in two: what goes out and what is kept back.
LEMMA FedType ==
  ASSUME held \in [Indexes -> Seq(Nat)], NEW line \in Lines, HasChoice(line),
         NEW n \in Nat, NEW k \in KeptBack(line, n)
  PROVE  /\ Fed(line, n) \in Seq(Nat) /\ k \in 0 .. Len(Fed(line, n))
         /\ Released(line, n, k) \in Seq(Nat)
         /\ KeptText(line, n, k) \in Seq(Nat)
<1>1. held[line.choice] \in Seq(Nat)
  BY ChoiceType
<1>2. Fed(line, n) \in Seq(Nat) /\ Len(held[line.choice]) <= Len(Fed(line, n))
  <2>1. CASE line.text
    <3>1. Fed(line, n) = held[line.choice] \o <<n>>
      BY <2>1 DEF Fed
    <3> QED
      BY <1>1, <3>1
  <2>2. CASE ~line.text
    <3>1. Fed(line, n) = held[line.choice] \o <<>>
      BY <2>2 DEF Fed
    <3> QED
      BY <1>1, <3>1
  <2> QED
    BY <2>1, <2>2
<1>3. k \in 0 .. Len(Fed(line, n))
  <2>1. \/ k = 0
        \/ k \in 0 .. Len(Fed(line, n))
        \/ k = Len(held[line.choice])
    BY DEF KeptBack
  <2> QED
    BY <1>1, <1>2, <2>1
<1>4. Released(line, n, k) \in Seq(Nat) /\ KeptText(line, n, k) \in Seq(Nat)
  BY <1>2, <1>3 DEF Released, KeptText
<1> QED
  BY <1>2, <1>3, <1>4


\* The lines of one scanned line: the line itself, or after the held text.
ObservedShape(line, n, k, out) ==
  /\ out \in Seq(Out)
  /\ out[Len(out)].src = n /\ out[Len(out)].kind = line.kind
  /\ \/ Len(out) = 1 /\ (line.kind = "done" => ~Holding)
     \/ /\ Len(out) = 3 /\ line.kind = "done"
        /\ out[1] = heldTail /\ out[2] = Written("blank")
  /\ HasChoice(line) =>
       Len(out) = 1
       /\ out[1].text = [NoText EXCEPT ![line.choice] = Released(line, n, k)]
  /\ ~HasChoice(line) => out[Len(out)].text = NoText

\* What observe returns has that shape.
LEMMA ObservedFact ==
  ASSUME held \in [Indexes -> Seq(Nat)], NEW line \in Lines, NEW n \in Nat,
         NEW k \in KeptBack(line, n)
  PROVE  ObservedShape(line, n, k, Observed(line, n, k))
<1> DEFINE out == Observed(line, n, k)
<1>0. line.kind \in {"comment", "blank", "done", "malformed", "chunk"} /\ line \in Line
  BY ChoiceType DEF Line
<1>1. CASE line.kind = "chunk"
  <2> DEFINE text == IF HasChoice(line)
                     THEN [NoText EXCEPT ![line.choice] = Released(line, n, k)]
                     ELSE NoText
             w == [Passed("chunk", n) EXCEPT !.role = dropRepeatedRole(line), !.text = text]
  <2>1. out = <<w>>
    BY <1>1 DEF Observed
  <2>2. Passed("chunk", n) \in Out /\ Passed("chunk", n).src = n
        /\ Passed("chunk", n).kind = "chunk" /\ NoText \in [Indexes -> Seq(Nat)]
    BY WrittenType
  <2>3. text \in [Indexes -> Seq(Nat)]
    BY <2>2, FedType, ChoiceType
  <2>4. dropRepeatedRole(line) \in SUBSET Indexes
    BY ChoiceType DEF dropRepeatedRole
  <2> HIDE DEF text, out
  <2>5. w \in Out /\ w.src = n /\ w.kind = "chunk" /\ w.text = text
    BY <2>2, <2>3, <2>4 DEF Out
  <2> HIDE DEF w
  <2>6. out \in Seq(Out) /\ Len(out) = 1 /\ out[1] = w
    BY <2>1, <2>5
  <2> QED
    BY <1>1, <2>5, <2>6 DEF text, ObservedShape, out
<1>2. CASE line.kind = "done" /\ Holding
  <2>1. out = <<heldTail, Written("blank"), Passed("done", n)>>
    BY <1>2 DEF Observed
  <2>2. ~HasChoice(line)
    BY <1>2, ChoiceType
  <2>3. heldTail \in Out /\ Written("blank") \in Out /\ Passed("done", n) \in Out
    BY heldTailType, WrittenType
  <2>4. Passed("done", n).src = n /\ Passed("done", n).kind = "done"
        /\ Passed("done", n).text = NoText
    BY WrittenType
  <2> HIDE DEF out
  <2>5. out \in Seq(Out) /\ Len(out) = 3 /\ out[1] = heldTail /\ out[2] = Written("blank")
        /\ out[3] = Passed("done", n)
    BY <2>1, <2>3
  <2> QED
    BY <1>2, <2>2, <2>4, <2>5 DEF ObservedShape, out
<1>3. CASE line.kind # "chunk" /\ ~(line.kind = "done" /\ Holding)
  <2>1. out = <<Passed(line.kind, n)>>
    BY <1>3 DEF Observed
  <2>2. ~HasChoice(line)
    BY <1>3, ChoiceType
  <2>3. Passed(line.kind, n) \in Out /\ Passed(line.kind, n).src = n
        /\ Passed(line.kind, n).kind = line.kind /\ Passed(line.kind, n).text = NoText
    BY <1>0, WrittenType
  <2> HIDE DEF out
  <2>4. out \in Seq(Out) /\ Len(out) = 1 /\ out[1] = Passed(line.kind, n)
    BY <2>1, <2>3
  <2> QED
    BY <1>3, <2>2, <2>3, <2>4 DEF ObservedShape, out
<1> QED
  BY <1>1, <1>2, <1>3

\* The line itself comes last, behind lines of the gateway's own.
LEMMA ObservedLines ==
  ASSUME held \in [Indexes -> Seq(Nat)], NEW line \in Lines, NEW n \in Nat,
         NEW k \in KeptBack(line, n)
  PROVE  LET out == Observed(line, n, k)
         IN /\ out \in Seq(Out) /\ Len(out) \in {1, 3}
            /\ out[Len(out)].src = n /\ out[Len(out)].kind = line.kind
            /\ \A i \in DOMAIN out : i # Len(out) => out[i].src = 0
<1> DEFINE out == Observed(line, n, k)
<1>1. ObservedShape(line, n, k, out)
  BY ObservedFact
<1>2. heldTail.src = 0 /\ Written("blank").src = 0
  BY heldTailType, WrittenType
<1> HIDE DEF out
<1>3. out \in Seq(Out) /\ out[Len(out)].src = n /\ out[Len(out)].kind = line.kind
  BY <1>1 DEF ObservedShape
<1>4. \/ Len(out) = 1
      \/ Len(out) = 3 /\ out[1].src = 0 /\ out[2].src = 0
  BY <1>1, <1>2 DEF ObservedShape
<1>5. Len(out) \in {1, 3} /\ DOMAIN out = 1 .. Len(out)
  BY <1>3, <1>4
<1>6. \A i \in DOMAIN out : i # Len(out) => out[i].src = 0
  BY <1>4, <1>5
<1> QED
  BY <1>3, <1>5, <1>6 DEF out

\* A sequence with one more element.
LEMMA AppendFact ==
  ASSUME NEW S, NEW s \in Seq(S), NEW x \in S
  PROVE  /\ Append(s, x) \in Seq(S) /\ Len(Append(s, x)) = Len(s) + 1
         /\ DOMAIN Append(s, x) = DOMAIN s \cup {Len(s) + 1}
         /\ Append(s, x)[Len(s) + 1] = x
         /\ \A i \in DOMAIN s : Append(s, x)[i] = s[i]
OBVIOUS

\* A sequence with others behind it.
LEMMA ConcatFact ==
  ASSUME NEW S, NEW s \in Seq(S), NEW t \in Seq(S)
  PROVE  /\ s \o t \in Seq(S) /\ Len(s \o t) = Len(s) + Len(t)
         /\ \A i \in DOMAIN s : (s \o t)[i] = s[i]
         /\ \A i \in DOMAIN t : (s \o t)[Len(s) + i] = t[i]
OBVIOUS

\* Lines added to pending come after all that was delivered.
LEMMA ConcatAssociative ==
  ASSUME NEW S, NEW s \in Seq(S), NEW t \in Seq(S), NEW u \in Seq(S)
  PROVE  s \o (t \o u) = (s \o t) \o u
OBVIOUS

\* What one scanned line changes.
LEMMA ScanFact ==
  ASSUME StreamTypeOK, NEW line \in Lines, Scan(line), UNCHANGED sent
  PROVE  LET n == Len(read) + 1
         IN /\ read' \in Seq(Lines) /\ Len(read') = n /\ read'[n] = line
            /\ DOMAIN read' = DOMAIN read \cup {n}
            /\ \A i \in DOMAIN read : read'[i] = read[i]
            /\ pending' \in Seq(Out)
            /\ dropped(line) => Delivered' = Delivered
            /\ \E k \in KeptBack(line, n) :
                 /\ ~dropped(line) => Delivered' = Delivered \o Observed(line, n, k)
                 /\ held' = IF HasChoice(line)
                            THEN [held EXCEPT ![line.choice] = KeptText(line, n, k)]
                            ELSE IF line.kind = "done" THEN NoText ELSE held
<1> DEFINE n == Len(read) + 1
<1>0. /\ line \in Lines /\ read \in Seq(Lines) /\ pending \in Seq(Out) /\ sent \in Seq(Out)
      /\ held \in [Indexes -> Seq(Nat)] /\ n \in Nat
  BY ChoiceType DEF StreamTypeOK
<1>1. read' = Append(read, line)
  BY DEF Scan
<1>2. /\ read' \in Seq(Lines) /\ Len(read') = n /\ read'[n] = line
      /\ DOMAIN read' = DOMAIN read \cup {n}
      /\ \A i \in DOMAIN read : read'[i] = read[i]
  BY <1>0, <1>1, AppendFact
<1>3. PICK k \in KeptBack(line, n) :
        /\ held' = IF HasChoice(line)
                   THEN [held EXCEPT ![line.choice] = KeptText(line, n, k)]
                   ELSE IF line.kind = "done" THEN NoText ELSE held
        /\ keep(line, Observed(line, n, k))
  BY DEF Scan
<1> DEFINE out == Observed(line, n, k)
<1>4. pending' = IF dropped(line) THEN pending ELSE pending \o out
  BY <1>3 DEF keep
<1> HIDE DEF n
<1>5. out \in Seq(Out)
  BY <1>0, ObservedFact DEF ObservedShape
<1> HIDE DEF out
<1>6. pending' \in Seq(Out)
  BY <1>0, <1>4, <1>5
<1>7. dropped(line) => Delivered' = Delivered
  BY <1>4 DEF Delivered
<1>8. ~dropped(line) => Delivered' = Delivered \o out
  <2>1. sent \o (pending \o out) = (sent \o pending) \o out
    BY <1>0, <1>5, ConcatAssociative
  <2> QED
    BY <1>4, <2>1 DEF Delivered
<1>9. \E j \in KeptBack(line, n) :
        /\ ~dropped(line) => Delivered' = Delivered \o Observed(line, n, j)
        /\ held' = IF HasChoice(line)
                   THEN [held EXCEPT ![line.choice] = KeptText(line, n, j)]
                   ELSE IF line.kind = "done" THEN NoText ELSE held
  BY <1>3, <1>8 DEF out
<1> QED
  BY <1>2, <1>6, <1>7, <1>9 DEF n

\* The outcome after one scanned line.
LEMMA ScanOutcome ==
  ASSUME StreamTypeOK, NEW line \in Lines, Scan(line)
  PROVE  /\ o' \in [finish : BOOLEAN, usage : Nat, err : {"none", "provider", "read", "canceled"}]
         /\ o'.usage = IF line.usage THEN Len(read) + 1 ELSE o.usage
<1> DEFINE n == Len(read) + 1
           f == o.finish \/ line.finish = "stop"
           u == IF line.usage THEN n ELSE o.usage
           e == IF o.err = "none" /\ failure(line) THEN "provider" ELSE o.err
<1>1. o' = [finish |-> f, usage |-> u, err |-> e]
  BY DEF Scan
<1>2. o.finish \in BOOLEAN /\ o.usage \in Nat
      /\ o.err \in {"none", "provider", "read", "canceled"} /\ n \in Nat
  BY DEF StreamTypeOK
<1>3. f \in BOOLEAN
  OBVIOUS
<1>4. u \in Nat
  BY <1>2
<1>5. e \in {"none", "provider", "read", "canceled"}
  BY <1>2
<1> HIDE DEF f, u, e
<1>6. o' \in [finish : BOOLEAN, usage : Nat, err : {"none", "provider", "read", "canceled"}]
  BY <1>1, <1>3, <1>4, <1>5
<1>7. o'.usage = u
  BY <1>1
<1> QED
  BY <1>6, <1>7 DEF u

\* What end may change of the outcome.
LEMMA OutcomeKept ==
  ASSUME StreamTypeOK, NEW e \in {"none", "provider", "read", "canceled"},
         o' = o \/ o' = [o EXCEPT !.err = e]
  PROVE  /\ o' \in [finish : BOOLEAN, usage : Nat, err : {"none", "provider", "read", "canceled"}]
         /\ o'.usage = o.usage
<1>1. o \in [finish : BOOLEAN, usage : Nat, err : {"none", "provider", "read", "canceled"}]
  BY DEF StreamTypeOK
<1>2. CASE o' = o
  BY <1>1, <1>2
<1>3. CASE o' = [o EXCEPT !.err = e]
  BY <1>1, <1>3
<1> QED
  BY <1>2, <1>3

\* A line written after others.
LEMMA SentFact ==
  ASSUME NEW s \in Seq(Out), NEW t \in Seq(Out), t # <<>>
  PROVE  /\ Head(t) \in Out /\ Tail(t) \in Seq(Out)
         /\ Append(s, Head(t)) \o Tail(t) = s \o t
OBVIOUS

\* The steps that scan a line.
ScanStep == \E line \in Lines : Scan(line) /\ UNCHANGED sent

\* The steps that neither read nor write, or write what was pending.
QuietStep ==
  /\ UNCHANGED <<read, held, skipBlank, sawDone, hideUsage>>
  /\ Delivered' = Delivered
  /\ o'.usage = o.usage

\* How every step changes the lines.
LEMMA StepShapes ==
  ASSUME StreamTypeOK, [Next]_vars
  PROVE  ScanStep \/ QuietStep \/ KeepAlive \/ NextTail \/ RelayEnds
<1>1. CASE PrimeLine \/ NextLine
  BY <1>1 DEF PrimeLine, NextLine, ScanStep
<1>2. CASE PrimeEnds \/ OpenWriter \/ UpstreamEnds \/ ClientLeaves \/ UNCHANGED vars
  BY <1>2 DEF PrimeEnds, OpenWriter, UpstreamEnds, ClientLeaves, vars, observed, request,
              QuietStep, Delivered
<1>3. CASE SendPending
  <2>1. Append(sent, Head(pending)) \o Tail(pending) = sent \o pending
    BY <1>3, SentFact DEF SendPending, StreamTypeOK
  <2> QED
    BY <1>3, <2>1 DEF SendPending, QuietStep, observed, request, Delivered
<1>4. CASE NextEnds
  <2>1. o' = o \/ o' = [o EXCEPT !.err = "read"]
    BY <1>4 DEF NextEnds, endAs
  <2>2. o'.usage = o.usage
    BY <2>1, OutcomeKept
  <2> QED
    BY <1>4, <2>2 DEF NextEnds, QuietStep, request, Delivered
<1>5. CASE WriterUnavailable
  <2>1. o.err \in {"none", "provider", "read", "canceled"}
    BY DEF StreamTypeOK
  <2>2. o' = o \/ \E e \in {"canceled", o.err} : o' = [o EXCEPT !.err = e]
    BY <1>5 DEF WriterUnavailable, Close, endAs
  <2>3. o'.usage = o.usage
    BY <2>1, <2>2, OutcomeKept
  <2> QED
    BY <1>5, <2>3 DEF WriterUnavailable, QuietStep, request, Delivered
<1> QED
  BY <1>1, <1>2, <1>3, <1>4, <1>5 DEF Next, Relay

\* The types are kept.
LEMMA StreamTypeStep == StreamTypeOK /\ [Next]_vars => StreamTypeOK'
<1> SUFFICES ASSUME StreamTypeOK, [Next]_vars PROVE StreamTypeOK'
  OBVIOUS
<1> DEFINE Outcome == [finish : BOOLEAN, usage : Nat,
                       err : {"none", "provider", "read", "canceled"}]
<1> HIDE DEF Outcome
<1>0. /\ pending \in Seq(Out) /\ sent \in Seq(Out) /\ held \in [Indexes -> Seq(Nat)]
      /\ o \in Outcome /\ o.err \in {"none", "provider", "read", "canceled"}
      /\ phase \in {"prime", "failed", "opened", "relay", "ending", "closed"}
  BY DEF StreamTypeOK, Outcome
<1>1. /\ Written("comment") \in Out /\ Written("blank") \in Out /\ Written("done") \in Out
      /\ Written("interrupted") \in Out /\ NoText \in [Indexes -> Seq(Nat)]
  BY WrittenType, 0 \in Nat
<1>2. read' \in Seq(Lines)
  BY ScanFact, StepShapes
     DEF ScanStep, QuietStep, KeepAlive, NextTail, RelayEnds, StreamTypeOK
<1>3. upstream' \in {"open", "eof", "broken"}
  BY DEF Next, Relay, vars, PrimeLine, PrimeEnds, OpenWriter, WriterUnavailable, SendPending,
         NextLine, NextTail, NextEnds, RelayEnds, KeepAlive, UpstreamEnds, ClientLeaves, Scan,
         StreamTypeOK
<1>4. held' \in [Indexes -> Seq(Nat)]
  <2>1. CASE ScanStep
    <3>1. PICK line \in Lines : Scan(line) /\ UNCHANGED sent
      BY <2>1 DEF ScanStep
    <3>2. PICK k \in KeptBack(line, Len(read) + 1) :
            held' = IF HasChoice(line)
                    THEN [held EXCEPT ![line.choice] = KeptText(line, Len(read) + 1, k)]
                    ELSE IF line.kind = "done" THEN NoText ELSE held
      BY <3>1, ScanFact
    <3>3. CASE HasChoice(line)
      <4>1. KeptText(line, Len(read) + 1, k) \in Seq(Nat)
        BY <1>0, <3>3, FedType DEF StreamTypeOK
      <4> QED
        BY <1>0, <3>2, <3>3, <4>1
    <3>4. CASE ~HasChoice(line)
      BY <1>0, <1>1, <3>2, <3>4
    <3> QED
      BY <3>3, <3>4
  <2>2. CASE ~ScanStep
    BY <1>0, <1>1, <2>2, StepShapes DEF QuietStep, KeepAlive, NextTail, RelayEnds, observed
  <2> QED
    BY <2>1, <2>2
<1>5. o' \in Outcome
  <2>1. CASE PrimeLine \/ NextLine
    BY <2>1, ScanOutcome DEF PrimeLine, NextLine, Outcome
  <2>2. CASE NextEnds
    <3>1. o' = o \/ o' = [o EXCEPT !.err = "read"]
      BY <2>2 DEF NextEnds, endAs
    <3> QED
      BY <3>1, OutcomeKept DEF Outcome
  <2>3. CASE Close
    <3>1. o' = o \/ \E e \in {"canceled", o.err} : o' = [o EXCEPT !.err = e]
      BY <2>3 DEF Close, endAs
    <3> QED
      BY <1>0, <3>1, OutcomeKept DEF Outcome
  <2> QED
    BY <1>0, <2>1, <2>2, <2>3
       DEF Next, Relay, vars, observed, PrimeEnds, OpenWriter, WriterUnavailable, SendPending,
           NextTail, RelayEnds, KeepAlive, UpstreamEnds, ClientLeaves
<1>6. pending' \in Seq(Out)
  <2>1. CASE ScanStep
    BY <2>1, ScanFact DEF ScanStep
  <2>2. CASE SendPending
    BY <1>0, <2>2, SentFact DEF SendPending
  <2>3. CASE NextTail
    BY <1>0, <1>1, <2>3, heldTailType DEF NextTail
  <2> QED
    BY <1>0, <2>1, <2>2, <2>3
       DEF Next, Relay, vars, PrimeLine, NextLine, ScanStep, PrimeEnds, OpenWriter,
           WriterUnavailable, NextEnds, RelayEnds, KeepAlive, UpstreamEnds, ClientLeaves
<1>7. sent' \in Seq(Out)
  <2>1. CASE SendPending
    BY <1>0, <2>1, SentFact, AppendFact DEF SendPending
  <2>2. CASE KeepAlive
    <3>1. <<Written("comment"), Written("blank")>> \in Seq(Out)
      BY <1>1
    <3> QED
      BY <1>0, <2>2, <3>1, ConcatFact DEF KeepAlive
  <2>3. CASE RelayEnds
    <3>1. terminator \in Seq(Out)
      BY <1>1 DEF terminator
    <3> QED
      BY <1>0, <2>3, <3>1, ConcatFact DEF RelayEnds
  <2> QED
    BY <1>0, <2>1, <2>2, <2>3
       DEF Next, Relay, vars, PrimeLine, NextLine, PrimeEnds, OpenWriter,
           WriterUnavailable, NextEnds, NextTail, UpstreamEnds, ClientLeaves
<1>8. phase' \in {"prime", "failed", "opened", "relay", "ending", "closed"}
  BY <1>0 DEF Next, Relay, vars, PrimeLine, NextLine, PrimeEnds, OpenWriter, WriterUnavailable,
           SendPending, NextEnds, NextTail, RelayEnds, KeepAlive, UpstreamEnds, ClientLeaves
<1> QED
  BY <1>2, <1>3, <1>4, <1>5, <1>6, <1>7, <1>8 DEF StreamTypeOK, Outcome

-----------------------------------------------------------------------------
(* ProxyStream: the end of a stream, and its usage.                        *)

\* A stream ends once.
LEMMA EndedStep ==
  ASSUME StreamTypeOK, StreamEnded, [Next]_vars
  PROVE  StreamEnded'
<1> DEFINE running == {"prime", "failed", "opened", "relay"}
<1>1. CASE PrimeLine \/ NextLine \/ PrimeEnds \/ OpenWriter \/ SendPending \/ NextTail
           \/ KeepAlive \/ UpstreamEnds
  <2>1. phase \in running /\ phase' \in running /\ UNCHANGED <<end, metered>>
    BY <1>1 DEF PrimeLine, NextLine, PrimeEnds, OpenWriter, SendPending, NextTail, KeepAlive,
                UpstreamEnds
  <2> QED
    BY <2>1 DEF StreamEnded
<1>2. CASE NextEnds
  <2>1. phase = "relay" /\ phase' = "ending" /\ metered' = metered + 1
        /\ end' \notin {"none", "closed_before_eof"}
        /\ UNCHANGED <<upstream, held, pending>>
    BY <1>2 DEF NextEnds, endAs
  <2>2. upstream # "open" /\ ~Holding /\ pending = <<>>
    BY <1>2 DEF NextEnds
  <2> QED
    BY <2>1, <2>2 DEF StreamEnded, Holding
<1>3. CASE WriterUnavailable
  <2>1. phase = "opened" /\ end = "none" /\ metered = 0
    BY <1>3 DEF WriterUnavailable, StreamEnded
  <2>2. phase' = "closed" /\ end' = "closed_before_eof" /\ metered' = metered + 1
    BY <1>3, <2>1 DEF WriterUnavailable, Close, endAs
  <2> QED
    BY <2>1, <2>2 DEF StreamEnded
<1>4. CASE RelayEnds
  <2>1. phase = "ending" /\ phase' = "closed" /\ end # "none"
        /\ UNCHANGED <<upstream, held, pending>>
    BY <1>4 DEF RelayEnds, StreamEnded
  <2>2. UNCHANGED <<end, metered>>
    BY <1>4, <2>1 DEF RelayEnds, Close
  <2> QED
    BY <2>1, <2>2 DEF StreamEnded, Holding
<1>5. CASE ClientLeaves \/ UNCHANGED vars
  BY <1>5 DEF ClientLeaves, vars, observed, request, StreamEnded, Holding
<1> QED
  BY <1>1, <1>2, <1>3, <1>4, <1>5 DEF Next, Relay

\* The usage of each line is noted as it is read, shown to the client or not.
LEMMA UsageStep ==
  ASSUME StreamTypeOK, StreamEnded, UsageKept, [Next]_vars
  PROVE  UsageKept'
<1>1. CASE ScanStep
  <2>1. PICK line \in Lines : Scan(line) /\ UNCHANGED sent
    BY <1>1 DEF ScanStep
  <2> DEFINE n == Len(read) + 1
  <2>2. /\ read'[n] = line /\ DOMAIN read' = DOMAIN read \cup {n}
        /\ \A i \in DOMAIN read : read'[i] = read[i]
    BY <2>1, ScanFact
  <2>3. o'.usage = IF line.usage THEN n ELSE o.usage
    BY <2>1, ScanOutcome
  <2>4. DOMAIN read = 1 .. Len(read) /\ Len(read) \in Nat /\ o.usage \in Nat
    BY DEF StreamTypeOK
  <2> QED
    BY <2>2, <2>3, <2>4 DEF UsageKept
<1>2. CASE ~ScanStep
  <2>1. UNCHANGED read /\ o'.usage = o.usage
    <3>1. CASE RelayEnds
      <4>1. end # "none"
        BY <3>1 DEF RelayEnds, StreamEnded
      <4> QED
        BY <3>1, <4>1 DEF RelayEnds, Close
    <3> QED
      BY <1>2, <3>1, StepShapes DEF QuietStep, KeepAlive, NextTail, observed
  <2> QED
    BY <2>1 DEF UsageKept
<1> QED
  BY <1>1, <1>2

\* A stream that is about to be read.
LEMMA StreamInit == Init => StreamTypeOK /\ StreamEnded /\ UsageKept
<1> SUFFICES ASSUME Init PROVE StreamTypeOK /\ StreamEnded /\ UsageKept
  OBVIOUS
<1>1. NoText \in [Indexes -> Seq(Nat)]
  BY DEF NoText
<1>2. o \in [finish : BOOLEAN, usage : Nat, err : {"none", "provider", "read", "canceled"}]
      /\ o.usage = 0
  BY DEF Init
<1>3. StreamTypeOK
  BY <1>1, <1>2 DEF Init, StreamTypeOK
<1>4. StreamEnded
  BY DEF Init, StreamEnded
<1>5. UsageKept
  BY <1>2 DEF Init, UsageKept
<1> QED
  BY <1>3, <1>4, <1>5

\* A stream is metered once at most: when it has ended for the client exactly
\* once, whichever of Next and Close saw the end first, and never if it failed
\* before its first output.
THEOREM MeteredOnce ==
  Spec => [](metered = IF phase \in {"ending", "closed"} THEN 1 ELSE 0)
<1>1. StreamTypeOK /\ StreamEnded => metered = IF phase \in {"ending", "closed"} THEN 1 ELSE 0
  BY DEF StreamTypeOK, StreamEnded
<1> QED
  BY StreamInit, StreamTypeStep, EndedStep, <1>1, PTL DEF Spec

\* However long the stream, its relay reads it to its end and meters the last
\* usage that the provider reported.
THEOREM ReadsToTheEnd == Spec => []ReadToTheEnd
<1>1. StreamEnded /\ UsageKept => ReadToTheEnd
  BY DEF StreamEnded, UsageKept, ReadToTheEnd
<1> QED
  BY StreamInit, StreamTypeStep, EndedStep, UsageStep, <1>1, PTL DEF Spec

-----------------------------------------------------------------------------
(* ProxyStream: every line once and in order.                              *)

Ordered(d) ==
  \A i, j \in DOMAIN d : i < j /\ d[i].src # 0 /\ d[j].src # 0 => d[i].src < d[j].src

\* The lines of the upstream that the client does not see.
HiddenLines == {n \in DOMAIN read : Hidden(n)}

\* Each delivered line that came from the upstream is one that was read, and
\* each line read is delivered unless it is hidden.
Sourced(d) ==
  /\ \A i \in DOMAIN d :
       d[i].src # 0 => d[i].src \in DOMAIN read \ HiddenLines
                       /\ d[i].kind = read[d[i].src].kind
  /\ \A n \in DOMAIN read \ HiddenLines : \E i \in DOMAIN d : d[i].src = n

\* A blank line is skipped after a hidden event.
Skipping == skipBlank <=> hideUsage /\ read # <<>> /\ usageOnly(read[Len(read)])

Faithful == Skipping /\ Ordered(Delivered) /\ Sourced(Delivered)

\* Lines put between others move those behind them.
LEMMA InsertFact ==
  ASSUME NEW S, NEW s \in Seq(S), NEW t \in Seq(S), NEW u \in Seq(S)
  PROVE  LET d == s \o u
             e == (s \o t) \o u
         IN /\ d \in Seq(S) /\ Len(d) = Len(s) + Len(u)
            /\ e \in Seq(S) /\ Len(e) = Len(d) + Len(t)
            /\ \A i \in 1 .. Len(s) : e[i] = d[i]
            /\ \A i \in Len(s) + 1 .. Len(d) : e[i + Len(t)] = d[i]
            /\ \A i \in 1 .. Len(t) : e[Len(s) + i] = t[i]
<1> DEFINE d == s \o u
           e == (s \o t) \o u
<1>1. d \in Seq(S) /\ Len(d) = Len(s) + Len(u) /\ s \o t \in Seq(S)
      /\ Len(s \o t) = Len(s) + Len(t)
  OBVIOUS
<1>2. e \in Seq(S) /\ Len(e) = Len(d) + Len(t)
  BY <1>1
<1>3. \A i \in 1 .. Len(s) : e[i] = d[i]
  OBVIOUS
<1>4. \A i \in Len(s) + 1 .. Len(d) : e[i + Len(t)] = d[i]
  <2> SUFFICES ASSUME NEW i \in Len(s) + 1 .. Len(d) PROVE e[i + Len(t)] = d[i]
    OBVIOUS
  <2>1. i - Len(s) \in 1 .. Len(u)
    BY <1>1
  <2>2. d[i] = u[i - Len(s)]
    BY <1>1
  <2>3. e[i + Len(t)] = u[i + Len(t) - Len(s \o t)]
    BY <1>1, <1>2
  <2>4. i + Len(t) - Len(s \o t) = i - Len(s)
    BY <1>1
  <2> QED
    BY <2>2, <2>3, <2>4
<1>5. \A i \in 1 .. Len(t) : e[Len(s) + i] = t[i]
  OBVIOUS
<1> QED
  BY <1>1, <1>2, <1>3, <1>4, <1>5

\* Where a line stood before others were put in at a place.
LEMMA InsertBack ==
  ASSUME NEW S, NEW s \in Seq(S), NEW t \in Seq(S), NEW u \in Seq(S)
  PROVE  LET d == s \o u
             e == (s \o t) \o u
             back(j) == IF j <= Len(s) THEN j ELSE j - Len(t)
         IN \A j \in DOMAIN e :
              \/ j \in Len(s) + 1 .. Len(s) + Len(t) /\ e[j] = t[j - Len(s)]
              \/ /\ j \notin Len(s) + 1 .. Len(s) + Len(t)
                 /\ back(j) \in DOMAIN d /\ e[j] = d[back(j)]
<1> DEFINE d == s \o u
           e == (s \o t) \o u
           back(j) == IF j <= Len(s) THEN j ELSE j - Len(t)
<1>1. /\ d \in Seq(S) /\ Len(d) = Len(s) + Len(u)
      /\ e \in Seq(S) /\ Len(e) = Len(d) + Len(t)
      /\ \A i \in 1 .. Len(s) : e[i] = d[i]
      /\ \A i \in Len(s) + 1 .. Len(d) : e[i + Len(t)] = d[i]
      /\ \A i \in 1 .. Len(t) : e[Len(s) + i] = t[i]
  BY InsertFact
<1>2. Len(s) \in Nat /\ Len(t) \in Nat /\ Len(u) \in Nat
  OBVIOUS
<1> HIDE DEF d, e
<1>3. DOMAIN d = 1 .. Len(d) /\ DOMAIN e = 1 .. Len(e) /\ Len(d) \in Nat
  BY <1>1
<1> SUFFICES ASSUME NEW j \in DOMAIN e
             PROVE  \/ j \in Len(s) + 1 .. Len(s) + Len(t) /\ e[j] = t[j - Len(s)]
                    \/ /\ j \notin Len(s) + 1 .. Len(s) + Len(t)
                       /\ back(j) \in DOMAIN d /\ e[j] = d[back(j)]
  BY DEF d, e
<1>4. j \in Nat /\ j >= 1 /\ j <= Len(s) + Len(u) + Len(t)
  BY <1>1, <1>2, <1>3
<1>5. CASE j <= Len(s)
  BY <1>1, <1>2, <1>3, <1>4, <1>5
<1>6. CASE j > Len(s) /\ j <= Len(s) + Len(t)
  <2>1. j - Len(s) \in 1 .. Len(t) /\ Len(s) + (j - Len(s)) = j
    BY <1>2, <1>4, <1>6
  <2> QED
    BY <1>1, <1>2, <1>4, <1>6, <2>1
<1>7. CASE j > Len(s) + Len(t)
  <2>1. j - Len(t) \in Len(s) + 1 .. Len(d) /\ (j - Len(t)) + Len(t) = j
    BY <1>1, <1>2, <1>4, <1>7
  <2>2. ~(j <= Len(s)) /\ j - Len(t) \in DOMAIN d
    BY <1>2, <1>3, <1>4, <1>7, <2>1
  <2> QED
    BY <1>1, <1>2, <1>4, <1>7, <2>1, <2>2
<1> QED
  BY <1>2, <1>4, <1>5, <1>6, <1>7

\* Lines of the gateway's own leave the order and the sources alone.
LEMMA OwnLines ==
  ASSUME NEW s \in Seq(Out), NEW t \in Seq(Out), NEW u \in Seq(Out),
         \A i \in DOMAIN t : t[i].src = 0,
         Ordered(s \o u), Sourced(s \o u)
  PROVE  Ordered((s \o t) \o u) /\ Sourced((s \o t) \o u)
<1> DEFINE d == s \o u
           e == (s \o t) \o u
           back(j) == IF j <= Len(s) THEN j ELSE j - Len(t)
<1>1. Len(s) \in Nat /\ Len(t) \in Nat /\ DOMAIN t = 1 .. Len(t)
  OBVIOUS
<1>2. \A j \in DOMAIN e :
        \/ j \in Len(s) + 1 .. Len(s) + Len(t) /\ e[j] = t[j - Len(s)]
        \/ /\ j \notin Len(s) + 1 .. Len(s) + Len(t)
           /\ back(j) \in DOMAIN d /\ e[j] = d[back(j)]
  BY InsertBack
<1>3. /\ d \in Seq(Out) /\ e \in Seq(Out) /\ Len(e) = Len(d) + Len(t)
      /\ Len(d) = Len(s) + Len(u)
      /\ \A i \in 1 .. Len(s) : e[i] = d[i]
      /\ \A i \in Len(s) + 1 .. Len(d) : e[i + Len(t)] = d[i]
  BY InsertFact
<1> HIDE DEF d, e
<1>4. DOMAIN e = 1 .. Len(e) /\ DOMAIN d = 1 .. Len(d) /\ Len(d) \in Nat /\ Len(e) \in Nat
  BY <1>3
<1>5. \A j \in DOMAIN e : e[j].src # 0 =>
        /\ j \notin Len(s) + 1 .. Len(s) + Len(t)
        /\ back(j) \in DOMAIN d /\ e[j] = d[back(j)]
  <2> SUFFICES ASSUME NEW j \in DOMAIN e, e[j].src # 0,
                      j \in Len(s) + 1 .. Len(s) + Len(t), e[j] = t[j - Len(s)]
               PROVE  FALSE
    BY <1>2
  <2>1. j - Len(s) \in DOMAIN t
    BY <1>1
  <2> QED
    BY <2>1
<1>6. Ordered(e)
  <2> SUFFICES ASSUME NEW i \in DOMAIN e, NEW j \in DOMAIN e, i < j,
                      e[i].src # 0, e[j].src # 0
               PROVE  e[i].src < e[j].src
    BY DEF Ordered
  <2>1. back(i) \in DOMAIN d /\ back(j) \in DOMAIN d
        /\ e[i] = d[back(i)] /\ e[j] = d[back(j)]
    BY <1>5
  <2>2. i \notin Len(s) + 1 .. Len(s) + Len(t) /\ j \notin Len(s) + 1 .. Len(s) + Len(t)
    BY <1>5
  <2>3. back(i) < back(j)
    BY <1>1, <1>4, <2>2
  <2> HIDE DEF back
  <2> QED
    BY <2>1, <2>3 DEF Ordered, d
<1>7. Sourced(e)
  <2>1. ASSUME NEW j \in DOMAIN e, e[j].src # 0
        PROVE  e[j].src \in DOMAIN read \ HiddenLines /\ e[j].kind = read[e[j].src].kind
    <3>1. back(j) \in DOMAIN d /\ e[j] = d[back(j)]
      BY <1>5, <2>1
    <3> HIDE DEF back
    <3> QED
      BY <2>1, <3>1 DEF Sourced, d
  <2>2. ASSUME NEW n \in DOMAIN read \ HiddenLines
        PROVE  \E j \in DOMAIN e : e[j].src = n
    <3>1. PICK i \in DOMAIN d : d[i].src = n
      BY <2>2 DEF Sourced, d
    <3>2. CASE i <= Len(s)
      BY <1>1, <1>3, <1>4, <3>1, <3>2
    <3>3. CASE i > Len(s)
      <4>1. i \in Len(s) + 1 .. Len(d) /\ i + Len(t) \in DOMAIN e
        BY <1>1, <1>3, <1>4, <3>3
      <4> QED
        BY <1>3, <3>1, <4>1
    <3> QED
      BY <1>1, <1>4, <3>2, <3>3
  <2> QED
    BY <2>1, <2>2 DEF Sourced
<1> QED
  BY <1>6, <1>7 DEF e

\* What a scanned line hides: nothing of what came before it, and itself exactly
\* when keep drops it.
LEMMA HiddenFact ==
  ASSUME StreamTypeOK, Skipping, NEW line \in Lines, Scan(line), UNCHANGED sent
  PROVE  /\ HiddenLines' = HiddenLines \cup (IF dropped(line) THEN {Len(read) + 1} ELSE {})
         /\ Skipping'
<1>0. PICK n \in Nat : n = Len(read) + 1
  BY DEF StreamTypeOK
<1>1. /\ Len(read') = n /\ read'[n] = line /\ DOMAIN read' = DOMAIN read \cup {n}
      /\ \A i \in DOMAIN read : read'[i] = read[i]
  BY <1>0, ScanFact
<1>2. DOMAIN read = 1 .. Len(read) /\ Len(read) \in Nat /\ (read = <<>> <=> Len(read) = 0)
      /\ (read' = <<>> <=> Len(read') = 0)
  BY ScanFact DEF StreamTypeOK
<1>3. UNCHANGED hideUsage
  BY DEF Scan, request
<1>4. skipBlank' <=> hideUsage /\ usageOnly(line)
  BY DEF Scan, keep
<1>5. \A i \in DOMAIN read : Hidden(i)' <=> Hidden(i)
  <2> SUFFICES ASSUME NEW i \in DOMAIN read PROVE Hidden(i)' <=> Hidden(i)
    OBVIOUS
  <2>1. read'[i] = read[i] /\ (i > 1 => read'[i - 1] = read[i - 1])
    BY <1>1, <1>2
  <2> QED
    BY <1>3, <2>1 DEF Hidden
<1>6. Hidden(n)' <=> dropped(line)
  <2>1. (n > 1 <=> read # <<>>) /\ n - 1 = Len(read)
    BY <1>0, <1>2
  <2>2. read # <<>> => read'[n - 1] = read[Len(read)]
    <3>1. read # <<>> => Len(read) \in DOMAIN read
      BY <1>2
    <3> QED
      BY <1>1, <2>1, <3>1
  <2>3. Hidden(n)' <=> /\ hideUsage
                       /\ \/ usageOnly(line)
                          \/ IsBlank(line) /\ n > 1 /\ usageOnly(read'[n - 1])
    BY <1>1, <1>3 DEF Hidden
  <2> QED
    BY <2>1, <2>2, <2>3 DEF Skipping, dropped
<1>7. Skipping'
  <2>1. read' # <<>> /\ read'[Len(read')] = line
    BY <1>1, <1>2
  <2> QED
    BY <1>3, <1>4, <2>1 DEF Skipping
<1>8. HiddenLines' = HiddenLines \cup (IF dropped(line) THEN {n} ELSE {})
  <2>1. HiddenLines' = {m \in DOMAIN read' : Hidden(m)'}
    BY DEF HiddenLines
  <2>2. n \notin DOMAIN read
    BY <1>0, <1>2
  <2> QED
    BY <1>1, <1>5, <1>6, <2>1, <2>2 DEF HiddenLines
<1> QED
  BY <1>0, <1>7, <1>8

\* A line is delivered behind all others, or hidden.
LEMMA ScanFaithful ==
  ASSUME StreamTypeOK, Faithful, ScanStep
  PROVE  Faithful'
<1> DEFINE d == Delivered
<1>0. PICK n \in Nat : n = Len(read) + 1
  BY DEF StreamTypeOK
<1>1. PICK line \in Lines : Scan(line) /\ UNCHANGED sent
  BY DEF ScanStep
<1>2. /\ read'[n] = line /\ DOMAIN read' = DOMAIN read \cup {n}
      /\ \A i \in DOMAIN read : read'[i] = read[i]
  BY <1>0, <1>1, ScanFact
<1>3. DOMAIN read = 1 .. Len(read) /\ Len(read) \in Nat
      /\ held \in [Indexes -> Seq(Nat)]
  BY DEF StreamTypeOK
<1>4. /\ HiddenLines' = HiddenLines \cup (IF dropped(line) THEN {n} ELSE {})
      /\ Skipping'
  BY <1>0, <1>1, HiddenFact DEF Faithful
<1>5. d \in Seq(Out) /\ DOMAIN d = 1 .. Len(d) /\ Len(d) \in Nat
  BY ConcatFact DEF StreamTypeOK, Delivered
<1>6. /\ \A i \in DOMAIN d :
           d[i].src # 0 => d[i].src \in DOMAIN read \ HiddenLines
                           /\ d[i].kind = read[d[i].src].kind
      /\ \A m \in DOMAIN read \ HiddenLines : \E i \in DOMAIN d : d[i].src = m
  BY DEF Faithful, Sourced
<1>7. Ordered(d)
  BY DEF Faithful
<1>8. CASE dropped(line)
  <2>1. Delivered' = d
    BY <1>1, <1>8, ScanFact
  <2> HIDE DEF d
  <2>2. Ordered(Delivered')
    BY <1>7, <2>1
  <2>3. Sourced(Delivered)'
    <3>1. HiddenLines' = HiddenLines \cup {n} /\ n \notin DOMAIN read
      BY <1>0, <1>3, <1>4, <1>8
    <3>2. DOMAIN read' \ HiddenLines' = DOMAIN read \ HiddenLines
      BY <1>2, <3>1
    <3> QED
      BY <1>2, <1>6, <2>1, <3>2 DEF Sourced
  <2>4. Ordered(Delivered)'
    BY <2>2 DEF Ordered
  <2> QED
    BY <1>4, <2>3, <2>4 DEF Faithful
<1>9. CASE ~dropped(line)
  <2>1. PICK k \in KeptBack(line, n) : Delivered' = d \o Observed(line, n, k)
    BY <1>0, <1>1, <1>9, ScanFact
  <2> DEFINE out == Observed(line, n, k)
             e == Delivered'
  <2>2. out \in Seq(Out) /\ Len(out) \in {1, 3}
        /\ out[Len(out)].src = n /\ out[Len(out)].kind = line.kind
    BY <1>3, ObservedLines
  <2>3. \A i \in DOMAIN out : i # Len(out) => out[i].src = 0
    BY <1>3, ObservedLines
  <2>4. e = d \o out
    BY <2>1
  <2> HIDE DEF d, out, e
  <2>5. /\ e \in Seq(Out) /\ Len(e) = Len(d) + Len(out)
        /\ \A i \in DOMAIN d : e[i] = d[i]
        /\ \A i \in DOMAIN out : e[Len(d) + i] = out[i]
    BY <1>5, <2>2, <2>4, ConcatFact
  <2>6. DOMAIN e = 1 .. Len(e) /\ Len(e) \in Nat /\ DOMAIN out = 1 .. Len(out)
    BY <2>2, <2>5
  <2>7. Len(e) \in DOMAIN e /\ e[Len(e)].src = n /\ e[Len(e)].kind = line.kind
    <3>1. Len(out) \in DOMAIN out /\ Len(d) + Len(out) = Len(e)
      BY <2>2, <2>5, <2>6
    <3>2. Len(e) \in DOMAIN e
      BY <1>5, <2>2, <2>6, <3>1
    <3>3. e[Len(e)] = out[Len(out)]
      BY <2>5, <3>1
    <3> QED
      BY <2>2, <3>2, <3>3
  <2>8. \A i \in DOMAIN e : i # Len(e) /\ e[i].src # 0 => i \in DOMAIN d /\ e[i] = d[i]
    <3> SUFFICES ASSUME NEW i \in DOMAIN e, i # Len(e), e[i].src # 0, i \notin DOMAIN d
                 PROVE  FALSE
      BY <2>5
    <3>1. i - Len(d) \in DOMAIN out /\ i - Len(d) # Len(out) /\ Len(d) + (i - Len(d)) = i
      BY <1>5, <2>2, <2>5, <2>6
    <3> QED
      BY <2>3, <2>5, <3>1
  <2>9. Ordered(e)
    <3> SUFFICES ASSUME NEW i \in DOMAIN e, NEW j \in DOMAIN e, i < j,
                        e[i].src # 0, e[j].src # 0
                 PROVE  e[i].src < e[j].src
      BY DEF Ordered
    <3>1. i \in DOMAIN d /\ e[i] = d[i]
      BY <2>6, <2>8
    <3>2. d[i].src \in 1 .. Len(read)
      BY <1>3, <1>6, <3>1
    <3>3. CASE j = Len(e)
      BY <1>0, <1>3, <2>7, <3>1, <3>2, <3>3
    <3>4. CASE j # Len(e)
      <4>1. j \in DOMAIN d /\ e[j] = d[j]
        BY <2>8, <3>4
      <4> QED
        BY <1>7, <3>1, <4>1 DEF Ordered
    <3> QED
      BY <3>3, <3>4
  <2>10. Sourced(Delivered)'
    <3>0. HiddenLines' = HiddenLines /\ n \notin HiddenLines
          /\ HiddenLines \subseteq DOMAIN read
      BY <1>0, <1>3, <1>4, <1>9 DEF HiddenLines
    <3>1. ASSUME NEW i \in DOMAIN e, e[i].src # 0
          PROVE  e[i].src \in DOMAIN read' \ HiddenLines' /\ e[i].kind = read'[e[i].src].kind
      <4>1. CASE i = Len(e)
        BY <1>2, <2>7, <3>0, <4>1
      <4>2. CASE i # Len(e)
        <5>1. i \in DOMAIN d /\ e[i] = d[i]
          BY <2>8, <3>1, <4>2
        <5>2. d[i].src \in DOMAIN read \ HiddenLines /\ d[i].kind = read[d[i].src].kind
          BY <1>6, <3>1, <5>1
        <5> QED
          BY <1>2, <3>0, <5>1, <5>2
      <4> QED
        BY <4>1, <4>2
    <3>2. ASSUME NEW m \in DOMAIN read' \ HiddenLines'
          PROVE  \E i \in DOMAIN e : e[i].src = m
      <4>1. CASE m = n
        BY <2>7, <4>1
      <4>2. CASE m \in DOMAIN read
        <5>1. PICK i \in DOMAIN d : d[i].src = m
          BY <1>6, <3>0, <3>2, <4>2
        <5>2. i \in DOMAIN e /\ e[i] = d[i]
          BY <1>5, <2>2, <2>5, <2>6
        <5> QED
          BY <5>1, <5>2
      <4> QED
        BY <1>2, <4>1, <4>2
    <3> QED
      BY <3>1, <3>2 DEF Sourced, e
  <2>11. Ordered(Delivered)'
    BY <2>9 DEF Ordered, e
  <2> QED
    BY <1>4, <2>10, <2>11 DEF Faithful
<1> QED
  BY <1>8, <1>9

\* The lines that the gateway adds on its own.
Added(t) == t \in Seq(Out) /\ \A i \in DOMAIN t : t[i].src = 0

\* A keep-alive, the held text and a terminator are added between what was sent
\* and what is pending.
LEMMA AddedFact ==
  ASSUME StreamTypeOK, KeepAlive \/ NextTail \/ RelayEnds
  PROVE  /\ \E t : Added(t) /\ Delivered' = (sent \o t) \o pending
         /\ UNCHANGED <<read, hideUsage, skipBlank>>
<1>0. sent \in Seq(Out) /\ pending \in Seq(Out) /\ held \in [Indexes -> Seq(Nat)]
  BY DEF StreamTypeOK
<1>1. \A word \in {"comment", "blank", "done", "interrupted"} :
        Written(word) \in Out /\ Written(word).src = 0
  BY WrittenType, 0 \in Nat
<1>2. \A x, y \in Out : x.src = 0 /\ y.src = 0 => Added(<<x, y>>)
  <2> SUFFICES ASSUME NEW x \in Out, NEW y \in Out, x.src = 0, y.src = 0 PROVE Added(<<x, y>>)
    OBVIOUS
  <2>1. <<x, y>> \in Seq(Out) /\ DOMAIN <<x, y>> = {1, 2}
    OBVIOUS
  <2> QED
    BY <2>1 DEF Added
<1>3. Added(<<>>)
  BY DEF Added
<1>4. CASE KeepAlive
  <2>1. Added(<<Written("comment"), Written("blank")>>)
    BY <1>1, <1>2
  <2>2. Delivered' = (sent \o <<Written("comment"), Written("blank")>>) \o pending
    BY <1>4 DEF KeepAlive, Delivered
  <2> QED
    BY <1>4, <2>1, <2>2 DEF KeepAlive, request, observed
<1>5. CASE NextTail
  <2> DEFINE t == <<heldTail, Written("blank")>>
  <2>1. heldTail \in Out /\ heldTail.src = 0
    BY <1>0, heldTailType
  <2>2. Added(t)
    BY <1>1, <1>2, <2>1
  <2>3. pending = <<>> /\ Delivered' = sent \o t
    BY <1>5 DEF NextTail, Delivered
  <2> HIDE DEF t
  <2>4. (sent \o t) \o <<>> = sent \o t
    BY <1>0, <2>2 DEF Added
  <2> QED
    BY <1>5, <2>2, <2>3, <2>4 DEF NextTail, request
<1>6. CASE RelayEnds
  <2>1. Added(terminator)
    BY <1>1, <1>2, <1>3 DEF terminator
  <2>2. Delivered' = (sent \o terminator) \o pending
    BY <1>6 DEF RelayEnds, Delivered
  <2> QED
    BY <1>6, <2>1, <2>2 DEF RelayEnds, request
<1> QED
  BY <1>4, <1>5, <1>6

\* Nothing is hidden or shown again without a line being read.
LEMMA HiddenKept ==
  ASSUME Skipping, UNCHANGED <<read, hideUsage, skipBlank>>
  PROVE  UNCHANGED HiddenLines /\ Skipping'
<1>1. \A n \in DOMAIN read : Hidden(n)' <=> Hidden(n)
  BY DEF Hidden
<1>2. HiddenLines' = {n \in DOMAIN read' : Hidden(n)'}
  BY DEF HiddenLines
<1> QED
  BY <1>1, <1>2 DEF HiddenLines, Skipping

\* Every step keeps the lines in order.
LEMMA FaithfulStep ==
  ASSUME StreamTypeOK, Faithful, [Next]_vars
  PROVE  Faithful'
<1>1. CASE ScanStep
  BY <1>1, ScanFaithful
<1>2. CASE QuietStep
  <2>1. UNCHANGED <<read, hideUsage, skipBlank>> /\ Delivered' = Delivered
    BY <1>2 DEF QuietStep
  <2>2. UNCHANGED HiddenLines /\ Skipping'
    BY <2>1, HiddenKept DEF Faithful
  <2>3. Ordered(Delivered)' /\ Sourced(Delivered)'
    BY <2>1, <2>2 DEF Faithful, Ordered, Sourced
  <2> QED
    BY <2>2, <2>3 DEF Faithful
<1>3. CASE KeepAlive \/ NextTail \/ RelayEnds
  <2>1. PICK t : Added(t) /\ Delivered' = (sent \o t) \o pending
    BY <1>3, AddedFact
  <2>2. UNCHANGED <<read, hideUsage, skipBlank>>
    BY <1>3, AddedFact
  <2>3. UNCHANGED HiddenLines /\ Skipping'
    BY <2>2, HiddenKept DEF Faithful
  <2> DEFINE e == (sent \o t) \o pending
  <2>4. Ordered(e) /\ Sourced(e)
    <3>1. sent \in Seq(Out) /\ pending \in Seq(Out) /\ t \in Seq(Out)
          /\ \A i \in DOMAIN t : t[i].src = 0
      BY <2>1 DEF StreamTypeOK, Added
    <3>2. Ordered(sent \o pending) /\ Sourced(sent \o pending)
      BY DEF Faithful, Delivered
    <3> QED
      BY <3>1, <3>2, OwnLines
  <2>5. Delivered' = e
    BY <2>1
  <2> HIDE DEF e
  <2>6. Ordered(Delivered)' /\ Sourced(Delivered)'
    BY <2>2, <2>3, <2>4, <2>5 DEF Ordered, Sourced
  <2> QED
    BY <2>3, <2>6 DEF Faithful
<1> QED
  BY <1>1, <1>2, <1>3, StepShapes

\* Nothing has been read.
LEMMA FaithfulInit == Init => Faithful
<1> SUFFICES ASSUME Init PROVE Faithful
  OBVIOUS
<1>1. read = <<>> /\ Delivered = <<>> /\ ~skipBlank
  BY DEF Init, Delivered
<1>2. Skipping
  BY <1>1 DEF Skipping
<1> QED
  BY <1>1, <1>2 DEF Faithful, Ordered, Sourced

\* However long the stream and whatever the gateway adds to it, every line of the
\* provider's reaches the client once and in order, except those it is not to see.
THEOREM RelaysFaithfully == Spec => []RelayFaithful
<1>1. StreamTypeOK /\ Faithful => RelayFaithful
  <2> SUFFICES ASSUME StreamTypeOK, Faithful PROVE RelayFaithful
    OBVIOUS
  <2> DEFINE d == Delivered
  <2>1. Ordered(d) /\ Sourced(d)
    BY DEF Faithful
  <2>2. DOMAIN read = 1 .. Len(read)
    BY DEF StreamTypeOK
  <2> HIDE DEF d
  <2>3. \A n \in {d[i].src : i \in DOMAIN d} \ {0} : n \in DOMAIN read /\ ~Hidden(n)
    BY <2>1 DEF Sourced, HiddenLines
  <2>4. \A n \in DOMAIN read : ~Hidden(n) => n \in {d[i].src : i \in DOMAIN d} \ {0}
    BY <2>1, <2>2 DEF Sourced, HiddenLines
  <2>5. {d[i].src : i \in DOMAIN d} \ {0} = {n \in DOMAIN read : ~Hidden(n)}
    BY <2>3, <2>4
  <2> QED
    BY <2>1, <2>5 DEF RelayFaithful, Ordered, d
<1> QED
  BY StreamInit, StreamTypeStep, FaithfulInit, FaithfulStep, <1>1, PTL DEF Spec

-----------------------------------------------------------------------------
(* ProxyStream: the end of a response.                                     *)

DoneSeen == sawDone <=> Dones(read) # {}

\* The provider's [DONE] is never hidden.
LEMMA DoneShown ==
  ASSUME StreamTypeOK, NEW n \in Dones(read)
  PROVE  n \in DOMAIN read \ HiddenLines /\ read[n].kind = "done" /\ n # 0
<1>1. n \in DOMAIN read /\ read[n].kind = "done" /\ n # 0 /\ read[n] \in Lines
  BY DEF Dones, StreamTypeOK
<1>2. ~read[n].usage
  BY <1>1, ChoiceType
<1> QED
  BY <1>1, <1>2 DEF HiddenLines, Hidden, usageOnly, IsBlank

\* The flag is set by the provider's [DONE] and by nothing else.
LEMMA DoneSeenStep ==
  ASSUME StreamTypeOK, DoneSeen, [Next]_vars
  PROVE  DoneSeen'
<1>1. CASE ScanStep
  <2>1. PICK line \in Lines : Scan(line) /\ UNCHANGED sent
    BY <1>1 DEF ScanStep
  <2>2. PICK n \in Nat : n = Len(read) + 1
    BY DEF StreamTypeOK
  <2>3. /\ read'[n] = line /\ DOMAIN read' = DOMAIN read \cup {n}
        /\ \A i \in DOMAIN read : read'[i] = read[i]
    BY <2>1, <2>2, ScanFact
  <2>4. sawDone' <=> sawDone \/ line.kind = "done"
    BY <2>1 DEF Scan
  <2>5. Dones(read') # {} <=> Dones(read) # {} \/ line.kind = "done"
    BY <2>3 DEF Dones
  <2> QED
    BY <2>4, <2>5 DEF DoneSeen, Dones
<1>2. CASE ~ScanStep
  <2>1. UNCHANGED <<read, sawDone>>
    BY <1>2, StepShapes DEF QuietStep, KeepAlive, NextTail, RelayEnds, observed
  <2> QED
    BY <2>1 DEF DoneSeen, Dones
<1> QED
  BY <1>1, <1>2

-----------------------------------------------------------------------------
(* ProxyStream: events stay apart.                                         *)

Data(w) == w.kind \in {"chunk", "malformed", "done", "interrupted"}

\* The last event has not been ended by a blank line.
Open(s) == \E i \in DOMAIN s : Data(s[i]) /\ \A k \in i + 1 .. Len(s) : s[k].kind # "blank"

\* As long as the provider's events are apart, so are the client's, and an event
\* is open for the client only while it is open for the gateway.
Framing ==
  Framed(read) /\ (upstream = "open" \/ ~Open(read)) =>
    Framed(Delivered) /\ (Open(Delivered) => Open(read) /\ ~skipBlank)

\* One more line joins two events only if it carries data and the last event is
\* open; then it opens one, unless it is blank and ends it.
LEMMA FramedAppend ==
  ASSUME NEW S, NEW s \in Seq(S), NEW x \in S
  PROVE  /\ Framed(Append(s, x)) <=> Framed(s) /\ (Data(x) => ~Open(s))
         /\ Open(Append(s, x)) <=> Data(x) \/ (Open(s) /\ x.kind # "blank")
<1> DEFINE e == Append(s, x)
           m == Len(s) + 1
<1>1. /\ DOMAIN e = DOMAIN s \cup {m} /\ e[m] = x /\ Len(e) = m
      /\ \A i \in DOMAIN s : e[i] = s[i]
  BY AppendFact
<1>2. DOMAIN s = 1 .. Len(s) /\ Len(s) \in Nat /\ m = Len(s) + 1
  OBVIOUS
<1> HIDE DEF e, m
<1>3. ASSUME Framed(e) PROVE Framed(s) /\ (Data(x) => ~Open(s))
  <2>1. Framed(s)
    <3> SUFFICES ASSUME NEW i \in DOMAIN s, NEW j \in DOMAIN s, i < j,
                        DataAt(s, i), DataAt(s, j)
                 PROVE  \E k \in i + 1 .. j - 1 : s[k].kind = "blank"
      BY DEF Framed
    <3>1. i \in DOMAIN e /\ j \in DOMAIN e /\ DataAt(e, i) /\ DataAt(e, j)
      BY <1>1 DEF DataAt
    <3>2. PICK k \in i + 1 .. j - 1 : e[k].kind = "blank"
      BY <1>3, <3>1 DEF Framed
    <3>3. k \in DOMAIN s
      BY <1>2
    <3> QED
      BY <1>1, <3>2, <3>3
  <2>2. ASSUME Data(x), Open(s) PROVE FALSE
    <3>1. PICK i \in DOMAIN s : Data(s[i]) /\ \A k \in i + 1 .. Len(s) : s[k].kind # "blank"
      BY <2>2 DEF Open
    <3>2. i \in DOMAIN e /\ m \in DOMAIN e /\ i < m /\ DataAt(e, i) /\ DataAt(e, m)
      BY <1>1, <1>2, <2>2, <3>1 DEF DataAt, Data
    <3>3. PICK k \in i + 1 .. m - 1 : e[k].kind = "blank"
      BY <1>3, <3>2 DEF Framed
    <3>4. k \in DOMAIN s /\ k \in i + 1 .. Len(s)
      BY <1>2
    <3> QED
      BY <1>1, <3>1, <3>3, <3>4
  <2> QED
    BY <2>1, <2>2
<1>4. ASSUME Framed(s), Data(x) => ~Open(s) PROVE Framed(e)
  <2> SUFFICES ASSUME NEW i \in DOMAIN e, NEW j \in DOMAIN e, i < j,
                      DataAt(e, i), DataAt(e, j)
               PROVE  \E k \in i + 1 .. j - 1 : e[k].kind = "blank"
    BY DEF Framed
  <2>1. i \in DOMAIN s /\ DataAt(s, i) /\ Data(s[i])
    BY <1>1, <1>2 DEF DataAt, Data
  <2>2. CASE j \in DOMAIN s
    <3>1. DataAt(s, j)
      BY <1>1, <2>2 DEF DataAt
    <3>2. PICK k \in i + 1 .. j - 1 : s[k].kind = "blank"
      <4>1. i < j
        OBVIOUS
      <4> QED
        BY <1>4, <2>1, <2>2, <3>1, <4>1 DEF Framed
    <3>3. k \in DOMAIN s
      <4>1. i \in 1 .. Len(s) /\ j \in 1 .. Len(s)
        BY <1>2, <2>1, <2>2
      <4> QED
        BY <1>2, <4>1
    <3> QED
      BY <1>1, <3>2, <3>3
  <2>3. CASE j = m
    <3>1. ~Open(s)
      BY <1>1, <1>4, <2>3 DEF DataAt, Data
    <3>2. PICK k \in i + 1 .. Len(s) : s[k].kind = "blank"
      BY <2>1, <3>1 DEF Open
    <3>3. k \in DOMAIN s /\ k \in i + 1 .. j - 1
      BY <1>2, <2>1, <2>3
    <3> QED
      BY <1>1, <3>2, <3>3
  <2> QED
    BY <1>1, <2>2, <2>3
<1>5. ASSUME Open(e) PROVE Data(x) \/ (Open(s) /\ x.kind # "blank")
  <2>1. PICK i \in DOMAIN e : Data(e[i]) /\ \A k \in i + 1 .. m : e[k].kind # "blank"
    BY <1>1, <1>5 DEF Open
  <2>2. CASE i = m
    BY <1>1, <2>1, <2>2
  <2>3. CASE i \in DOMAIN s
    <3>1. Data(s[i]) /\ m \in i + 1 .. m
      BY <1>1, <1>2, <2>1, <2>3
    <3>2. \A k \in i + 1 .. Len(s) : k \in DOMAIN s /\ k \in i + 1 .. m
      BY <1>2, <2>3
    <3>3. \A k \in i + 1 .. Len(s) : s[k].kind # "blank"
      BY <1>1, <2>1, <3>2
    <3> QED
      BY <1>1, <2>1, <2>3, <3>1, <3>3 DEF Open
  <2> QED
    BY <1>1, <2>2, <2>3
<1>6. ASSUME Data(x) PROVE Open(e)
  <2>1. m \in DOMAIN e /\ Data(e[m]) /\ m + 1 .. Len(e) = {}
    BY <1>1, <1>2, <1>6
  <2> QED
    BY <2>1 DEF Open
<1>7. ASSUME Open(s), x.kind # "blank" PROVE Open(e)
  <2>1. PICK i \in DOMAIN s : Data(s[i]) /\ \A k \in i + 1 .. Len(s) : s[k].kind # "blank"
    BY <1>7 DEF Open
  <2>2. i \in DOMAIN e /\ Data(e[i])
    BY <1>1, <2>1
  <2>3. \A k \in i + 1 .. m : k = m \/ (k \in i + 1 .. Len(s) /\ k \in DOMAIN s)
    BY <1>2, <2>1
  <2>4. \A k \in i + 1 .. m : e[k].kind # "blank"
    BY <1>1, <1>7, <2>1, <2>3
  <2> QED
    BY <1>1, <2>2, <2>4 DEF Open
<1> QED
  BY <1>3, <1>4, <1>5, <1>6, <1>7 DEF e

\* What was sent first stays framed.
LEMMA FramedPrefix ==
  ASSUME NEW S, NEW s \in Seq(S), NEW t \in Seq(S), Framed(s \o t)
  PROVE  Framed(s)
<1> DEFINE e == s \o t
<1>1. /\ DOMAIN s = 1 .. Len(s) /\ Len(s) \in Nat
      /\ \A i \in DOMAIN s : i \in DOMAIN e /\ e[i] = s[i]
  OBVIOUS
<1>2. Framed(e)
  OBVIOUS
<1> HIDE DEF e
<1> SUFFICES ASSUME NEW i \in DOMAIN s, NEW j \in DOMAIN s, i < j,
                    DataAt(s, i), DataAt(s, j)
             PROVE  \E k \in i + 1 .. j - 1 : s[k].kind = "blank"
  BY DEF Framed
<1>3. DataAt(e, i) /\ DataAt(e, j)
  BY <1>1 DEF DataAt
<1>4. PICK k \in i + 1 .. j - 1 : e[k].kind = "blank"
  BY <1>1, <1>2, <1>3 DEF Framed
<1>5. k \in DOMAIN s
  BY <1>1
<1> QED
  BY <1>1, <1>4, <1>5

\* Lines without data between others neither join events nor open one.
LEMMA FramedInsert ==
  ASSUME NEW s \in Seq(Out), NEW t \in Seq(Out), NEW u \in Seq(Out),
         \A i \in DOMAIN t : ~Data(t[i]), Framed(s \o u)
  PROVE  /\ Framed((s \o t) \o u)
         /\ Open((s \o t) \o u) => Open(s \o u)
<1> DEFINE d == s \o u
           e == (s \o t) \o u
           a == Len(s)
           n == Len(t)
           back(j) == IF j <= a THEN j ELSE j - n
           forth(i) == IF i <= a THEN i ELSE i + n
<1>1. a \in Nat /\ n \in Nat /\ DOMAIN t = 1 .. n
  OBVIOUS
<1>2. \A j \in DOMAIN e :
        \/ j \in a + 1 .. a + n /\ e[j] = t[j - a]
        \/ /\ j \notin a + 1 .. a + n
           /\ back(j) \in DOMAIN d /\ e[j] = d[back(j)]
  BY InsertBack
<1>3. /\ d \in Seq(Out) /\ e \in Seq(Out) /\ Len(e) = Len(d) + n
      /\ Len(d) = a + Len(u)
      /\ \A i \in 1 .. a : e[i] = d[i]
      /\ \A i \in a + 1 .. Len(d) : e[i + n] = d[i]
  BY InsertFact
<1>4. Framed(d)
  OBVIOUS
<1> HIDE DEF d, e, a, n
<1>5. DOMAIN e = 1 .. Len(e) /\ DOMAIN d = 1 .. Len(d) /\ Len(d) \in Nat /\ Len(e) \in Nat
  BY <1>3
<1>6. \A j \in DOMAIN e : Data(e[j]) =>
        j \notin a + 1 .. a + n /\ back(j) \in DOMAIN d /\ e[j] = d[back(j)]
  <2> SUFFICES ASSUME NEW j \in DOMAIN e, Data(e[j]), j \in a + 1 .. a + n, e[j] = t[j - a]
               PROVE  FALSE
    BY <1>2
  <2>1. j - a \in DOMAIN t
    BY <1>1
  <2> QED
    BY <2>1
<1>7. ASSUME NEW i \in DOMAIN d PROVE forth(i) \in DOMAIN e /\ e[forth(i)] = d[i]
  <2>1. i \in Nat /\ 1 <= i /\ i <= Len(d)
    BY <1>5
  <2>2. CASE i <= a
    <3>1. forth(i) = i /\ i \in 1 .. a
      BY <1>1, <2>1, <2>2
    <3>2. i \in 1 .. Len(e)
      BY <1>1, <1>3, <1>5, <2>1
    <3> QED
      BY <1>3, <1>5, <3>1, <3>2
  <2>3. CASE ~(i <= a)
    <3>1. forth(i) = i + n /\ i \in a + 1 .. Len(d)
      BY <1>1, <1>5, <2>1, <2>3
    <3>2. i + n \in 1 .. Len(e)
      BY <1>1, <1>3, <1>5, <2>1
    <3> QED
      BY <1>3, <1>5, <3>1, <3>2
  <2> QED
    BY <2>2, <2>3
<1>8. \A i \in DOMAIN e, k \in DOMAIN d :
        i \notin a + 1 .. a + n =>
          /\ back(i) < k => i < forth(k)
          /\ k < back(i) => forth(k) < i
  BY <1>1, <1>5
<1>9. \A i, j \in DOMAIN e :
        i \notin a + 1 .. a + n /\ j \notin a + 1 .. a + n /\ i < j => back(i) < back(j)
  BY <1>1, <1>5
<1> HIDE DEF back, forth
<1>10. Framed(e)
  <2> SUFFICES ASSUME NEW i \in DOMAIN e, NEW j \in DOMAIN e, i < j,
                      DataAt(e, i), DataAt(e, j)
               PROVE  \E k \in i + 1 .. j - 1 : e[k].kind = "blank"
    BY DEF Framed
  <2>1. /\ i \notin a + 1 .. a + n /\ back(i) \in DOMAIN d /\ e[i] = d[back(i)]
        /\ j \notin a + 1 .. a + n /\ back(j) \in DOMAIN d /\ e[j] = d[back(j)]
    BY <1>6 DEF DataAt, Data
  <2>2. back(i) < back(j) /\ DataAt(d, back(i)) /\ DataAt(d, back(j))
    BY <1>9, <2>1 DEF DataAt
  <2>3. PICK k \in back(i) + 1 .. back(j) - 1 : d[k].kind = "blank"
    BY <1>4, <2>1, <2>2 DEF Framed
  <2>4. k \in DOMAIN d /\ back(i) < k /\ k < back(j)
    BY <1>5, <2>1, <2>3
  <2>5. i < forth(k) /\ forth(k) < j /\ forth(k) \in DOMAIN e /\ e[forth(k)].kind = "blank"
    BY <1>7, <1>8, <2>1, <2>3, <2>4
  <2>6. forth(k) \in i + 1 .. j - 1
    BY <1>5, <2>5
  <2> QED
    BY <2>5, <2>6
<1>11. ASSUME Open(e) PROVE Open(d)
  <2>1. PICK i \in DOMAIN e : Data(e[i]) /\ \A k \in i + 1 .. Len(e) : e[k].kind # "blank"
    BY <1>11 DEF Open
  <2>2. i \notin a + 1 .. a + n /\ back(i) \in DOMAIN d /\ e[i] = d[back(i)]
    BY <1>6, <2>1
  <2>3. ASSUME NEW k \in back(i) + 1 .. Len(d) PROVE d[k].kind # "blank"
    <3>1. k \in DOMAIN d /\ back(i) < k
      BY <1>5, <2>2
    <3>2. forth(k) \in DOMAIN e /\ e[forth(k)] = d[k] /\ i < forth(k)
      BY <1>7, <1>8, <2>2, <3>1
    <3>3. forth(k) \in i + 1 .. Len(e)
      BY <1>5, <3>2
    <3> QED
      BY <2>1, <3>2, <3>3
  <2> QED
    BY <2>1, <2>2, <2>3 DEF Open
<1> QED
  BY <1>10, <1>11 DEF d, e

\* Lines that are put at the end one after the other.
LEMMA AppendEach ==
  ASSUME NEW S, NEW s \in Seq(S)
  PROVE  /\ s \o <<>> = s
         /\ \A x \in S : s \o <<x>> = Append(s, x)
         /\ \A x, y \in S : s \o <<x, y>> = Append(Append(s, x), y)
         /\ \A x, y, z \in S : s \o <<x, y, z>> = Append(Append(Append(s, x), y), z)
OBVIOUS

\* Short sequences, element by element.
LEMMA ShortFact ==
  ASSUME NEW S, NEW t \in Seq(S)
  PROVE  /\ Len(t) = 1 => t[1] \in S /\ t = <<t[1]>>
         /\ Len(t) = 3 => /\ t[1] \in S /\ t[2] \in S /\ t[3] \in S
                          /\ t = <<t[1], t[2], t[3]>>
<1>1. \A i \in 1 .. Len(t) : t[i] \in S
  OBVIOUS
<1>2. Len(t) = 1 => t[1] \in S
  BY <1>1
<1>3. Len(t) = 3 => t[1] \in S /\ t[2] \in S /\ t[3] \in S
  BY <1>1
<1>4. Len(t) = 1 => t = <<t[1]>>
  OBVIOUS
<1>5. Len(t) = 3 => t = <<t[1], t[2], t[3]>>
  OBVIOUS
<1> QED
  BY <1>2, <1>3, <1>4, <1>5

\* An event that follows a closed one, with its blank line, leaves none open.
LEMMA FramedEvent ==
  ASSUME NEW s \in Seq(Out), NEW x \in Out, NEW y \in Out, y.kind = "blank",
         Framed(s), ~Open(s)
  PROVE  /\ s \o <<x, y>> \in Seq(Out)
         /\ Framed(s \o <<x, y>>) /\ ~Open(s \o <<x, y>>)
<1> DEFINE a == Append(s, x)
           b == Append(a, y)
<1>1. s \o <<x, y>> = b /\ a \in Seq(Out) /\ b \in Seq(Out)
  BY AppendEach
<1>2. Framed(a)
  BY FramedAppend
<1> HIDE DEF a
<1>3. Framed(b) /\ ~Open(b)
  BY <1>1, <1>2, FramedAppend DEF Data
<1> QED
  BY <1>1, <1>3

\* One line of the provider's, whether it is relayed, hidden or brings the held
\* text with it.
LEMMA FramingScan ==
  ASSUME StreamTypeOK, Framing, ScanStep
  PROVE  Framing'
<1>1. PICK line \in Lines : Scan(line) /\ UNCHANGED sent
  BY DEF ScanStep
<1>2. PICK n \in Nat : n = Len(read) + 1
  BY DEF StreamTypeOK
<1>3. PICK k \in KeptBack(line, n) :
        ~dropped(line) => Delivered' = Delivered \o Observed(line, n, k)
  BY <1>1, <1>2, ScanFact
<1>4. dropped(line) => Delivered' = Delivered
  BY <1>1, ScanFact
<1>5. PICK out : out = Observed(line, n, k)
  OBVIOUS
<1>6. ObservedShape(line, n, k, out)
  BY <1>5, ObservedFact DEF StreamTypeOK
<1>7. PICK d \in Seq(Out) : d = Delivered
  <2>1. Delivered \in Seq(Out)
    BY ConcatFact DEF StreamTypeOK, Delivered
  <2> QED
    BY <2>1
<1>8. read \in Seq(Lines) /\ read' = Append(read, line) /\ upstream = "open"
  BY <1>1 DEF Scan, StreamTypeOK
<1>9. (skipBlank' <=> hideUsage /\ usageOnly(line))
  BY <1>1 DEF Scan, keep
<1>10. line.kind \in {"comment", "blank", "done", "malformed", "chunk"}
       /\ (usageOnly(line) => line.kind = "chunk")
  BY ChoiceType DEF Line, usageOnly
<1> SUFFICES ASSUME Framed(read')
             PROVE  Framed(Delivered') /\ (Open(Delivered') => Open(read') /\ ~skipBlank')
  BY DEF Framing, Framed, DataAt, Open, Data
<1>11. /\ Framed(read) /\ (Data(line) => ~Open(read))
       /\ Open(read') <=> Data(line) \/ (Open(read) /\ line.kind # "blank")
  BY <1>8, FramedAppend
<1>12. Framed(d) /\ (Open(d) => Open(read) /\ ~skipBlank)
  BY <1>7, <1>8, <1>11 DEF Framing
<1>13. CASE dropped(line)
  <2>1. Delivered' = d
    BY <1>4, <1>7, <1>13
  <2>2. ~Open(d)
    <3>1. CASE hideUsage /\ usageOnly(line)
      BY <1>10, <1>11, <1>12, <3>1 DEF Data
    <3>2. CASE skipBlank /\ IsBlank(line)
      BY <1>12, <3>2
    <3> QED
      BY <1>13, <3>1, <3>2 DEF dropped
  <2> QED
    BY <1>12, <2>1, <2>2
<1>14. CASE ~dropped(line) /\ Len(out) = 1
  <2>1. out[1] \in Out /\ out = <<out[1]>> /\ out[1].kind = line.kind
    BY <1>6, <1>14, ShortFact DEF ObservedShape
  <2>2. Delivered' = Append(d, out[1])
    <3>1. Delivered' = d \o out
      BY <1>3, <1>5, <1>7, <1>14
    <3>2. d \o <<out[1]>> = Append(d, out[1])
      BY <2>1, AppendEach
    <3> QED
      BY <2>1, <3>1, <3>2
  <2>3. /\ Framed(Append(d, out[1])) <=> Framed(d) /\ (Data(out[1]) => ~Open(d))
        /\ Open(Append(d, out[1])) <=> Data(out[1]) \/ (Open(d) /\ out[1].kind # "blank")
    BY <2>1, FramedAppend
  <2>4. Data(out[1]) <=> Data(line)
    BY <2>1 DEF Data
  <2>5. ~skipBlank'
    BY <1>9, <1>14 DEF dropped
  <2> QED
    BY <1>11, <1>12, <2>1, <2>2, <2>3, <2>4, <2>5
<1>15. CASE ~dropped(line) /\ Len(out) = 3
  <2>1. line.kind = "done" /\ ~skipBlank'
    BY <1>6, <1>9, <1>14, <1>15 DEF ObservedShape, dropped
  <2>2. /\ out[1] \in Out /\ out[2] \in Out /\ out[3] \in Out
        /\ out = <<out[1], out[2], out[3]>> /\ out[3].kind = "done"
    BY <1>6, <1>15, ShortFact DEF ObservedShape
  <2>3. out[2].kind = "blank"
    BY <1>6, <1>15, WrittenType, 0 \in Nat DEF ObservedShape
  <2>4. Data(line) /\ Data(out[3])
    BY <2>1, <2>2 DEF Data
  <2>5. ~Open(d) /\ Open(read')
    BY <1>11, <1>12, <2>4
  <2> DEFINE e == d \o <<out[1], out[2]>>
  <2>6. e \in Seq(Out) /\ Framed(e) /\ ~Open(e)
    BY <1>12, <2>2, <2>3, <2>5, FramedEvent
  <2>7. Delivered' = Append(e, out[3])
    <3>1. Delivered' = d \o out
      BY <1>3, <1>5, <1>7, <1>15
    <3>2. /\ d \o <<out[1], out[2], out[3]>> = Append(Append(Append(d, out[1]), out[2]), out[3])
          /\ e = Append(Append(d, out[1]), out[2])
      BY <2>2, AppendEach
    <3> QED
      BY <2>2, <3>1, <3>2
  <2> HIDE DEF e
  <2>8. Framed(Append(e, out[3]))
    BY <2>2, <2>6, FramedAppend
  <2> QED
    BY <2>1, <2>5, <2>7, <2>8
<1> QED
  BY <1>6, <1>13, <1>14, <1>15 DEF ObservedShape

\* What is added to the lines leaves the client's events apart.
LEMMA FramingAdds ==
  ASSUME StreamTypeOK, StreamEnded, Framing, KeepAlive \/ NextTail \/ RelayEnds,
         Framed(read), upstream = "open" \/ ~Open(read)
  PROVE  Framed(Delivered') /\ (Open(Delivered') => Open(Delivered))
<1>1. sent \in Seq(Out) /\ pending \in Seq(Out) /\ Framed(sent \o pending)
      /\ (Open(sent \o pending) => Open(read))
  BY DEF StreamTypeOK, Framing, Delivered
<1>2. /\ Written("blank") \in Out /\ Written("blank").kind = "blank"
      /\ Written("comment") \in Out /\ Written("comment").kind = "comment"
      /\ Written("done") \in Out /\ Written("interrupted") \in Out
  BY WrittenType, 0 \in Nat
<1>3. CASE KeepAlive
  <2>1. Delivered' = (sent \o <<Written("comment"), Written("blank")>>) \o pending
    BY <1>3 DEF KeepAlive, Delivered
  <2> DEFINE t == <<Written("comment"), Written("blank")>>
  <2>2. t \in Seq(Out) /\ \A i \in DOMAIN t : ~Data(t[i])
    BY <1>2 DEF Data
  <2>3. Delivered' = (sent \o t) \o pending
    BY <2>1
  <2> HIDE DEF t
  <2>4. Framed((sent \o t) \o pending) /\ (Open((sent \o t) \o pending) => Open(sent \o pending))
    BY <1>1, <2>2, FramedInsert
  <2> QED
    BY <2>3, <2>4 DEF Delivered
<1>4. CASE NextTail
  <2>1. pending = <<>> /\ upstream # "open" /\ Delivered' = sent \o <<heldTail, Written("blank")>>
    BY <1>4 DEF NextTail, Delivered
  <2>2. Framed(sent) /\ ~Open(sent)
    BY <1>1, <2>1, AppendEach
  <2>3. heldTail \in Out
    BY heldTailType DEF StreamTypeOK
  <2> QED
    BY <1>1, <1>2, <2>1, <2>2, <2>3, FramedEvent
<1>5. CASE RelayEnds
  <2>1. pending = <<>> /\ upstream # "open" /\ pending' = pending /\ sent' = sent \o terminator
    BY <1>5 DEF RelayEnds, StreamEnded
  <2>2. Framed(sent) /\ ~Open(sent)
    BY <1>1, <2>1, AppendEach
  <2>3. \/ terminator = <<Written("done"), Written("blank")>>
        \/ terminator = <<Written("interrupted"), Written("blank")>>
        \/ terminator = <<>>
    BY DEF terminator
  <2>4. sent \o terminator \in Seq(Out) /\ Framed(sent \o terminator)
        /\ ~Open(sent \o terminator)
    <3>1. CASE terminator = <<>>
      BY <1>1, <2>2, <3>1, AppendEach
    <3>2. CASE terminator # <<>>
      <4>1. PICK x \in Out : terminator = <<x, Written("blank")>>
        BY <1>2, <2>3, <3>2
      <4> QED
        BY <1>1, <1>2, <2>2, <4>1, FramedEvent
    <3> QED
      BY <3>1, <3>2
  <2>5. Delivered' = sent \o terminator
    BY <2>1, <2>4, AppendEach DEF Delivered
  <2> QED
    BY <2>4, <2>5
<1> QED
  BY <1>3, <1>4, <1>5

\* Every step keeps the events apart.
LEMMA FramingStep ==
  ASSUME StreamTypeOK, StreamEnded, Framing, [Next]_vars
  PROVE  Framing'
<1>1. CASE ScanStep
  BY <1>1, FramingScan
<1>2. CASE ~ScanStep
  <2>1. UNCHANGED <<read, skipBlank>>
    BY <1>2, StepShapes DEF QuietStep, KeepAlive, NextTail, RelayEnds, observed
  <2>2. upstream' = "open" => upstream = "open"
    BY DEF Next, Relay, vars, PrimeLine, NextLine, Scan, PrimeEnds, OpenWriter, SendPending,
           NextTail, NextEnds, RelayEnds, WriterUnavailable, KeepAlive, UpstreamEnds,
           ClientLeaves
  <2>3. ASSUME Framed(read), upstream = "open" \/ ~Open(read)
        PROVE  Framed(Delivered') /\ (Open(Delivered') => Open(Delivered))
    <3>1. CASE QuietStep
      BY <2>3, <3>1 DEF QuietStep, Framing
    <3>2. CASE KeepAlive \/ NextTail \/ RelayEnds
      BY <2>3, <3>2, FramingAdds
    <3> QED
      BY <1>2, <3>1, <3>2, StepShapes
  <2> QED
    BY <2>1, <2>2, <2>3 DEF Framing, Framed, DataAt, Open, Data
<1> QED
  BY <1>1, <1>2

\* A stream whose events were separated stays so for the client, whatever the
\* relay hides, adds or fills a silence with.
THEOREM EventsStayApart == Spec => []FramingKept
<1>1. Init => Framing
  <2> SUFFICES ASSUME Init PROVE Framing
    OBVIOUS
  <2>1. Delivered = <<>>
    BY DEF Init, Delivered
  <2>2. Framed(Delivered) /\ ~Open(Delivered)
    BY <2>1 DEF Framed, Open
  <2> QED
    BY <2>2 DEF Framing
<1>2. StreamTypeOK /\ Framing => FramingKept
  <2> SUFFICES ASSUME StreamTypeOK, Framing, Framed(read), read = <<>> \/ IsBlank(Last(read))
               PROVE  Framed(sent)
    BY DEF FramingKept, Whole
  <2>1. ~Open(read)
    <3>1. CASE read = <<>>
      BY <3>1 DEF Open
    <3>2. CASE read # <<>>
      <4>1. read \in Seq(Lines) /\ Len(read) \in Nat /\ DOMAIN read = 1 .. Len(read)
        BY DEF StreamTypeOK
      <4>2. read[Len(read)].kind = "blank"
        BY <3>2 DEF IsBlank, Last
      <4>3. \A i \in DOMAIN read : i # Len(read) => Len(read) \in i + 1 .. Len(read)
        BY <4>1
      <4> QED
        BY <4>1, <4>2, <4>3 DEF Open, Data
    <3> QED
      BY <3>1, <3>2
  <2>2. Framed(sent \o pending)
    BY <2>1 DEF Framing, Delivered
  <2> QED
    BY <2>2, FramedPrefix DEF StreamTypeOK
<1> QED
  BY StreamInit, StreamTypeStep, EndedStep, FramingStep, <1>1, <1>2, PTL DEF Spec

-----------------------------------------------------------------------------
(* ProxyStream: nothing follows the end.                                   *)

\* Once [DONE] is the last data read, nothing is held, and no data is delivered
\* behind it until the relay ends.
Closing(d, m) == \A i, j \in DOMAIN d : i < j /\ d[i].src = m => ~DataAt(d, j)

DoneCloses ==
  \A m \in Dones(read) : LastData(read, m) =>
    ~Holding /\ (phase # "closed" => Closing(Delivered, m))

\* Lines without data may come behind it or between.
LEMMA ClosingInsert ==
  ASSUME NEW s \in Seq(Out), NEW t \in Seq(Out), NEW u \in Seq(Out), NEW m \in Nat \ {0},
         Closing(s \o u, m), \A i \in DOMAIN t : t[i].src # m /\ ~DataAt(t, i)
  PROVE  Closing((s \o t) \o u, m)
<1> DEFINE d == s \o u
           e == (s \o t) \o u
           back(j) == IF j <= Len(s) THEN j ELSE j - Len(t)
<1>1. Len(s) \in Nat /\ Len(t) \in Nat /\ DOMAIN t = 1 .. Len(t)
  OBVIOUS
<1>2. \A j \in DOMAIN e :
        \/ j \in Len(s) + 1 .. Len(s) + Len(t) /\ e[j] = t[j - Len(s)]
        \/ /\ j \notin Len(s) + 1 .. Len(s) + Len(t)
           /\ back(j) \in DOMAIN d /\ e[j] = d[back(j)]
  BY InsertBack
<1>3. DOMAIN e \subseteq Nat
  BY InsertFact
<1> SUFFICES ASSUME NEW i \in DOMAIN e, NEW j \in DOMAIN e, i < j, e[i].src = m
             PROVE  ~DataAt(e, j)
  BY DEF Closing, e
<1> HIDE DEF d, e
<1>4. \A h \in DOMAIN e : h \in Len(s) + 1 .. Len(s) + Len(t) => h - Len(s) \in DOMAIN t
  BY <1>1, <1>3
<1>5. i \notin Len(s) + 1 .. Len(s) + Len(t) /\ back(i) \in DOMAIN d /\ e[i] = d[back(i)]
  BY <1>2, <1>4
<1>6. CASE j \in Len(s) + 1 .. Len(s) + Len(t) /\ e[j] = t[j - Len(s)]
  <2>1. ~DataAt(t, j - Len(s))
    BY <1>4, <1>6
  <2> QED
    BY <1>6, <2>1 DEF DataAt
<1>7. CASE /\ j \notin Len(s) + 1 .. Len(s) + Len(t)
           /\ back(j) \in DOMAIN d /\ e[j] = d[back(j)]
  <2>1. back(i) < back(j)
    BY <1>1, <1>3, <1>5, <1>7
  <2>2. d[back(i)].src = m
    BY <1>5
  <2>3. ~DataAt(d, back(j))
    BY <1>5, <1>7, <2>1, <2>2 DEF Closing, d
  <2> QED
    BY <1>7, <2>3 DEF DataAt
<1> QED
  BY <1>2, <1>6, <1>7

\* A scanned line closes the stream, adds nothing to it, or opens it again.
LEMMA ClosesScan ==
  ASSUME StreamTypeOK, Faithful, DoneCloses, ScanStep, phase # "closed"
  PROVE  DoneCloses'
<1>1. PICK line \in Lines : Scan(line) /\ UNCHANGED sent
  BY DEF ScanStep
<1>2. PICK n \in Nat : n = Len(read) + 1
  BY DEF StreamTypeOK
<1>3. /\ read'[n] = line /\ DOMAIN read' = DOMAIN read \cup {n} /\ Len(read') = n
      /\ \A i \in DOMAIN read : read'[i] = read[i]
  BY <1>1, <1>2, ScanFact
<1>4. PICK k \in KeptBack(line, n) :
        /\ ~dropped(line) => Delivered' = Delivered \o Observed(line, n, k)
        /\ held' = IF HasChoice(line)
                   THEN [held EXCEPT ![line.choice] = KeptText(line, n, k)]
                   ELSE IF line.kind = "done" THEN NoText ELSE held
  BY <1>1, <1>2, ScanFact
<1>5. dropped(line) => Delivered' = Delivered
  BY <1>1, ScanFact
<1>6. PICK out : out = Observed(line, n, k)
  OBVIOUS
<1>7. ObservedShape(line, n, k, out)
  BY <1>6, ObservedFact DEF StreamTypeOK
<1>8. /\ out \in Seq(Out) /\ Len(out) \in {1, 3} /\ out[Len(out)].src = n
      /\ out[Len(out)].kind = line.kind
      /\ \A i \in DOMAIN out : i # Len(out) => out[i].src = 0
  BY <1>6, ObservedLines DEF StreamTypeOK
<1>9. PICK d \in Seq(Out) : d = Delivered
  <2>1. Delivered \in Seq(Out)
    BY ConcatFact DEF StreamTypeOK, Delivered
  <2> QED
    BY <2>1
<1>10. DOMAIN read = 1 .. Len(read) /\ Len(read) \in Nat
       /\ \A i \in DOMAIN d : d[i].src # n
  <2>1. DOMAIN read = 1 .. Len(read) /\ Len(read) \in Nat
    BY DEF StreamTypeOK
  <2>2. \A i \in DOMAIN d : d[i].src # 0 => d[i].src \in DOMAIN read
    BY <1>9 DEF Faithful, Sourced
  <2> QED
    BY <1>2, <2>1, <2>2
<1> SUFFICES ASSUME NEW m \in Dones(read'), LastData(read', m)
             PROVE  ~Holding' /\ Closing(Delivered', m)
  BY DEF DoneCloses, Dones, LastData, DataAt, Closing
<1>11. CASE m = n
  <2>1. line.kind = "done"
    BY <1>3, <1>11 DEF Dones
  <2>2. ~HasChoice(line) /\ ~dropped(line)
    BY <2>1, ChoiceType DEF dropped, usageOnly, IsBlank
  <2>3. ~Holding'
    BY <1>4, <2>1, <2>2 DEF Holding, NoText
  <2>4. Delivered' = d \o out
    BY <1>4, <1>6, <1>9, <2>2
  <2> DEFINE e == d \o out
  <2>5. /\ e \in Seq(Out) /\ Len(e) = Len(d) + Len(out)
        /\ \A i \in DOMAIN d : e[i] = d[i]
        /\ \A i \in DOMAIN out : e[Len(d) + i] = out[i]
    BY <1>8, <1>9, ConcatFact
  <2> HIDE DEF e
  <2>6. \A i \in DOMAIN e : e[i].src = n => i = Len(e)
    <3> SUFFICES ASSUME NEW i \in DOMAIN e, i # Len(e) PROVE e[i].src # n
      OBVIOUS
    <3>1. DOMAIN e = 1 .. Len(e) /\ DOMAIN d = 1 .. Len(d) /\ DOMAIN out = 1 .. Len(out)
          /\ Len(d) \in Nat /\ Len(out) \in Nat
      BY <1>8, <1>9, <2>5
    <3>2. CASE i \in DOMAIN d
      BY <1>10, <2>5, <3>2
    <3>3. CASE i \notin DOMAIN d
      <4>1. i - Len(d) \in DOMAIN out /\ i - Len(d) # Len(out) /\ Len(d) + (i - Len(d)) = i
        BY <2>5, <3>1, <3>3
      <4>2. e[i] = out[i - Len(d)]
        BY <2>5, <4>1
      <4>3. n # 0
        BY <1>2, <1>10
      <4> QED
        BY <1>8, <4>1, <4>2, <4>3
    <3> QED
      BY <3>2, <3>3
  <2>7. Closing(e, n)
    BY <2>5, <2>6 DEF Closing
  <2> QED
    BY <1>11, <2>3, <2>4, <2>7 DEF e
<1>12. CASE m # n
  <2>1. m \in Dones(read) /\ m \in Nat \ {0}
    BY <1>3, <1>10, <1>12 DEF Dones
  <2>2. LastData(read, m) /\ ~DataAt(read', n)
    <3>1. \A j \in m + 1 .. Len(read) : j \in m + 1 .. Len(read') /\ read'[j] = read[j]
      BY <1>2, <1>3, <1>10, <2>1
    <3>2. n \in m + 1 .. Len(read')
      BY <1>2, <1>3, <1>10, <2>1 DEF Dones
    <3> QED
      BY <3>1, <3>2 DEF LastData, DataAt
  <2>3. ~Holding /\ Closing(d, m)
    BY <1>9, <2>1, <2>2 DEF DoneCloses
  <2>4. line.kind \in {"blank", "comment"} /\ ~HasChoice(line)
    <3>1. line.kind \in {"comment", "blank", "done", "malformed", "chunk"}
      BY ChoiceType DEF Line
    <3>2. line.kind \in {"blank", "comment"}
      BY <1>3, <2>2, <3>1 DEF DataAt
    <3> QED
      BY <3>2, ChoiceType
  <2>5. ~Holding'
    BY <1>4, <2>3, <2>4 DEF Holding
  <2>6. CASE dropped(line)
    BY <1>5, <1>9, <2>3, <2>5, <2>6
  <2>7. CASE ~dropped(line)
    <3>1. Delivered' = d \o out /\ Len(out) = 1
      BY <1>4, <1>6, <1>7, <1>9, <2>4, <2>7 DEF ObservedShape
    <3>2. \A i \in DOMAIN out : out[i].src # m /\ ~DataAt(out, i)
      BY <1>8, <1>12, <2>4, <3>1 DEF DataAt
    <3>3. d \o <<>> = d /\ (d \o out) \o <<>> = d \o out /\ <<>> \in Seq(Out)
      BY <1>8, <1>9
    <3>4. Closing(d \o <<>>, m)
      BY <2>3, <3>3
    <3>5. Closing((d \o out) \o <<>>, m)
      BY <1>8, <1>9, <2>1, <3>2, <3>3, <3>4, ClosingInsert
    <3> QED
      BY <2>5, <3>1, <3>3, <3>5
  <2> QED
    BY <2>6, <2>7
<1> QED
  BY <1>11, <1>12

\* Every step keeps the provider's last [DONE] the last data.
LEMMA DoneClosesStep ==
  ASSUME StreamTypeOK, Faithful, DoneCloses, [Next]_vars
  PROVE  DoneCloses'
<1>1. phase = "closed" => UNCHANGED vars
  BY DEF Next, Relay, vars, PrimeLine, NextLine, PrimeEnds, OpenWriter, WriterUnavailable,
         SendPending, NextEnds, NextTail, RelayEnds, KeepAlive, UpstreamEnds, ClientLeaves
<1>2. CASE phase = "closed"
  BY <1>1, <1>2 DEF vars, DoneCloses, Dones, LastData, DataAt, Closing, Holding, Delivered
<1>3. CASE phase # "closed" /\ ScanStep
  BY <1>3, ClosesScan
<1>4. CASE phase # "closed" /\ QuietStep
  <2>1. UNCHANGED <<read, held>> /\ Delivered' = Delivered
    BY <1>4 DEF QuietStep
  <2> QED
    BY <1>4, <2>1 DEF DoneCloses, Dones, LastData, DataAt, Closing, Holding
<1>5. CASE phase # "closed" /\ KeepAlive
  <2> DEFINE t == <<Written("comment"), Written("blank")>>
  <2>1. UNCHANGED <<read, held>> /\ Delivered' = (sent \o t) \o pending
    BY <1>5 DEF KeepAlive, observed, Delivered
  <2>2. t \in Seq(Out) /\ \A i \in DOMAIN t : t[i].src = 0 /\ ~DataAt(t, i)
    <3>1. /\ Written("comment") \in Out /\ Written("comment").src = 0
          /\ Written("comment").kind = "comment"
          /\ Written("blank") \in Out /\ Written("blank").src = 0
          /\ Written("blank").kind = "blank"
      BY WrittenType, 0 \in Nat
    <3> QED
      BY <3>1 DEF DataAt
  <2> HIDE DEF t
  <2>3. ASSUME NEW m \in Dones(read), LastData(read, m)
        PROVE  ~Holding /\ Closing((sent \o t) \o pending, m)
    <3>1. ~Holding /\ Closing(sent \o pending, m)
      BY <1>5, <2>3 DEF DoneCloses, Delivered
    <3>2. m \in Nat \ {0} /\ sent \in Seq(Out) /\ pending \in Seq(Out)
      BY <2>3 DEF StreamTypeOK, Dones
    <3> QED
      BY <2>2, <3>1, <3>2, ClosingInsert
  <2> QED
    BY <2>1, <2>3 DEF DoneCloses, Dones, LastData, DataAt, Closing, Holding
<1>6. CASE phase # "closed" /\ (NextTail \/ RelayEnds)
  <2>1. UNCHANGED read
    BY <1>6 DEF NextTail, RelayEnds
  <2>2. CASE NextTail
    <3>1. Holding
      BY <2>2 DEF NextTail
    <3>2. ~\E m \in Dones(read) : LastData(read, m)
      BY <3>1 DEF DoneCloses
    <3> QED
      BY <2>1, <3>2 DEF DoneCloses, Dones, LastData, DataAt
  <2>3. CASE RelayEnds
    BY <2>1, <2>3 DEF RelayEnds, DoneCloses, Dones, LastData, DataAt, Holding
  <2> QED
    BY <1>6, <2>2, <2>3
<1> QED
  BY <1>2, <1>3, <1>4, <1>5, <1>6, StepShapes

\* The relay's end marks the response when the provider did not.
LEMMA EndMarkedStep ==
  ASSUME StreamTypeOK, StreamEnded, Faithful, DoneSeen, DoneCloses, EndMarked,
         FramingKept', [Next]_vars
  PROVE  EndMarked'
<1>1. CASE RelayEnds
  <2>1. phase = "ending" /\ end # "none" /\ pending = <<>> /\ sent' = sent \o terminator
        /\ UNCHANGED <<read, sawDone, upstream>>
    BY <1>1 DEF RelayEnds, StreamEnded
  <2>2. UNCHANGED o
    BY <1>1, <2>1 DEF RelayEnds, Close
  <2>3. sent \in Seq(Out) /\ DOMAIN sent = 1 .. Len(sent) /\ Len(sent) \in Nat
        /\ sent = Delivered
    BY <2>1 DEF StreamTypeOK, Delivered
  <2>4. \A word \in {"done", "blank", "interrupted"} :
          Written(word) \in Out /\ Written(word).kind = word /\ Written(word).src = 0
    BY WrittenType, 0 \in Nat
  <2>5. PICK t : t = terminator
    OBVIOUS
  <2>6. PICK e : e = sent \o t
    OBVIOUS
  <2>7. \/ t = <<Written("done"), Written("blank")>> /\ ~sawDone
        \/ t = <<Written("interrupted"), Written("blank")>> /\ upstream = "broken"
        \/ t = <<>>
    BY <2>5 DEF terminator
  <2>8. t \in Seq(Out) /\ Len(t) \in {0, 2}
        /\ (Len(t) = 2 => t[2].kind = "blank")
    <3>1. CASE t = <<>>
      BY <3>1
    <3>2. ASSUME NEW x \in Out, t = <<x, Written("blank")>>
          PROVE  t \in Seq(Out) /\ Len(t) = 2 /\ t[2].kind = "blank"
      BY <2>4, <3>2
    <3> QED
      BY <2>4, <2>7, <3>1, <3>2
  <2>9. /\ e \in Seq(Out) /\ Len(e) = Len(sent) + Len(t)
        /\ \A i \in DOMAIN sent : e[i] = sent[i]
        /\ \A i \in DOMAIN t : e[Len(sent) + i] = t[i]
    BY <2>3, <2>6, <2>8, ConcatFact
  <2>10. DOMAIN e = 1 .. Len(sent) + Len(t) /\ DOMAIN t = 1 .. Len(t)
    BY <2>3, <2>8, <2>9
  <2>11. Whole(read) => Framed(e)
    <3>1. sent' = e /\ read' = read
      BY <2>1, <2>5, <2>6
    <3>2. (Whole(read') <=> Whole(read)) /\ (Framed(sent') <=> Framed(e))
      BY <3>1
    <3>3. Whole(read') => Framed(sent')
      BY DEF FramingKept, Whole, Framed, DataAt, IsBlank
    <3> QED
      BY <3>2, <3>3
  <2>12. \A i \in Dones(e) : Whole(read) =>
           \A h \in 1 .. i - 1 :
             DataAt(e, h) => \E k \in h + 1 .. i - 1 : e[k].kind = "blank"
    <3> SUFFICES ASSUME NEW i \in Dones(e), Whole(read), NEW h \in 1 .. i - 1, DataAt(e, h)
                 PROVE  \E k \in h + 1 .. i - 1 : e[k].kind = "blank"
      OBVIOUS
    <3>1. i \in DOMAIN e /\ DataAt(e, i)
      BY DEF Dones, DataAt
    <3>2. h \in DOMAIN e /\ h < i
      BY <2>3, <2>8, <2>10, <3>1
    <3> QED
      BY <2>11, <3>1, <3>2 DEF Framed
  <2> SUFFICES ASSUME Complete, DoneIsLast(read)
               PROVE  \E i \in Dones(e) :
                        /\ e[i].src = 0 <=> Dones(read) = {}
                        /\ \A j \in i + 1 .. Len(e) :
                             DataAt(e, j) => /\ e[j].kind = "interrupted"
                                             /\ upstream = "broken"
                                             /\ Dones(read) # {}
    <3>1. Complete' <=> Complete
      BY <2>1, <2>2 DEF Complete
    <3>2. sent' = e /\ read' = read /\ upstream' = upstream
      BY <2>1, <2>5, <2>6
    <3> QED
      BY <2>12, <3>1, <3>2 DEF EndMarked, Dones, DataAt, Whole, Framed, DoneIsLast, LastData
  <2>13. CASE ~sawDone
    <3>1. Dones(read) = {}
      BY <2>13 DEF DoneSeen
    <3>2. t = <<Written("done"), Written("blank")>>
      BY <2>5, <2>13 DEF terminator, Complete
    <3>3. t[1].kind = "done" /\ t[1].src = 0 /\ Len(t) = 2
      BY <2>4, <3>2
    <3>4. PICK i \in Nat : i = Len(sent) + 1
      BY <2>3
    <3>5. i \in Dones(e) /\ e[i].src = 0 /\ Len(e) = i + 1
      BY <2>3, <2>9, <2>10, <3>3, <3>4 DEF Dones
    <3>6. e[i + 1].kind = "blank"
      <4>1. e[Len(sent) + 2] = t[2] /\ i + 1 = Len(sent) + 2
        BY <2>3, <2>9, <2>10, <3>3, <3>4
      <4> QED
        BY <2>8, <3>3, <4>1
    <3>7. \A j \in i + 1 .. Len(e) : ~DataAt(e, j)
      BY <3>4, <3>5, <3>6 DEF DataAt
    <3> QED
      BY <3>1, <3>5, <3>7
  <2>14. CASE sawDone
    <3>1. PICK m \in Dones(read) : LastData(read, m)
      BY <2>14 DEF DoneSeen, DoneIsLast
    <3>2. Closing(sent, m)
      BY <2>1, <2>3, <3>1 DEF DoneCloses
    <3>3. m \in DOMAIN read \ HiddenLines /\ read[m].kind = "done" /\ m # 0
      BY <3>1, DoneShown DEF StreamTypeOK, Dones
    <3>4. PICK i \in DOMAIN sent : sent[i].src = m /\ sent[i].kind = "done"
      BY <2>3, <3>3 DEF Faithful, Sourced
    <3>5. i \in Dones(e) /\ e[i].src # 0 /\ Dones(read) # {}
      BY <2>3, <2>8, <2>9, <2>10, <3>1, <3>3, <3>4 DEF Dones
    <3>6. ASSUME NEW j \in i + 1 .. Len(e), DataAt(e, j)
          PROVE  e[j].kind = "interrupted" /\ upstream = "broken"
      <4>1. j \in Nat /\ i < j /\ j <= Len(sent) + Len(t)
        BY <2>3, <2>8, <2>9, <3>4
      <4>2. j \notin DOMAIN sent
        <5> SUFFICES ASSUME j \in DOMAIN sent PROVE FALSE
          OBVIOUS
        <5>1. DataAt(sent, j)
          BY <2>9, <3>6 DEF DataAt
        <5> QED
          BY <3>2, <3>4, <4>1, <5>1 DEF Closing
      <4>3. j - Len(sent) \in DOMAIN t /\ Len(sent) + (j - Len(sent)) = j /\ Len(t) = 2
        BY <2>3, <2>8, <2>10, <4>1, <4>2
      <4>4. t = <<Written("interrupted"), Written("blank")>> /\ upstream = "broken"
        BY <2>7, <2>14, <4>3
      <4>5. e[j] = t[j - Len(sent)] /\ j - Len(sent) \in {1, 2}
        BY <2>9, <2>10, <4>3
      <4>6. e[j].kind # "blank"
        BY <3>6 DEF DataAt
      <4>7. j - Len(sent) = 1
        BY <2>8, <4>3, <4>5, <4>6
      <4> QED
        BY <2>4, <4>4, <4>5, <4>7
    <3> QED
      BY <3>5, <3>6
  <2> QED
    BY <2>13, <2>14
<1>2. CASE ~RelayEnds /\ phase' = "closed" /\ end' # "closed_before_eof"
  <2>1. ~WriterUnavailable
    BY <1>2 DEF WriterUnavailable, StreamEnded, Close, endAs
  <2>2. UNCHANGED vars
    BY <1>2, <2>1 DEF Next, Relay, vars, PrimeLine, NextLine, PrimeEnds, OpenWriter,
         SendPending, NextEnds, NextTail, KeepAlive, UpstreamEnds, ClientLeaves
  <2> QED
    BY <2>2 DEF vars, EndMarked, Complete, Dones, DataAt, Whole, Framed, DoneIsLast, LastData
<1>3. CASE ~(phase' = "closed" /\ end' # "closed_before_eof")
  BY <1>3 DEF EndMarked
<1> QED
  BY <1>1, <1>2, <1>3

\* A response that the provider finished ends in [DONE] for the client, however
\* long it is: in the provider's own, or in one that the gateway adds.  Nothing but
\* the report of a broken body follows it, and it is an event of its own unless the
\* body stopped inside one.
THEOREM EndIsMarked == Spec => []EndMarked
<1>1. Init => DoneSeen /\ DoneCloses /\ EndMarked
  BY DEF Init, DoneSeen, DoneCloses, EndMarked, Dones
<1>2. Spec => []FramingKept
  BY EventsStayApart
<1> QED
  BY StreamInit, StreamTypeStep, EndedStep, FaithfulInit, FaithfulStep, DoneSeenStep,
     DoneClosesStep, EndMarkedStep, <1>1, <1>2, PTL DEF Spec

-----------------------------------------------------------------------------
(* ProxyStream: masked text arrives whole and in order.                    *)

\* The pieces of choice c in the lines d and then in the held text h are those
\* of N, each one once, in ascending order.
InOrder(d, h, c, N) ==
  /\ \A i, j \in DOMAIN d : \A p \in DOMAIN d[i].text[c], q \in DOMAIN d[j].text[c] :
       i < j \/ (i = j /\ p < q) => d[i].text[c][p] < d[j].text[c][q]
  /\ \A i \in DOMAIN d : \A p \in DOMAIN d[i].text[c], q \in DOMAIN h : d[i].text[c][p] < h[q]
  /\ \A p, q \in DOMAIN h : p < q => h[p] < h[q]
  /\ \A i \in DOMAIN d : \A p \in DOMAIN d[i].text[c] : d[i].text[c][p] \in N
  /\ \A p \in DOMAIN h : h[p] \in N
  /\ \A n \in N : \/ \E i \in DOMAIN d : \E p \in DOMAIN d[i].text[c] : d[i].text[c][p] = n
                  \/ \E p \in DOMAIN h : h[p] = n

\* The lines read that carry text of choice c.
TextLines(c) == {n \in DOMAIN read : read[n].text /\ read[n].choice = c}

TextKept == \A c \in Indexes : InOrder(Delivered, held[c], c, TextLines(c))

\* [DONE] releases what was held.
DoneReleases == read # <<>> /\ Last(read).kind = "done" => ~Holding

\* Two parts of a text, piece by piece.
LEMMA PartsFact ==
  ASSUME NEW a \in Seq(Nat), NEW b \in Seq(Nat)
  PROVE  LET h == a \o b
         IN /\ h \in Seq(Nat) /\ Len(a) \in Nat
            /\ \A p \in DOMAIN a : p \in DOMAIN h /\ h[p] = a[p]
            /\ \A q \in DOMAIN b : Len(a) + q \in DOMAIN h /\ h[Len(a) + q] = b[q]
            /\ \A p \in DOMAIN a, q \in DOMAIN b : p < Len(a) + q
            /\ \A p, q \in DOMAIN b : p < q => Len(a) + p < Len(a) + q
            /\ \A p \in DOMAIN h : p \in DOMAIN a \/ p - Len(a) \in DOMAIN b
            /\ \A p \in DOMAIN h : p - Len(a) \in DOMAIN b => h[p] = b[p - Len(a)]
OBVIOUS

\* A line that carries the first part of what is held leaves the second part.
LEMMA TextSplit ==
  ASSUME NEW c \in Indexes, NEW N \in SUBSET Nat, NEW d \in Seq(Out), NEW x \in Out,
         NEW a \in Seq(Nat), NEW b \in Seq(Nat), x.text[c] = a, InOrder(d, a \o b, c, N)
  PROVE  InOrder(Append(d, x), b, c, N)
<1> DEFINE h == a \o b
           e == Append(d, x)
           m == Len(d) + 1
<1>1. /\ DOMAIN e = DOMAIN d \cup {m} /\ e[m] = x
      /\ \A i \in DOMAIN d : e[i] = d[i]
  BY AppendFact
<1>2. m \in Nat /\ \A i \in DOMAIN d : i < m /\ i \in Nat
  OBVIOUS
<1>3. /\ Len(a) \in Nat
      /\ \A p \in DOMAIN a : p \in DOMAIN h /\ h[p] = a[p]
      /\ \A q \in DOMAIN b : Len(a) + q \in DOMAIN h /\ h[Len(a) + q] = b[q]
      /\ \A p \in DOMAIN a, q \in DOMAIN b : p < Len(a) + q
      /\ \A p, q \in DOMAIN b : p < q => Len(a) + p < Len(a) + q
      /\ \A p \in DOMAIN h : p \in DOMAIN a \/ p - Len(a) \in DOMAIN b
      /\ \A p \in DOMAIN h : p - Len(a) \in DOMAIN b => h[p] = b[p - Len(a)]
  BY PartsFact
<1>4. InOrder(d, h, c, N)
  OBVIOUS
<1> HIDE DEF h, e, m
<1>5. \A i, j \in DOMAIN e : \A p \in DOMAIN e[i].text[c], q \in DOMAIN e[j].text[c] :
        i < j \/ (i = j /\ p < q) => e[i].text[c][p] < e[j].text[c][q]
  <2> SUFFICES ASSUME NEW i \in DOMAIN e, NEW j \in DOMAIN e,
                      NEW p \in DOMAIN e[i].text[c], NEW q \in DOMAIN e[j].text[c],
                      i < j \/ (i = j /\ p < q)
               PROVE  e[i].text[c][p] < e[j].text[c][q]
    OBVIOUS
  <2>1. CASE i \in DOMAIN d /\ j \in DOMAIN d
    BY <1>1, <1>4, <2>1 DEF InOrder
  <2>2. CASE i \in DOMAIN d /\ j = m
    BY <1>1, <1>3, <1>4, <2>2 DEF InOrder
  <2>3. CASE i = m /\ j = m
    <3>1. p \in DOMAIN a /\ q \in DOMAIN a /\ p < q
      BY <1>1, <1>2, <2>3
    <3> QED
      BY <1>1, <1>3, <1>4, <2>3, <3>1 DEF InOrder
  <2>4. ~(i = m /\ j \in DOMAIN d)
    BY <1>2
  <2> QED
    BY <1>1, <2>1, <2>2, <2>3, <2>4
<1>6. \A i \in DOMAIN e : \A p \in DOMAIN e[i].text[c], q \in DOMAIN b : e[i].text[c][p] < b[q]
  <2> SUFFICES ASSUME NEW i \in DOMAIN e, NEW p \in DOMAIN e[i].text[c], NEW q \in DOMAIN b
               PROVE  e[i].text[c][p] < b[q]
    OBVIOUS
  <2>1. CASE i \in DOMAIN d
    BY <1>1, <1>3, <1>4, <2>1 DEF InOrder
  <2>2. CASE i = m
    BY <1>1, <1>3, <1>4, <2>2 DEF InOrder
  <2> QED
    BY <1>1, <2>1, <2>2
<1>7. \A p, q \in DOMAIN b : p < q => b[p] < b[q]
  BY <1>3, <1>4 DEF InOrder
<1>8. /\ \A i \in DOMAIN e : \A p \in DOMAIN e[i].text[c] : e[i].text[c][p] \in N
      /\ \A p \in DOMAIN b : b[p] \in N
  BY <1>1, <1>3, <1>4 DEF InOrder
<1>9. ASSUME NEW n \in N
      PROVE  \/ \E i \in DOMAIN e : \E p \in DOMAIN e[i].text[c] : e[i].text[c][p] = n
             \/ \E p \in DOMAIN b : b[p] = n
  <2>1. CASE \E i \in DOMAIN d : \E p \in DOMAIN d[i].text[c] : d[i].text[c][p] = n
    BY <1>1, <2>1
  <2>2. CASE \E p \in DOMAIN h : h[p] = n
    <3>1. PICK p \in DOMAIN h : h[p] = n
      BY <2>2
    <3>2. CASE p \in DOMAIN a
      BY <1>1, <1>3, <3>1, <3>2
    <3>3. CASE p - Len(a) \in DOMAIN b
      BY <1>3, <3>1, <3>3
    <3> QED
      BY <1>3, <3>2, <3>3
  <2> QED
    BY <1>4, <2>1, <2>2 DEF InOrder
<1>10. InOrder(e, b, c, N)
  BY <1>5, <1>6, <1>7, <1>8, <1>9 DEF InOrder
<1> QED
  BY <1>10 DEF e

\* The text of a line that has just been read comes after all other.
LEMMA TextFed ==
  ASSUME NEW c \in Indexes, NEW N \in SUBSET Nat, NEW d \in Seq(Out), NEW h \in Seq(Nat),
         NEW n \in Nat, \A k \in N : k < n, InOrder(d, h, c, N)
  PROVE  InOrder(d, Append(h, n), c, N \cup {n})
<1> DEFINE g == Append(h, n)
           m == Len(h) + 1
<1>1. /\ DOMAIN g = DOMAIN h \cup {m} /\ g[m] = n
      /\ \A i \in DOMAIN h : g[i] = h[i]
  BY AppendFact
<1>2. m \in Nat /\ \A i \in DOMAIN h : i < m /\ i \in Nat
  OBVIOUS
<1> HIDE DEF g, m
<1>3. /\ \A i, j \in DOMAIN d : \A p \in DOMAIN d[i].text[c], q \in DOMAIN d[j].text[c] :
           i < j \/ (i = j /\ p < q) => d[i].text[c][p] < d[j].text[c][q]
      /\ \A i \in DOMAIN d : \A p \in DOMAIN d[i].text[c], q \in DOMAIN g : d[i].text[c][p] < g[q]
  BY <1>1 DEF InOrder
<1>4. \A p, q \in DOMAIN g : p < q => g[p] < g[q]
  <2> SUFFICES ASSUME NEW p \in DOMAIN g, NEW q \in DOMAIN g, p < q PROVE g[p] < g[q]
    OBVIOUS
  <2>1. p \in DOMAIN h
    BY <1>1, <1>2
  <2>2. CASE q \in DOMAIN h
    BY <1>1, <2>1, <2>2 DEF InOrder
  <2>3. CASE q = m
    BY <1>1, <2>1, <2>3 DEF InOrder
  <2> QED
    BY <1>1, <2>2, <2>3
<1>5. /\ \A i \in DOMAIN d : \A p \in DOMAIN d[i].text[c] : d[i].text[c][p] \in N \cup {n}
      /\ \A p \in DOMAIN g : g[p] \in N \cup {n}
  BY <1>1 DEF InOrder
<1>6. \A k \in N \cup {n} :
        \/ \E i \in DOMAIN d : \E p \in DOMAIN d[i].text[c] : d[i].text[c][p] = k
        \/ \E p \in DOMAIN g : g[p] = k
  BY <1>1 DEF InOrder
<1>7. InOrder(d, g, c, N \cup {n})
  BY <1>3, <1>4, <1>5, <1>6 DEF InOrder
<1> QED
  BY <1>7 DEF g

\* Lines without text between others change nothing.
LEMMA TextInsert ==
  ASSUME NEW c \in Indexes, NEW N \in SUBSET Nat, NEW h \in Seq(Nat),
         NEW s \in Seq(Out), NEW t \in Seq(Out), NEW u \in Seq(Out),
         \A i \in DOMAIN t : t[i].text[c] = <<>>, InOrder(s \o u, h, c, N)
  PROVE  InOrder((s \o t) \o u, h, c, N)
<1> DEFINE d == s \o u
           e == (s \o t) \o u
           a == Len(s)
           n == Len(t)
           back(j) == IF j <= a THEN j ELSE j - n
           forth(i) == IF i <= a THEN i ELSE i + n
<1>1. a \in Nat /\ n \in Nat /\ DOMAIN t = 1 .. n
  OBVIOUS
<1>2. \A j \in DOMAIN e :
        \/ j \in a + 1 .. a + n /\ e[j] = t[j - a]
        \/ /\ j \notin a + 1 .. a + n
           /\ back(j) \in DOMAIN d /\ e[j] = d[back(j)]
  BY InsertBack
<1>3. /\ d \in Seq(Out) /\ e \in Seq(Out) /\ Len(e) = Len(d) + n
      /\ Len(d) = a + Len(u)
      /\ \A i \in 1 .. a : e[i] = d[i]
      /\ \A i \in a + 1 .. Len(d) : e[i + n] = d[i]
  BY InsertFact
<1>4. InOrder(d, h, c, N)
  OBVIOUS
<1> HIDE DEF d, e, a, n
<1>5. DOMAIN e = 1 .. Len(e) /\ DOMAIN d = 1 .. Len(d) /\ Len(d) \in Nat /\ Len(e) \in Nat
  BY <1>3
<1>6. ASSUME NEW j \in DOMAIN e, NEW p \in DOMAIN e[j].text[c]
      PROVE  j \notin a + 1 .. a + n /\ back(j) \in DOMAIN d /\ e[j] = d[back(j)]
  <2> SUFFICES ASSUME j \in a + 1 .. a + n, e[j] = t[j - a]
               PROVE  FALSE
    BY <1>2
  <2>1. j - a \in DOMAIN t
    BY <1>1
  <2>2. e[j].text[c] = <<>>
    BY <2>1
  <2>3. DOMAIN e[j].text[c] = {}
    BY <2>2
  <2> QED
    BY <2>3
<1>7. ASSUME NEW i \in DOMAIN d PROVE forth(i) \in DOMAIN e /\ e[forth(i)] = d[i]
  <2>1. i \in Nat /\ 1 <= i /\ i <= Len(d)
    BY <1>5
  <2>2. CASE i <= a
    <3>1. forth(i) = i /\ i \in 1 .. a
      BY <1>1, <2>1, <2>2
    <3>2. i \in 1 .. Len(e)
      BY <1>1, <1>3, <1>5, <2>1
    <3> QED
      BY <1>3, <1>5, <3>1, <3>2
  <2>3. CASE ~(i <= a)
    <3>1. forth(i) = i + n /\ i \in a + 1 .. Len(d)
      BY <1>1, <1>5, <2>1, <2>3
    <3>2. i + n \in 1 .. Len(e)
      BY <1>1, <1>3, <1>5, <2>1
    <3> QED
      BY <1>3, <1>5, <3>1, <3>2
  <2> QED
    BY <2>2, <2>3
<1>8. \A i, j \in DOMAIN e :
        i \notin a + 1 .. a + n /\ j \notin a + 1 .. a + n /\ i < j => back(i) < back(j)
  BY <1>1, <1>5
<1> HIDE DEF back, forth
<1>9. \A i, j \in DOMAIN e : \A p \in DOMAIN e[i].text[c], q \in DOMAIN e[j].text[c] :
        i < j \/ (i = j /\ p < q) => e[i].text[c][p] < e[j].text[c][q]
  <2> SUFFICES ASSUME NEW i \in DOMAIN e, NEW j \in DOMAIN e,
                      NEW p \in DOMAIN e[i].text[c], NEW q \in DOMAIN e[j].text[c],
                      i < j \/ (i = j /\ p < q)
               PROVE  e[i].text[c][p] < e[j].text[c][q]
    OBVIOUS
  <2>1. /\ i \notin a + 1 .. a + n /\ back(i) \in DOMAIN d /\ e[i] = d[back(i)]
        /\ j \notin a + 1 .. a + n /\ back(j) \in DOMAIN d /\ e[j] = d[back(j)]
    BY <1>6
  <2>2. back(i) < back(j) \/ (back(i) = back(j) /\ p < q)
    BY <1>8, <2>1
  <2> QED
    BY <1>4, <2>1, <2>2 DEF InOrder
<1>10. \A i \in DOMAIN e : \A p \in DOMAIN e[i].text[c], q \in DOMAIN h : e[i].text[c][p] < h[q]
  BY <1>4, <1>6 DEF InOrder
<1>11. \A i \in DOMAIN e : \A p \in DOMAIN e[i].text[c] : e[i].text[c][p] \in N
  BY <1>4, <1>6 DEF InOrder
<1>12. \A k \in N : \/ \E i \in DOMAIN e : \E p \in DOMAIN e[i].text[c] : e[i].text[c][p] = k
                    \/ \E p \in DOMAIN h : h[p] = k
  <2> SUFFICES ASSUME NEW k \in N, ~ \E p \in DOMAIN h : h[p] = k
               PROVE  \E i \in DOMAIN e : \E p \in DOMAIN e[i].text[c] : e[i].text[c][p] = k
    OBVIOUS
  <2>1. PICK i \in DOMAIN d : \E p \in DOMAIN d[i].text[c] : d[i].text[c][p] = k
    BY <1>4 DEF InOrder
  <2>2. forth(i) \in DOMAIN e /\ e[forth(i)] = d[i]
    BY <1>7
  <2> QED
    BY <2>1, <2>2
<1>13. InOrder(e, h, c, N)
  BY <1>4, <1>9, <1>10, <1>11, <1>12 DEF InOrder
<1> QED
  BY <1>13 DEF e

\* Sequences of the same length and elements.
LEMMA SameSequence ==
  ASSUME NEW S, NEW s \in Seq(S), NEW t \in Seq(S), Len(s) = Len(t),
         \A i \in 1 .. Len(s) : s[i] = t[i]
  PROVE  s = t
OBVIOUS

\* A text is what it is cut into.
LEMMA CutFact ==
  ASSUME NEW f \in Seq(Nat), NEW k \in 0 .. Len(f)
  PROVE  SubSeq(f, 1, Len(f) - k) \o SubSeq(f, Len(f) - k + 1, Len(f)) = f
<1> DEFINE n == Len(f) - k
           a == SubSeq(f, 1, n)
           b == SubSeq(f, n + 1, Len(f))
<1>1. n \in 0 .. Len(f) /\ Len(f) \in Nat
  OBVIOUS
<1>2. a \in Seq(Nat) /\ Len(a) = n /\ \A i \in 1 .. n : a[i] = f[i]
  BY <1>1
<1>3. b \in Seq(Nat) /\ Len(b) = Len(f) - n /\ \A i \in 1 .. Len(f) - n : b[i] = f[n + i]
  BY <1>1
<1> HIDE DEF n, a, b
<1>4. /\ a \o b \in Seq(Nat) /\ Len(a \o b) = Len(a) + Len(b)
      /\ \A i \in DOMAIN a : (a \o b)[i] = a[i]
      /\ \A i \in DOMAIN b : (a \o b)[Len(a) + i] = b[i]
      /\ DOMAIN a = 1 .. n /\ DOMAIN b = 1 .. Len(f) - n
  <2>1. DOMAIN a = 1 .. n /\ DOMAIN b = 1 .. Len(f) - n
    BY <1>2, <1>3
  <2>2. a \in Seq(Nat) /\ b \in Seq(Nat)
    BY <1>2, <1>3
  <2>3. /\ a \o b \in Seq(Nat) /\ Len(a \o b) = Len(a) + Len(b)
        /\ \A i \in DOMAIN a : (a \o b)[i] = a[i]
        /\ \A i \in DOMAIN b : (a \o b)[Len(a) + i] = b[i]
    BY <2>2, ConcatFact
  <2> QED
    BY <2>1, <2>3
<1> DEFINE e == a \o b
<1> HIDE DEF e
<1>5. \A i \in 1 .. Len(f) : e[i] = f[i]
  <2> SUFFICES ASSUME NEW i \in 1 .. Len(f) PROVE e[i] = f[i]
    OBVIOUS
  <2>1. CASE i <= n
    <3>1. i \in 1 .. n
      BY <1>1, <2>1
    <3> QED
      BY <1>2, <1>4, <3>1 DEF e
  <2>2. CASE ~(i <= n)
    <3>1. i - n \in 1 .. Len(f) - n /\ n + (i - n) = i
      BY <1>1, <2>2
    <3>2. b[i - n] = f[i]
      BY <1>3, <3>1
    <3>3. e[i] = b[i - n]
      BY <1>2, <1>4, <3>1 DEF e
    <3> QED
      BY <3>2, <3>3
  <2> QED
    BY <2>1, <2>2
<1>6. e \in Seq(Nat) /\ Len(e) = Len(f)
  BY <1>1, <1>2, <1>3, <1>4 DEF e
<1>7. e = f
  BY <1>5, <1>6, SameSequence
<1> QED
  BY <1>7 DEF a, b, n, e

\* A line that carries no text of the choice, before what is held.
LEMMA TextPassed ==
  ASSUME NEW c \in Indexes, NEW N \in SUBSET Nat, NEW d \in Seq(Out), NEW x \in Out,
         NEW h \in Seq(Nat), x.text[c] = <<>>, InOrder(d, h, c, N)
  PROVE  InOrder(Append(d, x), h, c, N)
<1>1. <<>> \o h = h /\ <<>> \in Seq(Nat)
  OBVIOUS
<1> QED
  BY <1>1, TextSplit

\* A line that carries all that is held of the choice.
LEMMA TextReleased ==
  ASSUME NEW c \in Indexes, NEW N \in SUBSET Nat, NEW d \in Seq(Out), NEW x \in Out,
         NEW h \in Seq(Nat), x.text[c] = h, InOrder(d, h, c, N)
  PROVE  InOrder(Append(d, x), <<>>, c, N)
<1>1. h \o <<>> = h /\ <<>> \in Seq(Nat)
  OBVIOUS
<1> QED
  BY <1>1, TextSplit

\* The lines that carry text, once one more has been read.
LEMMA TextLinesFact ==
  ASSUME StreamTypeOK, NEW line \in Lines, Scan(line), UNCHANGED sent, NEW c \in Indexes,
         NEW n \in Nat, n = Len(read) + 1
  PROVE  /\ TextLines(c) \in SUBSET Nat /\ \A k \in TextLines(c) : k < n
         /\ TextLines(c)' = IF line.text /\ line.choice = c
                            THEN TextLines(c) \cup {n} ELSE TextLines(c)
<1>1. /\ read'[n] = line /\ DOMAIN read' = DOMAIN read \cup {n}
      /\ \A i \in DOMAIN read : read'[i] = read[i]
  BY ScanFact
<1>2. \A k \in DOMAIN read : k \in Nat /\ k < n
  BY DEF StreamTypeOK
<1> QED
  BY <1>1, <1>2 DEF TextLines

\* One line of the provider's: the text of its choice is cut, and that of the
\* others stays where it is; [DONE] releases all of it.
LEMMA TextScan ==
  ASSUME StreamTypeOK, TextKept, ScanStep
  PROVE  TextKept'
<1>1. PICK line \in Lines : Scan(line) /\ UNCHANGED sent
  BY DEF ScanStep
<1>2. PICK n \in Nat : n = Len(read) + 1
  BY DEF StreamTypeOK
<1>3. PICK k \in KeptBack(line, n) :
        /\ ~dropped(line) => Delivered' = Delivered \o Observed(line, n, k)
        /\ held' = IF HasChoice(line)
                   THEN [held EXCEPT ![line.choice] = KeptText(line, n, k)]
                   ELSE IF line.kind = "done" THEN NoText ELSE held
  BY <1>1, <1>2, ScanFact
<1>4. dropped(line) => Delivered' = Delivered
  BY <1>1, ScanFact
<1>5. PICK out : out = Observed(line, n, k)
  OBVIOUS
<1>6. ObservedShape(line, n, k, out)
  BY <1>5, ObservedFact DEF StreamTypeOK
<1>7. PICK d \in Seq(Out) : d = Delivered
  <2>1. Delivered \in Seq(Out)
    BY ConcatFact DEF StreamTypeOK, Delivered
  <2> QED
    BY <2>1
<1>8. held \in [Indexes -> Seq(Nat)]
  BY DEF StreamTypeOK
<1>9. /\ HasChoice(line) => line.choice \in Indexes
      /\ line.text => HasChoice(line)
      /\ line.kind # "chunk" => ~HasChoice(line) /\ ~line.usage
  BY ChoiceType
<1> SUFFICES ASSUME NEW c \in Indexes
             PROVE  InOrder(Delivered', held'[c], c, TextLines(c)')
  BY DEF TextKept
<1>10. PICK N \in SUBSET Nat : N = TextLines(c)
  BY <1>1, <1>2, TextLinesFact
<1>11. /\ \A i \in N : i < n
       /\ TextLines(c)' = IF line.text /\ line.choice = c THEN N \cup {n} ELSE N
  BY <1>1, <1>2, <1>10, TextLinesFact
<1>12. PICK h \in Seq(Nat) : h = held[c]
  BY <1>8
<1>13. InOrder(d, h, c, N)
  BY <1>7, <1>10, <1>12 DEF TextKept
<1>14. NoText[c] = <<>>
  BY DEF NoText
<1>15. CASE dropped(line)
  <2>1. ~HasChoice(line) /\ line.kind # "done"
    BY <1>9, <1>15 DEF dropped, usageOnly, IsBlank
  <2>2. held' = held /\ TextLines(c)' = N
    BY <1>3, <1>9, <1>11, <2>1
  <2> QED
    BY <1>4, <1>7, <1>12, <1>13, <1>15, <2>2
<1>16. CASE ~dropped(line) /\ Len(out) = 1
  <2>1. out[1] \in Out /\ out = <<out[1]>>
    BY <1>6, <1>16, ShortFact DEF ObservedShape
  <2>2. Delivered' = Append(d, out[1])
    <3>1. Delivered' = d \o out
      BY <1>3, <1>5, <1>7, <1>16
    <3>2. d \o <<out[1]>> = Append(d, out[1])
      BY <2>1, AppendEach
    <3> QED
      BY <2>1, <3>1, <3>2
  <2>3. CASE HasChoice(line) /\ line.choice = c
    <3> DEFINE f == Fed(line, n)
               a == Released(line, n, k)
               b == KeptText(line, n, k)
    <3>1. f \in Seq(Nat) /\ k \in 0 .. Len(f) /\ a \in Seq(Nat) /\ b \in Seq(Nat)
      BY <1>8, <2>3, FedType
    <3>2. a \o b = f
      BY <3>1, CutFact DEF Released, KeptText
    <3>3. InOrder(d, f, c, TextLines(c)')
      <4>1. CASE line.text
        <5>1. f = Append(h, n) /\ TextLines(c)' = N \cup {n}
          BY <1>11, <1>12, <2>3, <4>1, AppendEach DEF Fed
        <5> QED
          BY <1>11, <1>13, <5>1, TextFed
      <4>2. CASE ~line.text
        <5>1. f = h /\ TextLines(c)' = N
          BY <1>11, <1>12, <2>3, <4>2, AppendEach DEF Fed
        <5> QED
          BY <1>13, <5>1
      <4> QED
        BY <4>1, <4>2
    <3>4. out[1].text[c] = a
      BY <1>6, <2>3 DEF ObservedShape, NoText
    <3>5. held'[c] = b
      BY <1>3, <1>8, <2>3
    <3>6. TextLines(c)' \in SUBSET Nat
      BY <1>2, <1>11
    <3> HIDE DEF f, a, b
    <3>7. PICK M \in SUBSET Nat : M = TextLines(c)'
      BY <3>6
    <3>8. InOrder(Append(d, out[1]), b, c, M)
      BY <2>1, <3>1, <3>2, <3>3, <3>4, <3>7, TextSplit
    <3> QED
      BY <2>2, <3>5, <3>7, <3>8
  <2>4. CASE ~(HasChoice(line) /\ line.choice = c)
    <3>1. TextLines(c)' = N
      BY <1>9, <1>11, <2>4
    <3>2. held'[c] = h
      <4>1. CASE HasChoice(line)
        BY <1>3, <1>8, <1>9, <1>12, <2>4, <4>1
      <4>2. CASE ~HasChoice(line) /\ line.kind = "done"
        <5>1. ~Holding
          BY <1>6, <1>16, <4>2 DEF ObservedShape
        <5> QED
          BY <1>3, <1>12, <1>14, <4>2, <5>1 DEF Holding
      <4>3. CASE ~HasChoice(line) /\ line.kind # "done"
        BY <1>3, <1>12, <4>3
      <4> QED
        BY <4>1, <4>2, <4>3
    <3>3. out[1].text[c] = <<>>
      <4>1. CASE HasChoice(line)
        <5>1. out[1].text = [NoText EXCEPT ![line.choice] = Released(line, n, k)]
          BY <1>6, <4>1 DEF ObservedShape
        <5> QED
          BY <1>14, <2>4, <4>1, <5>1 DEF NoText
      <4>2. CASE ~HasChoice(line)
        BY <1>6, <1>14, <1>16, <4>2 DEF ObservedShape
      <4> QED
        BY <4>1, <4>2
    <3>4. InOrder(Append(d, out[1]), h, c, N)
      BY <1>13, <2>1, <3>3, TextPassed
    <3> QED
      BY <2>2, <3>1, <3>2, <3>4
  <2> QED
    BY <2>3, <2>4
<1>17. CASE ~dropped(line) /\ Len(out) = 3
  <2>1. line.kind = "done" /\ out[1] = heldTail /\ out[2] = Written("blank")
    BY <1>6, <1>17 DEF ObservedShape
  <2>2. ~HasChoice(line) /\ ~line.text
    BY <1>9, <2>1
  <2>3. /\ out[1] \in Out /\ out[2] \in Out /\ out[3] \in Out
        /\ out = <<out[1], out[2], out[3]>>
    BY <1>6, <1>17, ShortFact DEF ObservedShape
  <2>4. out[1].text[c] = h
    BY <1>8, <1>12, <2>1, heldTailType
  <2>5. out[2].text[c] = <<>>
    <3>1. Written("blank").text = NoText
      BY WrittenType, 0 \in Nat
    <3> QED
      BY <1>14, <2>1, <3>1
  <2>6. out[3].text[c] = <<>>
    BY <1>6, <1>14, <1>17, <2>2 DEF ObservedShape
  <2>7. held'[c] = <<>> /\ TextLines(c)' = N
    BY <1>3, <1>11, <1>14, <2>1, <2>2
  <2> DEFINE e1 == Append(d, out[1])
             e2 == Append(e1, out[2])
             e3 == Append(e2, out[3])
  <2>8. Delivered' = e3
    <3>1. Delivered' = d \o out
      BY <1>3, <1>5, <1>7, <1>17
    <3>2. d \o <<out[1], out[2], out[3]>> = e3
      BY <2>3, AppendEach
    <3> QED
      BY <2>3, <3>1, <3>2
  <2>9. e1 \in Seq(Out) /\ e2 \in Seq(Out) /\ <<>> \in Seq(Nat)
    BY <2>3
  <2>10. InOrder(e1, <<>>, c, N)
    BY <1>13, <2>3, <2>4, TextReleased
  <2> HIDE DEF e1
  <2>11. InOrder(e2, <<>>, c, N)
    BY <2>3, <2>5, <2>9, <2>10, TextPassed
  <2> HIDE DEF e2
  <2>12. InOrder(e3, <<>>, c, N)
    BY <2>3, <2>6, <2>9, <2>11, TextPassed
  <2> QED
    BY <2>7, <2>8, <2>12
<1> QED
  BY <1>6, <1>15, <1>16, <1>17 DEF ObservedShape

\* The lines the gateway adds carry the held text, or none.
LEMMA TextAdds ==
  ASSUME StreamTypeOK, StreamEnded, TextKept, KeepAlive \/ NextTail \/ RelayEnds
  PROVE  TextKept'
<1>1. sent \in Seq(Out) /\ pending \in Seq(Out) /\ held \in [Indexes -> Seq(Nat)]
      /\ read \in Seq(Lines)
  BY DEF StreamTypeOK
<1>2. /\ Written("blank") \in Out /\ Written("blank").text = NoText
      /\ Written("comment") \in Out /\ Written("comment").text = NoText
      /\ Written("done") \in Out /\ Written("done").text = NoText
      /\ Written("interrupted") \in Out /\ Written("interrupted").text = NoText
  BY WrittenType, 0 \in Nat
<1>3. UNCHANGED read
  BY DEF KeepAlive, NextTail, RelayEnds
<1> SUFFICES ASSUME NEW c \in Indexes
             PROVE  InOrder(Delivered', held'[c], c, TextLines(c)')
  BY DEF TextKept
<1>4. PICK N \in SUBSET Nat : N = TextLines(c) /\ N = TextLines(c)'
  <2>1. TextLines(c) \in SUBSET Nat
    BY <1>1 DEF TextLines
  <2>2. TextLines(c)' = TextLines(c)
    BY <1>3 DEF TextLines
  <2> QED
    BY <2>1, <2>2
<1>5. PICK h \in Seq(Nat) : h = held[c]
  BY <1>1
<1>6. InOrder(sent \o pending, h, c, N)
  BY <1>4, <1>5 DEF TextKept, Delivered
<1>7. NoText[c] = <<>>
  BY DEF NoText
<1>8. CASE KeepAlive
  <2> DEFINE t == <<Written("comment"), Written("blank")>>
  <2>1. t \in Seq(Out) /\ \A i \in DOMAIN t : t[i].text[c] = <<>>
    BY <1>2, <1>7
  <2>2. Delivered' = (sent \o t) \o pending /\ held' = held
    BY <1>8 DEF KeepAlive, Delivered, observed
  <2> HIDE DEF t
  <2>3. InOrder((sent \o t) \o pending, h, c, N)
    BY <1>1, <1>6, <2>1, TextInsert
  <2> QED
    BY <1>4, <1>5, <2>2, <2>3
<1>9. CASE NextTail
  <2>1. pending = <<>> /\ Delivered' = sent \o <<heldTail, Written("blank")>> /\ held' = NoText
    BY <1>9 DEF NextTail, Delivered
  <2>2. heldTail \in Out /\ heldTail.text[c] = h
    BY <1>1, <1>5, heldTailType
  <2>3. InOrder(sent, h, c, N)
    BY <1>1, <1>6, <2>1, AppendEach
  <2> DEFINE e1 == Append(sent, heldTail)
             e2 == Append(e1, Written("blank"))
  <2>4. e1 \in Seq(Out) /\ <<>> \in Seq(Nat) /\ Delivered' = e2
    BY <1>1, <1>2, <2>1, <2>2, AppendEach
  <2>5. InOrder(e1, <<>>, c, N)
    BY <1>1, <2>2, <2>3, TextReleased
  <2> HIDE DEF e1
  <2>6. InOrder(e2, <<>>, c, N)
    BY <1>2, <1>7, <2>4, <2>5, TextPassed
  <2> QED
    BY <1>4, <1>7, <2>1, <2>4, <2>6
<1>10. CASE RelayEnds
  <2>1. pending = <<>> /\ pending' = pending /\ sent' = sent \o terminator /\ held' = held
    BY <1>10 DEF RelayEnds, StreamEnded
  <2>2. InOrder(sent, h, c, N)
    BY <1>1, <1>6, <2>1, AppendEach
  <2>3. CASE terminator = <<>>
    <3>1. Delivered' = sent
      BY <1>1, <2>1, <2>3, AppendEach DEF Delivered
    <3> QED
      BY <1>4, <1>5, <2>1, <2>2, <3>1
  <2>4. CASE terminator # <<>>
    <3>1. PICK x \in Out : terminator = <<x, Written("blank")>> /\ x.text[c] = <<>>
      BY <1>2, <1>7, <2>4 DEF terminator
    <3> DEFINE e1 == Append(sent, x)
               e2 == Append(e1, Written("blank"))
    <3>2. e1 \in Seq(Out) /\ e2 \in Seq(Out) /\ sent' = e2
      BY <1>1, <1>2, <2>1, <3>1, AppendEach
    <3>3. Delivered' = e2
      BY <2>1, <3>2, AppendEach DEF Delivered
    <3>4. InOrder(e1, h, c, N)
      BY <1>1, <2>2, <3>1, TextPassed
    <3> HIDE DEF e1
    <3>5. InOrder(e2, h, c, N)
      BY <1>2, <1>7, <3>2, <3>4, TextPassed
    <3> QED
      BY <1>4, <1>5, <2>1, <3>3, <3>5
  <2> QED
    BY <2>3, <2>4
<1> QED
  BY <1>8, <1>9, <1>10

\* Every step keeps the text in order.
LEMMA TextStep ==
  ASSUME StreamTypeOK, StreamEnded, TextKept, [Next]_vars
  PROVE  TextKept'
<1>1. CASE QuietStep
  BY <1>1 DEF QuietStep, TextKept, TextLines
<1> QED
  BY <1>1, TextScan, TextAdds, StepShapes

\* Nothing is held once the last line read is [DONE].
LEMMA DoneReleasesStep ==
  ASSUME StreamTypeOK, DoneReleases, [Next]_vars
  PROVE  DoneReleases'
<1>1. CASE ScanStep
  <2>1. PICK line \in Lines : Scan(line) /\ UNCHANGED sent
    BY <1>1 DEF ScanStep
  <2>2. PICK n \in Nat : n = Len(read) + 1
    BY DEF StreamTypeOK
  <2>3. read'[n] = line /\ Len(read') = n
    BY <2>1, <2>2, ScanFact
  <2>4. Last(read') = line
    BY <2>3 DEF Last
  <2>5. line.kind = "done" => held' = NoText
    <3>1. line.kind = "done" => ~HasChoice(line)
      BY ChoiceType
    <3> QED
      BY <2>1, <3>1 DEF Scan
  <2> QED
    BY <2>4, <2>5 DEF DoneReleases, Holding, NoText, Last
<1>2. CASE ~ScanStep
  <2>1. UNCHANGED read /\ (held' = held \/ held' = NoText)
    BY <1>2, StepShapes DEF QuietStep, KeepAlive, NextTail, RelayEnds, observed
  <2> QED
    BY <2>1 DEF DoneReleases, Holding, NoText, Last
<1> QED
  BY <1>1, <1>2

\* Text that was masked reaches the client whole and in order, for every choice
\* and however the unmasker cuts it, and none stays behind at the end.
THEOREM TextArrivesInOrder == Spec => []TextInOrder
<1>1. Init => TextKept /\ DoneReleases
  <2> SUFFICES ASSUME Init PROVE TextKept /\ DoneReleases
    OBVIOUS
  <2>1. Delivered = <<>> /\ read = <<>> /\ held = NoText
    BY DEF Init, Delivered
  <2>2. \A c \in Indexes : held[c] = <<>> /\ TextLines(c) = {}
    BY <2>1 DEF NoText, TextLines
  <2>3. TextKept
    BY <2>1, <2>2 DEF TextKept, InOrder
  <2> QED
    BY <2>1, <2>3 DEF DoneReleases
<1>2. StreamTypeOK /\ StreamEnded /\ TextKept /\ DoneReleases => TextInOrder
  <2> SUFFICES ASSUME StreamTypeOK, StreamEnded, TextKept, DoneReleases PROVE TextInOrder
    OBVIOUS
  <2>1. ASSUME NEW c \in Indexes
        PROVE  LET texts == Append([i \in DOMAIN Delivered |-> Delivered[i].text[c]], held[c])
               IN /\ Ascending(texts)
                  /\ UNION {Range(texts[i]) : i \in DOMAIN texts} = TextLines(c)
    <3> DEFINE d == Delivered
               h == held[c]
               ts == [i \in DOMAIN d |-> d[i].text[c]]
               texts == Append(ts, h)
               m == Len(d) + 1
    <3>1. d \in Seq(Out) /\ h \in Seq(Nat)
      BY ConcatFact DEF StreamTypeOK, Delivered
    <3>2. InOrder(d, h, c, TextLines(c))
      BY DEF TextKept
    <3> HIDE DEF d, h
    <3>3. \A i \in DOMAIN d : d[i].text[c] \in Seq(Nat)
      <4>1. \A i \in DOMAIN d : d[i] \in Out
        BY <3>1
      <4> QED
        BY <4>1 DEF Out
    <3>4. ts \in Seq(Seq(Nat)) /\ Len(ts) = Len(d) /\ DOMAIN ts = DOMAIN d
      BY <3>1, <3>3
    <3>5. \A i \in DOMAIN d : ts[i] = d[i].text[c]
      OBVIOUS
    <3> HIDE DEF ts
    <3>6. /\ DOMAIN texts = DOMAIN d \cup {m} /\ texts[m] = h
          /\ \A i \in DOMAIN d : texts[i] = d[i].text[c]
      BY <3>1, <3>4, <3>5, AppendFact
    <3>7. m \in Nat /\ \A i \in DOMAIN d : i \in Nat /\ i < m
      BY <3>1
    <3> HIDE DEF texts, m
    <3>8. Ascending(texts)
      <4> SUFFICES ASSUME NEW i \in DOMAIN texts, NEW j \in DOMAIN texts,
                          NEW p \in DOMAIN texts[i], NEW q \in DOMAIN texts[j],
                          i < j \/ (i = j /\ p < q)
                   PROVE  texts[i][p] < texts[j][q]
        BY DEF Ascending
      <4>1. CASE i \in DOMAIN d /\ j \in DOMAIN d
        BY <3>2, <3>6, <4>1 DEF InOrder
      <4>2. CASE i \in DOMAIN d /\ j = m
        BY <3>2, <3>6, <4>2 DEF InOrder
      <4>3. CASE i = m /\ j = m
        BY <3>2, <3>6, <3>7, <4>3 DEF InOrder
      <4>4. ~(i = m /\ j \in DOMAIN d)
        BY <3>7
      <4> QED
        BY <3>6, <4>1, <4>2, <4>3, <4>4
    <3>9. \A i \in DOMAIN texts : \A p \in DOMAIN texts[i] : texts[i][p] \in TextLines(c)
      BY <3>2, <3>6 DEF InOrder
    <3>10. \A k \in TextLines(c) : \E i \in DOMAIN texts : \E p \in DOMAIN texts[i] : texts[i][p] = k
      BY <3>2, <3>6 DEF InOrder
    <3>11. UNION {Range(texts[i]) : i \in DOMAIN texts} = TextLines(c)
      BY <3>9, <3>10 DEF Range
    <3> QED
      BY <3>8, <3>11 DEF texts, ts, d, h
  <2>2. phase \in {"ending", "closed"} /\ end # "closed_before_eof" => ~Holding /\ pending = <<>>
    BY DEF StreamEnded
  <2> QED
    BY <2>1, <2>2 DEF TextInOrder, TextLines, DoneReleases
<1> QED
  BY StreamInit, StreamTypeStep, EndedStep, TextStep, DoneReleasesStep, <1>1, <1>2, PTL DEF Spec

-----------------------------------------------------------------------------
(* VsockRelay: connections between TCP and vsock.                          *)

ConnTypeOK ==
  /\ kind \in [Conns -> {"forward", "bridge", "absent"}]
  /\ pc \in [Conns -> {"new", "refused", "dialing", "open", "failed", "closed"}]
  /\ limit \in Nat
  /\ written \in [Conns -> [Ways -> Nat]] /\ copied \in [Conns -> [Ways -> Nat]]
  /\ fin \in [Conns -> [Ways -> BOOLEAN]] /\ gone \in [Conns -> [Ways -> BOOLEAN]]
  /\ reset \in [Conns -> [Ways -> BOOLEAN]]
  /\ done \in [Conns -> [Ways -> BOOLEAN]] /\ eof \in [Conns -> [Ways -> BOOLEAN]]

\* A forward's copy that ended has copied everything that will ever be written,
\* unless its reader is gone or its writer's connection broke, and the reader is
\* told only after that.
WayOK(x, way) ==
  /\ done[x][way] /\ ~gone[x][way] =>
       (fin[x][way] /\ copied[x][way] = written[x][way]) \/ reset[x][way]
  /\ eof[x][way] => done[x][way]

Copied == \A x \in Forwards, way \in Ways : WayOK(x, way)

\* The way back of a way is not the way itself.
LEMMA OtherWay ==
  ASSUME NEW way \in Ways
  PROVE  Other(way) \in Ways /\ Other(way) # way
<1>1. \E w \in Ways : w # way
  BY DEF Ways
<1> QED
  BY <1>1 DEF Other

Updated(f, x, w, v) == [f EXCEPT ![x][w] = v]

\* One way of one connection changes, and nothing else.
LEMMA WayUpdated ==
  ASSUME NEW A, NEW f \in [Conns -> [Ways -> A]], NEW x \in Conns, NEW w \in Ways,
         NEW v \in A
  PROVE  /\ Updated(f, x, w, v) \in [Conns -> [Ways -> A]]
         /\ Updated(f, x, w, v)[x][w] = v
         /\ \A y \in Conns, u \in Ways :
              ~(y = x /\ u = w) => Updated(f, x, w, v)[y][u] = f[y][u]
<1> DEFINE g == [f[x] EXCEPT ![w] = v]
<1>1. f[x] \in [Ways -> A]
  OBVIOUS
<1>2. g \in [Ways -> A] /\ g[w] = v /\ \A u \in Ways : u # w => g[u] = f[x][u]
  BY <1>1
<1>3. Updated(f, x, w, v) = [f EXCEPT ![x] = g]
  BY DEF Updated
<1> HIDE DEF g
<1> QED
  BY <1>2, <1>3

\* What becomes true of one way stays true of the others.
LEMMA StaysTrue ==
  ASSUME NEW f \in [Conns -> [Ways -> BOOLEAN]], NEW y \in Conns, NEW u \in Ways,
         NEW x \in Conns, NEW way \in Ways, f[x][way]
  PROVE  [f EXCEPT ![y][u] = TRUE][x][way]
<1> DEFINE g == [f[y] EXCEPT ![u] = TRUE]
<1>1. f[y] \in [Ways -> BOOLEAN] /\ f[x] \in [Ways -> BOOLEAN]
  OBVIOUS
<1>2. [f EXCEPT ![y][u] = TRUE] = [f EXCEPT ![y] = g]
  OBVIOUS
<1>3. y = x => g[way]
  BY <1>1
<1> HIDE DEF g
<1>4. [f EXCEPT ![y] = g][x] = IF y = x THEN g ELSE f[x]
  OBVIOUS
<1>5. [f EXCEPT ![y] = g][x][way]
  <2>1. CASE y = x
    BY <1>3, <1>4, <2>1
  <2>2. CASE y # x
    BY <1>4, <2>2
  <2> QED
    BY <2>1, <2>2
<1> QED
  BY <1>2, <1>5

\* The types are kept.
LEMMA ConnTypeStep ==
  ASSUME ConnTypeOK, SlotsCounted, [ConnNext]_connVars
  PROVE  ConnTypeOK'
<1>1. CASE UNCHANGED connVars
  BY <1>1 DEF connVars, ConnTypeOK
<1>2. CASE ConnNext
  <2>1. PICK x \in Conns :
          \/ RelayConn(x)
          \/ \E way \in Ways : Writes(x, way) \/ FinishesWriting(x, way) \/ Leaves(x, way)
                             \/ Resets(x, way)
    BY <1>2 DEF ConnNext, Ends
  <2>2. CASE Accept(x)
    <3>1. /\ limit' \in {limit, limit + 1} /\ UNCHANGED <<kind, ways>>
          /\ \E p \in {"dialing", "refused"} : pc' = [pc EXCEPT ![x] = p]
      BY <2>2 DEF Accept
    <3>2. limit' \in Nat
      BY <3>1 DEF ConnTypeOK
    <3> QED
      BY <3>1, <3>2 DEF ways, ConnTypeOK
  <2>3. CASE Dial(x)
    BY <2>3 DEF Dial, ways, ConnTypeOK
  <2>4. CASE DialFails(x) \/ CloseConn(x)
    <3>1. x \in Forwards => x \in Holders
      BY <2>4 DEF DialFails, CloseConn, Holders
    <3>2. x \in Forwards => limit # 0
      BY <3>1, FS_EmptySet DEF SlotsCounted
    <3>3. limit' \in Nat
      BY <2>4, <3>2 DEF DialFails, CloseConn, release, ConnTypeOK
    <3>4. [way \in Ways |-> TRUE] \in [Ways -> BOOLEAN]
      OBVIOUS
    <3>5. /\ \E p \in {"failed", "closed"} : pc' = [pc EXCEPT ![x] = p]
          /\ eof' = eof \/ eof' = [eof EXCEPT ![x] = [way \in Ways |-> TRUE]]
          /\ UNCHANGED <<kind, written, copied, fin, gone, reset, done>>
      BY <2>4 DEF DialFails, CloseConn, ways
    <3>6. eof' \in [Conns -> [Ways -> BOOLEAN]]
      BY <3>4, <3>5 DEF ConnTypeOK
    <3> QED
      BY <3>3, <3>5, <3>6 DEF ConnTypeOK
  <2>5. ASSUME NEW way \in Ways,
               Copy(x, way) \/ Writes(x, way)
        PROVE  ConnTypeOK'
    <3>1. copied[x][way] + 1 \in Nat /\ written[x][way] + 1 \in Nat
      BY DEF ConnTypeOK
    <3>2. PICK c \in Nat, n \in Nat :
            /\ copied' = copied \/ copied' = Updated(copied, x, way, c)
            /\ written' = written \/ written' = Updated(written, x, way, n)
            /\ UNCHANGED <<kind, pc, limit, fin, gone, reset, done, eof>>
      BY <2>5, <3>1 DEF Copy, Writes, Updated
    <3>3. /\ copied \in [Conns -> [Ways -> Nat]] /\ written \in [Conns -> [Ways -> Nat]]
          /\ \A f \in [Conns -> [Ways -> Nat]], v \in Nat :
               Updated(f, x, way, v) \in [Conns -> [Ways -> Nat]]
      BY WayUpdated DEF ConnTypeOK
    <3>4. copied' \in [Conns -> [Ways -> Nat]]
      BY <3>2, <3>3
    <3>5. written' \in [Conns -> [Ways -> Nat]]
      BY <3>2, <3>3
    <3> QED
      BY <3>2, <3>4, <3>5 DEF ConnTypeOK
  <2>6. ASSUME NEW way \in Ways,
               CopyEnds(x, way) \/ FinishesWriting(x, way) \/ Leaves(x, way) \/ Resets(x, way)
        PROVE  ConnTypeOK'
    <3>1. (eof[x][way] \/ x \in Forwards) \in BOOLEAN /\ TRUE \in BOOLEAN
      OBVIOUS
    <3>2. PICK b \in BOOLEAN, t \in BOOLEAN :
            /\ done' = done \/ done' = Updated(done, x, way, t)
            /\ eof' = eof \/ eof' = Updated(eof, x, way, b)
            /\ fin' = fin \/ fin' = Updated(fin, x, way, t)
            /\ gone' = gone \/ gone' = Updated(gone, x, Other(way), t)
            /\ reset' = reset \/ reset' = Updated(reset, x, way, t)
            /\ UNCHANGED <<kind, pc, limit, written, copied>>
      BY <2>6, <3>1, Zenon DEF CopyEnds, CopyStops, FinishesWriting, Leaves, Resets, Updated
    <3>3. \A f \in [Conns -> [Ways -> BOOLEAN]], w \in Ways, v \in BOOLEAN :
            Updated(f, x, w, v) \in [Conns -> [Ways -> BOOLEAN]]
      BY WayUpdated
    <3>4. /\ done \in [Conns -> [Ways -> BOOLEAN]] /\ eof \in [Conns -> [Ways -> BOOLEAN]]
          /\ fin \in [Conns -> [Ways -> BOOLEAN]] /\ gone \in [Conns -> [Ways -> BOOLEAN]]
          /\ reset \in [Conns -> [Ways -> BOOLEAN]] /\ Other(way) \in Ways
      BY OtherWay DEF ConnTypeOK
    <3>5. done' \in [Conns -> [Ways -> BOOLEAN]]
      <4>1. Updated(done, x, way, t) \in [Conns -> [Ways -> BOOLEAN]]
        BY <3>3, <3>4, Zenon
      <4> QED
        BY <3>2, <3>4, <4>1, Zenon
    <3>6. eof' \in [Conns -> [Ways -> BOOLEAN]]
      <4>1. Updated(eof, x, way, b) \in [Conns -> [Ways -> BOOLEAN]]
        BY <3>3, <3>4, Zenon
      <4> QED
        BY <3>2, <3>4, <4>1, Zenon
    <3>7. fin' \in [Conns -> [Ways -> BOOLEAN]]
      <4>1. Updated(fin, x, way, t) \in [Conns -> [Ways -> BOOLEAN]]
        BY <3>3, <3>4, Zenon
      <4> QED
        BY <3>2, <3>4, <4>1, Zenon
    <3>8. gone' \in [Conns -> [Ways -> BOOLEAN]]
      <4>1. Updated(gone, x, Other(way), t) \in [Conns -> [Ways -> BOOLEAN]]
        BY <3>3, <3>4, Zenon
      <4> QED
        BY <3>2, <3>4, <4>1, Zenon
    <3>9. reset' \in [Conns -> [Ways -> BOOLEAN]]
      <4>1. Updated(reset, x, way, t) \in [Conns -> [Ways -> BOOLEAN]]
        BY <3>3, <3>4, Zenon
      <4> QED
        BY <3>2, <3>4, <4>1, Zenon
    <3> QED
      BY <3>2, <3>5, <3>6, <3>7, <3>8, <3>9 DEF ConnTypeOK
  <2> QED
    BY <2>1, <2>2, <2>3, <2>4, <2>5, <2>6 DEF RelayConn
<1> QED
  BY <1>1, <1>2

\* No step ends a forward's data early.
LEMMA CopiedStep ==
  ASSUME ConnTypeOK, Copied, [ConnNext]_connVars
  PROVE  Copied'
<1>1. UNCHANGED kind
  BY DEF ConnNext, connVars, RelayConn, Accept, Dial, DialFails, CloseConn, Copy, CopyEnds,
         Ends, Writes, FinishesWriting, Leaves, Resets
<1> SUFFICES ASSUME NEW x \in Forwards, NEW way \in Ways
             PROVE  WayOK(x, way)'
  BY <1>1 DEF Copied, Forwards
<1>2. x \in Conns /\ WayOK(x, way)
  BY DEF Copied, Forwards
<1>3. CASE UNCHANGED ways
  BY <1>2, <1>3 DEF ways, WayOK
<1>4. CASE ConnNext
  <2>1. PICK y \in Conns :
          \/ RelayConn(y)
          \/ \E w \in Ways : Writes(y, w) \/ FinishesWriting(y, w) \/ Leaves(y, w)
                           \/ Resets(y, w)
    BY <1>4 DEF ConnNext, Ends
  <2>2. CASE Accept(y) \/ Dial(y) \/ DialFails(y)
    BY <1>3, <2>2 DEF Accept, Dial, DialFails
  <2>3. CASE CloseConn(y)
    <3>1. y = x => done[x][way]
      BY <2>3 DEF CloseConn, Waited, Ended
    <3>2. eof' = [eof EXCEPT ![y] = [w \in Ways |-> TRUE]]
          /\ UNCHANGED <<written, copied, fin, gone, reset, done>>
      BY <2>3 DEF CloseConn
    <3>3. y # x => eof'[x] = eof[x]
      BY <1>2, <3>2 DEF ConnTypeOK
    <3> QED
      BY <1>2, <3>1, <3>2, <3>3 DEF WayOK
  <2>4. ASSUME NEW w \in Ways, Copy(y, w)
        PROVE  WayOK(x, way)'
    <3>1. ~done[y][w] /\ copied' = [copied EXCEPT ![y][w] = copied[y][w] + 1]
          /\ UNCHANGED <<written, fin, gone, reset, done, eof>>
      BY <2>4 DEF Copy
    <3>2. (y = x /\ w = way) \/ copied'[x][way] = copied[x][way]
      BY <1>2, <3>1 DEF ConnTypeOK
    <3> QED
      BY <1>2, <3>1, <3>2 DEF WayOK
  <2>5. ASSUME NEW w \in Ways, CopyEnds(y, w)
        PROVE  WayOK(x, way)'
    <3>1. /\ \/ fin[y][w] /\ copied[y][w] = written[y][w]
             \/ gone[y][w] \/ reset[y][w]
          /\ done' = [done EXCEPT ![y][w] = TRUE]
          /\ UNCHANGED <<written, copied, fin, gone, reset>>
      BY <2>5 DEF CopyEnds, CopyStops
    <3>2. PICK b : eof' = [eof EXCEPT ![y][w] = b]
      BY <2>5 DEF CopyEnds
    <3>3. CASE y = x /\ w = way
      <4>1. done'[x][way]
        BY <1>2, <3>1, <3>3 DEF ConnTypeOK
      <4> QED
        BY <3>1, <3>3, <4>1 DEF WayOK
    <3>4. CASE ~(y = x /\ w = way)
      <4>1. done'[x][way] = done[x][way] /\ eof'[x][way] = eof[x][way]
        BY <1>2, <3>1, <3>2, <3>4 DEF ConnTypeOK
      <4> QED
        BY <1>2, <3>1, <4>1 DEF WayOK
    <3> QED
      BY <3>3, <3>4
  <2>6. ASSUME NEW w \in Ways, Writes(y, w)
        PROVE  WayOK(x, way)'
    <3>1. ~fin[y][w] /\ written' = [written EXCEPT ![y][w] = written[y][w] + 1]
          /\ UNCHANGED <<copied, fin, gone, reset, done, eof>>
      BY <2>6 DEF Writes
    <3>2. (y = x /\ w = way) \/ written'[x][way] = written[x][way]
      BY <1>2, <3>1 DEF ConnTypeOK
    <3> QED
      BY <1>2, <3>1, <3>2 DEF WayOK
  <2>7. ASSUME NEW w \in Ways, FinishesWriting(y, w) \/ Leaves(y, w) \/ Resets(y, w)
        PROVE  WayOK(x, way)'
    <3>1. /\ fin' = [fin EXCEPT ![y][w] = TRUE]
          /\ gone' = gone \/ gone' = [gone EXCEPT ![y][Other(w)] = TRUE]
          /\ reset' = reset \/ reset' = [reset EXCEPT ![y][w] = TRUE]
          /\ UNCHANGED <<written, copied, done, eof>>
      BY <2>7 DEF FinishesWriting, Leaves, Resets
    <3>2. /\ fin[x][way] => fin'[x][way]
          /\ gone[x][way] => gone'[x][way]
          /\ reset[x][way] => reset'[x][way]
      <4>1. /\ fin \in [Conns -> [Ways -> BOOLEAN]] /\ gone \in [Conns -> [Ways -> BOOLEAN]]
            /\ reset \in [Conns -> [Ways -> BOOLEAN]] /\ Other(w) \in Ways
        BY OtherWay DEF ConnTypeOK
      <4>2. fin[x][way] => fin'[x][way]
        BY <1>2, <3>1, <4>1, StaysTrue, Zenon
      <4>3. gone[x][way] => gone'[x][way]
        BY <1>2, <3>1, <4>1, StaysTrue, Zenon
      <4>4. reset[x][way] => reset'[x][way]
        BY <1>2, <3>1, <4>1, StaysTrue, Zenon
      <4> QED
        BY <4>2, <4>3, <4>4
    <3> QED
      BY <1>2, <3>1, <3>2 DEF WayOK
  <2> QED
    BY <2>1, <2>2, <2>3, <2>4, <2>5, <2>6, <2>7 DEF RelayConn
<1> QED
  BY <1>3, <1>4 DEF connVars, ways

\* Only a connection that starts or ends takes or returns a slot, its own.
LEMMA SlotsStep ==
  ASSUME ConnTypeOK, SlotsCounted, [ConnNext]_connVars
  PROVE  SlotsCounted'
<1>1. UNCHANGED kind
  BY DEF ConnNext, connVars, RelayConn, Accept, Dial, DialFails, CloseConn, Copy, CopyEnds,
         Ends, Writes, FinishesWriting, Leaves, Resets
<1>2. UNCHANGED Forwards
  BY <1>1 DEF Forwards
<1>3. \A x \in Forwards : x \in Conns
  BY DEF Forwards
<1>4. IsFiniteSet(Holders) /\ Cardinality(Holders) = limit /\ limit <= MaxConnections
      /\ limit \in Nat /\ MaxConnections \in Nat
  BY RelayAssumption DEF SlotsCounted, ConnTypeOK
<1>5. CASE UNCHANGED <<pc, limit>>
  BY <1>2, <1>4, <1>5 DEF Holders, SlotsCounted
<1>6. ASSUME NEW x \in Conns, Accept(x)
      PROVE  SlotsCounted'
  <2>1. CASE x \in Forwards /\ limit < MaxConnections
    <3>1. limit' = limit + 1 /\ pc' = [pc EXCEPT ![x] = "dialing"] /\ pc[x] = "new"
      BY <1>4, <1>6, <2>1 DEF Accept, Bridges, Forwards
    <3>2. x \notin Holders /\ Holders' = Holders \cup {x}
      BY <1>2, <1>3, <2>1, <3>1 DEF Holders, ConnTypeOK
    <3>3. IsFiniteSet(Holders \cup {x}) /\ Cardinality(Holders \cup {x}) = Cardinality(Holders) + 1
      BY <1>4, <3>2, FS_AddElement
    <3> QED
      BY <1>4, <2>1, <3>1, <3>2, <3>3, RelayAssumption DEF SlotsCounted
  <2>2. CASE ~(x \in Forwards /\ limit < MaxConnections)
    <3>1. limit' = limit /\ \E p \in {"dialing", "refused"} : pc' = [pc EXCEPT ![x] = p]
      BY <1>4, <1>6, <2>2 DEF Accept
    <3>2. x \in Forwards => pc' = [pc EXCEPT ![x] = "refused"]
      BY <1>4, <1>6, <2>2 DEF Accept, Bridges, Forwards
    <3>3. Holders' = Holders
      BY <1>2, <1>3, <1>6, <3>1, <3>2 DEF Holders, ConnTypeOK, Accept
    <3> QED
      BY <1>4, <3>1, <3>3 DEF SlotsCounted
  <2> QED
    BY <2>1, <2>2
<1>7. ASSUME NEW x \in Conns, Dial(x)
      PROVE  SlotsCounted'
  <2>1. limit' = limit /\ pc' = [pc EXCEPT ![x] = "open"] /\ pc[x] = "dialing"
    BY <1>7 DEF Dial
  <2>2. Holders' = Holders
    BY <1>2, <1>3, <2>1 DEF Holders, ConnTypeOK
  <2> QED
    BY <1>4, <2>1, <2>2 DEF SlotsCounted
<1>8. ASSUME NEW x \in Conns, DialFails(x) \/ CloseConn(x)
      PROVE  SlotsCounted'
  <2>1. /\ pc[x] \in {"dialing", "open"}
        /\ \E p \in {"failed", "closed"} : pc' = [pc EXCEPT ![x] = p]
        /\ limit' = release(x)
    BY <1>8 DEF DialFails, CloseConn
  <2>2. CASE x \in Forwards
    <3>1. x \in Holders /\ Holders' = Holders \ {x}
      BY <1>2, <1>3, <2>1, <2>2 DEF Holders, ConnTypeOK
    <3>2. IsFiniteSet(Holders \ {x}) /\ Cardinality(Holders \ {x}) = Cardinality(Holders) - 1
      BY <1>4, <3>1, FS_RemoveElement
    <3>3. limit' = limit - 1
      BY <2>1, <2>2 DEF release
    <3> QED
      BY <1>4, <3>1, <3>2, <3>3 DEF SlotsCounted
  <2>3. CASE x \notin Forwards
    <3>1. Holders' = Holders /\ limit' = limit
      BY <1>2, <1>3, <2>1, <2>3 DEF Holders, ConnTypeOK, release
    <3> QED
      BY <1>4, <3>1 DEF SlotsCounted
  <2> QED
    BY <2>2, <2>3
<1> QED
  BY <1>5, <1>6, <1>7, <1>8 DEF ConnNext, connVars, RelayConn, Ends, Copy, CopyEnds,
     Writes, FinishesWriting, Leaves, Resets

\* Nothing has arrived.
LEMMA ConnInitial == ConnInit => ConnTypeOK /\ Copied /\ SlotsCounted
<1> SUFFICES ASSUME ConnInit PROVE ConnTypeOK /\ Copied /\ SlotsCounted
  OBVIOUS
<1>1. Zero \in [Conns -> [Ways -> Nat]] /\ None \in [Conns -> [Ways -> BOOLEAN]]
      /\ \A x \in Conns, way \in Ways : ~None[x][way]
  BY DEF Zero, None
<1>2. ConnTypeOK
  BY <1>1, RelayAssumption DEF ConnInit, ConnTypeOK
<1>3. Copied
  BY <1>1 DEF ConnInit, Copied, WayOK, Forwards
<1>4. Holders = {} /\ limit = 0
  BY DEF ConnInit, Holders, Forwards
<1>5. SlotsCounted
  BY <1>4, FS_EmptySet, RelayAssumption DEF SlotsCounted
<1> QED
  BY <1>2, <1>3, <1>5

\* A forward tells an end that its data ended only when it has all of it, or when
\* the connection the data came from broke, however many connections and pieces
\* there are.
THEOREM NothingIsCutShort == ConnSpec => []NothingCutShort
<1> DEFINE I == ConnTypeOK /\ Copied /\ SlotsCounted
<1>1. ConnInit => I
  BY ConnInitial
<1>2. I /\ [ConnNext]_connVars => I'
  BY ConnTypeStep, CopiedStep, SlotsStep
<1>3. I => NothingCutShort
  BY DEF Copied, WayOK, NothingCutShort
<1> QED
  BY <1>1, <1>2, <1>3, PTL DEF ConnSpec

\* The slots in use are the forwards that are dialing or open, each one once, and
\* never more than --max-connections: whichever end leaves first, a slot that was
\* taken is returned exactly once.
THEOREM SlotsAreCounted == ConnSpec => []SlotsCounted
<1> DEFINE I == ConnTypeOK /\ SlotsCounted
<1>1. ConnInit => I
  BY ConnInitial
<1>2. I /\ [ConnNext]_connVars => I'
  BY ConnTypeStep, SlotsStep
<1> QED
  BY <1>1, <1>2, PTL DEF ConnSpec
=============================================================================
