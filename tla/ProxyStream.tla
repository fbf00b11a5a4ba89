----------------------------- MODULE ProxyStream -----------------------------
(***************************************************************************)
(* One provider stream on its way to the client: ProxyStream (prime, Next, *)
(* Close), the unmasker's held text and the chat handler's relay.          *)
(*                                                                         *)
(* A line of the upstream is reduced to what the code looks at.  The text  *)
(* of line n is the piece n: restoring placeholders changes its wording,   *)
(* never which piece it is, and what matters is that each piece reaches    *)
(* the client once and in order.                                           *)
(***************************************************************************)
EXTENDS Integers, Sequences, SequencesExt, FiniteSets

CONSTANTS
  Indexes,      \* indexes of the choices a chunk may carry
  Lines,        \* the upstream lines considered: a subset of Line
  MaxLines,     \* bound on the lines read
  MaxComments   \* bound on keep-alive comments

NoChoice == -1

\* A chunk is a data line that is JSON.  It carries at most one choice here.
\* Its error field is null or an error object, or its base_resp has a status.
Line == [kind : {"comment", "blank", "done", "malformed", "chunk"},
         choice : Indexes \cup {NoChoice}, role : BOOLEAN, text : BOOLEAN,
         finish : {"none", "empty", "stop"}, usage : BOOLEAN,
         error : {"none", "null", "object", "base_resp"}]

ASSUME LinesAssumption ==
  /\ Indexes \subseteq Nat
  /\ Lines \subseteq Line
  /\ MaxLines \in Nat /\ MaxComments \in Nat
  /\ \A line \in Lines :
       /\ line.choice = NoChoice =>
            ~line.role /\ ~line.text /\ line.finish = "none"
       /\ line.kind # "chunk" =>
            line.choice = NoChoice /\ ~line.usage /\ line.error = "none"

VARIABLES
  read,        \* the lines scanned so far
  upstream,    \* open, eof, or broken by a read error
  hideUsage,   \* the client did not ask for usage
  masking,     \* the request was masked: there is an unmasker
  held,        \* for each choice, the text held back
  o,           \* the outcome: finish, usage (the line it came from), err
  sawDone, chunks, roleSent, skipBlank,
  pending,     \* lines to send
  sent,        \* lines written to the client
  phase,       \* prime, failed, opened, relay, ending, closed
  end,         \* how the stream ended
  metered,     \* calls of onEnd
  client       \* the client is still connected

vars == <<read, upstream, hideUsage, masking, held, o, sawDone, chunks,
          roleSent, skipBlank, pending, sent, phase, end, metered, client>>

\* What observe and keep change besides pending.
observed == <<held, o, sawDone, chunks, roleSent, skipBlank>>
request == <<hideUsage, masking>>

-----------------------------------------------------------------------------
(* Lines on their way to the client: src is the upstream line, 0 when the  *)
(* gateway wrote it.                                                       *)

NoText == [c \in Indexes |-> <<>>]
Written(kind) == [src |-> 0, kind |-> kind, role |-> {}, text |-> NoText]
Passed(kind, n) == [Written(kind) EXCEPT !.src = n]

Holding == \E c \in Indexes : held[c] # <<>>

-----------------------------------------------------------------------------
(* Reading one line, the n-th.                                             *)

IsBlank(line) == line.kind = "blank"

\* The event belongs to a choice, so the unmasker looks at it.
HasChoice(line) == line.choice # NoChoice

\* What the unmasker has of the event's choice once the event is fed to it.
Fed(line, n) == held[line.choice] \o (IF line.text THEN <<n>> ELSE <<>>)

\* feedPIIStreamBuffer keeps back any end of the text that may start a
\* placeholder; release empties the buffer when the choice finishes, even with
\* an empty finish reason.
KeptBack(line, n) ==
  IF HasChoice(line)
  THEN IF ~masking \/ line.finish # "none" THEN {0}
       ELSE IF line.text THEN 0 .. Len(Fed(line, n))
       ELSE {Len(held[line.choice])}
  ELSE {0}

Released(line, n, k) == SubSeq(Fed(line, n), 1, Len(Fed(line, n)) - k)
KeptText(line, n, k) ==
  SubSeq(Fed(line, n), Len(Fed(line, n)) - k + 1, Len(Fed(line, n)))

\* dropRepeatedRole: the role stays on the first event that has it.
dropRepeatedRole(line) == IF line.role THEN {line.choice} \ roleSent ELSE {}

\* failure: an error object or a base_resp status in the event.
failure(line) == line.error \in {"object", "base_resp"}

\* commits: the event carries output, or any finish reason.
commits(line) == line.text \/ line.finish # "none"

\* Mutant of heldTail: the event is built after the buffers are emptied.
emptyTail == Written("chunk")

\* tail: one event with all that is still held, for every choice.
heldTail == [Written("chunk") EXCEPT !.text = held]

\* Mutant of Observed: [DONE] follows the held text in the same event.
ObservedUnseparated(line, n, k) ==
  CASE line.kind = "chunk" ->
         <<[Passed("chunk", n) EXCEPT
              !.role = dropRepeatedRole(line),
              !.text = IF HasChoice(line)
                       THEN [NoText EXCEPT ![line.choice] = Released(line, n, k)]
                       ELSE NoText]>>
    [] line.kind = "done" /\ Holding -> <<heldTail, Passed("done", n)>>
    [] OTHER -> <<Passed(line.kind, n)>>

\* The lines observe returns.
Observed(line, n, k) ==
  IF line.kind = "chunk"
  THEN <<[Passed("chunk", n) EXCEPT
            !.role = dropRepeatedRole(line),
            !.text = IF HasChoice(line)
                     THEN [NoText EXCEPT ![line.choice] = Released(line, n, k)]
                     ELSE NoText]>>
  ELSE IF line.kind = "done" /\ Holding
  THEN <<heldTail, Written("blank"), Passed("done", n)>>
  ELSE <<Passed(line.kind, n)>>

\* keep drops a usage-only event the client did not ask for, and the blank
\* that follows it.  An error field counts as one even if it is null, and a
\* base_resp does not.
usageOnly(line) ==
  line.usage /\ ~HasChoice(line) /\ line.error \in {"none", "base_resp"}

\* Mutant of dropped: the blank line stays.
droppedEventOnly(line) == hideUsage /\ usageOnly(line)

dropped(line) == \/ hideUsage /\ usageOnly(line)
                 \/ skipBlank /\ IsBlank(line)

keep(line, out) ==
  /\ skipBlank' = (hideUsage /\ usageOnly(line))
  /\ pending' = IF dropped(line) THEN pending ELSE pending \o out

\* One scanned line: observe, then keep on each line to send.
Scan(line) ==
  LET n == Len(read) + 1
  IN /\ upstream = "open" /\ n <= MaxLines
     /\ read' = Append(read, line)
     /\ sawDone' = (sawDone \/ line.kind = "done")
     /\ chunks' = IF line.kind = "chunk" THEN chunks + 1 ELSE chunks
     /\ o' = [finish |-> o.finish \/ line.finish = "stop",
              usage |-> IF line.usage THEN n ELSE o.usage,
              err |-> IF o.err = "none" /\ failure(line) THEN "provider"
                      ELSE o.err]
     /\ roleSent' = IF line.role THEN roleSent \cup {line.choice} ELSE roleSent
     /\ \E k \in KeptBack(line, n) :
          /\ held' = IF HasChoice(line)
                     THEN [held EXCEPT ![line.choice] = KeptText(line, n, k)]
                     ELSE IF line.kind = "done" THEN NoText ELSE held
          /\ keep(line, Observed(line, n, k))
     /\ UNCHANGED <<upstream, request>>

-----------------------------------------------------------------------------
(* prime: read until the first output.                                     *)

PrimeLine ==
  /\ phase = "prime"
  /\ \E line \in Lines :
       /\ Scan(line)
       /\ phase' = IF o'.err # "none" THEN "failed"
                   ELSE IF sawDone' \/ commits(line) THEN "opened"
                   ELSE "prime"
  /\ UNCHANGED <<sent, end, metered, client>>

\* The upstream ended before any output.  A failed prime closes the body and
\* Proxy may fall back: this stream is over and never metered.
PrimeEnds ==
  /\ phase = "prime" /\ upstream # "open"
  /\ phase' = IF upstream = "broken" \/ chunks = 0 THEN "failed" ELSE "opened"
  /\ UNCHANGED <<read, upstream, request, observed, pending, sent, end,
                 metered, client>>

-----------------------------------------------------------------------------
(* Next and Close.                                                         *)

\* end: metering happens once.
endAs(how, outcome) ==
  /\ o' = outcome
  /\ end' = how
  /\ metered' = metered + 1

\* A pending line goes out before anything else is read.
SendPending ==
  /\ phase = "relay" /\ pending # <<>>
  /\ sent' = Append(sent, Head(pending))
  /\ pending' = Tail(pending)
  /\ UNCHANGED <<read, upstream, request, observed, phase, end, metered, client>>

NextLine ==
  /\ phase = "relay" /\ pending = <<>>
  /\ \E line \in Lines : Scan(line)
  /\ UNCHANGED <<sent, phase, end, metered, client>>

\* The upstream ended with text still held back.
NextTail ==
  /\ phase = "relay" /\ pending = <<>> /\ upstream # "open" /\ Holding
  /\ pending' = <<heldTail, Written("blank")>>
  /\ held' = NoText
  /\ UNCHANGED <<read, upstream, request, o, sawDone, chunks, roleSent,
                 skipBlank, sent, phase, end, metered, client>>

\* Mutant of NextEnds: a closed body without a finish reason is no end.
NextEndsFinished ==
  /\ phase = "relay" /\ pending = <<>> /\ upstream # "open" /\ ~Holding
  /\ CASE o.err # "none" -> endAs("provider_error", o)
       [] o.err = "none" /\ (sawDone \/ o.finish) -> endAs("complete", o)
       [] OTHER -> FALSE
  /\ phase' = "ending"
  /\ UNCHANGED <<read, upstream, request, held, sawDone, chunks, roleSent,
                 skipBlank, pending, sent, client>>

\* Mutant of NextEnds: a client that left ends the relay.
NextEndsWithClient ==
  /\ phase = "relay" /\ pending = <<>> /\ (upstream # "open" \/ ~client)
  /\ endAs("complete", o)
  /\ phase' = "ending"
  /\ UNCHANGED <<read, upstream, request, held, sawDone, chunks, roleSent,
                 skipBlank, pending, sent, client>>

NextEnds ==
  /\ phase = "relay" /\ pending = <<>> /\ upstream # "open" /\ ~Holding
  /\ \/ o.err # "none" /\ endAs("provider_error", o)
     \/ /\ o.err = "none" /\ upstream = "eof" /\ (sawDone \/ o.finish)
        /\ endAs("complete", o)
     \/ /\ o.err = "none" /\ upstream = "eof" /\ ~sawDone /\ ~o.finish
        /\ endAs("eof_without_finish", o)
     \/ /\ o.err = "none" /\ upstream = "broken" /\ o.finish
        /\ endAs("read_error_after_finish", o)
     \/ /\ o.err = "none" /\ upstream = "broken" /\ ~o.finish
        /\ endAs("read_error", [o EXCEPT !.err = "read"])
  /\ phase' = "ending"
  /\ UNCHANGED <<read, upstream, request, held, sawDone, chunks, roleSent,
                 skipBlank, pending, sent, client>>

Complete == sawDone \/ o.finish

\* Close: the end of a stream nobody read to its end is a cancellation, unless
\* the response had already finished.
Close ==
  \/ end # "none" /\ UNCHANGED <<o, end, metered>>
  \/ /\ end = "none"
     /\ endAs("closed_before_eof",
              [o EXCEPT !.err = IF ~o.finish /\ o.err = "none"
                                THEN "canceled" ELSE o.err])

-----------------------------------------------------------------------------
(* The handler's relay.                                                    *)

OpenWriter ==
  /\ phase = "opened"
  /\ phase' = "relay"
  /\ UNCHANGED <<read, upstream, request, observed, pending, sent, end,
                 metered, client>>

\* The response cannot be flushed: an error goes out and the stream is closed.
WriterUnavailable ==
  /\ phase = "opened"
  /\ Close
  /\ phase' = "closed"
  /\ UNCHANGED <<read, upstream, request, held, sawDone, chunks, roleSent,
                 skipBlank, pending, sent, client>>

\* The keep-alive goroutine fills a silence.
KeepAlive ==
  /\ phase = "relay"
  /\ Len(SelectSeq(sent, LAMBDA w : w.kind = "comment" /\ w.src = 0)) < MaxComments
  /\ sent' = sent \o <<Written("comment"), Written("blank")>>
  /\ UNCHANGED <<read, upstream, request, observed, pending, phase, end,
                 metered, client>>

\* Mutant of terminator: [DONE] whether or not the provider sent it.
terminatorAlways ==
  CASE Complete -> <<Written("done"), Written("blank")>>
    [] ~Complete /\ upstream = "broken" /\ client ->
         <<Written("interrupted"), Written("blank")>>
    [] OTHER -> <<>>

\* What relay writes after the last line, before the deferred Close.
terminator ==
  IF Complete /\ ~sawDone THEN <<Written("done"), Written("blank")>>
  ELSE IF upstream = "broken" /\ client THEN <<Written("interrupted"), Written("blank")>>
  ELSE <<>>

RelayEnds ==
  /\ phase = "ending"
  /\ sent' = sent \o terminator
  /\ Close
  /\ phase' = "closed"
  /\ UNCHANGED <<read, upstream, request, held, sawDone, chunks, roleSent,
                 skipBlank, pending, client>>

-----------------------------------------------------------------------------
(* The provider and the client.                                            *)

\* The body ends, or reading it fails: a reset, the idle timeout, or the lost
\* credit hold that cancels the request.  A scanner still yields the partial
\* last line before it reports the error.
UpstreamEnds ==
  /\ upstream = "open" /\ phase \in {"prime", "opened", "relay"}
  /\ upstream' \in {"eof", "broken"}
  /\ UNCHANGED <<read, request, observed, pending, sent, phase, end, metered,
                 client>>

\* Writes to a client that left fail and are ignored: the lines count as
\* written.
ClientLeaves ==
  /\ client /\ phase \notin {"failed", "closed"}
  /\ client' = FALSE
  /\ UNCHANGED <<read, upstream, request, observed, pending, sent, phase, end,
                 metered>>

-----------------------------------------------------------------------------
Init ==
  /\ read = <<>>
  /\ upstream = "open"
  /\ hideUsage \in BOOLEAN
  /\ masking \in BOOLEAN
  /\ held = NoText
  /\ o = [finish |-> FALSE, usage |-> 0, err |-> "none"]
  /\ sawDone = FALSE
  /\ chunks = 0
  /\ roleSent = {}
  /\ skipBlank = FALSE
  /\ pending = <<>>
  /\ sent = <<>>
  /\ phase = "prime"
  /\ end = "none"
  /\ metered = 0
  /\ client = TRUE

Relay ==
  \/ PrimeLine \/ PrimeEnds \/ OpenWriter \/ WriterUnavailable
  \/ SendPending \/ NextLine \/ NextTail \/ NextEnds \/ RelayEnds

Next == Relay \/ KeepAlive \/ UpstreamEnds \/ ClientLeaves

\* The relay goroutine runs, and the upstream ends: a provider that stops
\* sending is ended by the idle timeout.
Fairness == WF_vars(Relay) /\ WF_vars(UpstreamEnds)

Spec == Init /\ [][Next]_vars
FairSpec == Spec /\ Fairness

-----------------------------------------------------------------------------
(* Properties.                                                             *)

Delivered == sent \o pending

\* The usage-only events a client did not ask for, with the blank line that
\* ended each: the only upstream lines it may miss.
Hidden(i) ==
  /\ hideUsage
  /\ \/ usageOnly(read[i])
     \/ IsBlank(read[i]) /\ i > 1 /\ usageOnly(read[i - 1])

\* Every other line the provider sent is relayed once, in order, whether it
\* was read by prime or by Next, and whatever the gateway adds between them.
RelayFaithful ==
  LET lines == Delivered
  IN /\ \A i, j \in DOMAIN lines :
          i < j /\ lines[i].src # 0 /\ lines[j].src # 0 => lines[i].src < lines[j].src
     /\ {lines[i].src : i \in DOMAIN lines} \ {0} = {n \in DOMAIN read : ~Hidden(n)}

\* Texts of pieces in ascending order, within each text and from one to the next.
Ascending(texts) ==
  \A i, j \in DOMAIN texts : \A p \in DOMAIN texts[i], q \in DOMAIN texts[j] :
    i < j \/ (i = j /\ p < q) => texts[i][p] < texts[j][q]

\* Text that was masked upstream reaches the client whole and in order, for
\* each choice: what was delivered and then what is held back are the text read,
\* each piece once, and nothing stays held back past the provider's [DONE] or
\* the stream's end.
TextInOrder ==
  /\ \A c \in Indexes :
       LET lines == Delivered
           texts == Append([i \in DOMAIN lines |-> lines[i].text[c]], held[c])
       IN /\ Ascending(texts)
          /\ UNION {Range(texts[i]) : i \in DOMAIN texts}
               = {n \in DOMAIN read : read[n].text /\ read[n].choice = c}
  /\ read # <<>> /\ Last(read).kind = "done" => ~Holding
  /\ phase \in {"ending", "closed"} /\ end # "closed_before_eof" =>
       ~Holding /\ pending = <<>>

\* The relay reads the upstream to its end, whether or not the client is still
\* there, and meters the last usage the provider reported: also one the client
\* is not shown, or one that arrived before the first output.
ReadToTheEnd ==
  phase = "closed" /\ end # "closed_before_eof" =>
    /\ upstream # "open"
    /\ \A i \in DOMAIN read : read[i].usage => i <= o.usage
    /\ o.usage # 0 => read[o.usage].usage

\* Lines that carry data, and so must not run into one another.
DataAt(s, i) == s[i].kind \in {"chunk", "malformed", "done", "interrupted"}

\* A blank line separates any two data lines: each is an event of its own.
Framed(s) ==
  \A i, j \in DOMAIN s :
    i < j /\ DataAt(s, i) /\ DataAt(s, j) =>
      \E k \in i + 1 .. j - 1 : s[k].kind = "blank"

\* The stream's events were separated, the last one included.
Whole(s) == Framed(s) /\ (s = <<>> \/ IsBlank(Last(s)))

\* A stream whose events were separated, the last one included, stays so:
\* hiding usage, adding held text, keep-alives or a terminator never joins two
\* events into one the client cannot parse.
FramingKept ==
  Whole(read) => Framed(sent)

Dones(s) == {i \in DOMAIN s : s[i].kind = "done"}

\* No data comes after i.
LastData(s, i) == \A j \in i + 1 .. Len(s) : ~DataAt(s, j)

\* The provider, if it sent [DONE], sent nothing after it.
DoneIsLast(s) == Dones(s) = {} \/ \E d \in Dones(s) : LastData(s, d)

\* A response the provider finished ends in [DONE] for the client, so that every
\* client sees an end: the provider's own, or one that the gateway adds when the
\* provider sent none.  No data follows it, save the stream_interrupted event of
\* a body that broke after the provider's [DONE]; and it is an event of its own,
\* unless the body stopped inside one.
EndMarked ==
  phase = "closed" /\ end # "closed_before_eof" /\ Complete /\ DoneIsLast(read) =>
    \E i \in Dones(sent) :
      /\ sent[i].src = 0 <=> Dones(read) = {}
      /\ \A j \in i + 1 .. Len(sent) :
           DataAt(sent, j) =>
             sent[j].kind = "interrupted" /\ upstream = "broken" /\ Dones(read) # {}
      /\ Whole(read) =>
           \A h \in 1 .. i - 1 :
             DataAt(sent, h) => \E k \in h + 1 .. i - 1 : sent[k].kind = "blank"

\* A client is told that its stream was interrupted only when the response is
\* metered as failed: a response charged as complete ended cleanly for it too.
InterruptedMeansFailed ==
  phase = "closed" /\ (\E i \in DOMAIN sent : sent[i].kind = "interrupted") =>
    o.err # "none"

\* The [DONE] the gateway adds is an event of its own, so the client sees it.
EndSeen ==
  \A i \in DOMAIN sent :
    sent[i].kind = "done" /\ sent[i].src = 0 =>
      i = 1 \/ sent[i - 1].kind \in {"blank", "comment"}

\* Once the provider has produced output the response is eventually metered,
\* once and for good: a client that left, a silent provider, a broken read or
\* an end that Next and Close both see changes nothing.  A stream that failed
\* before output is never metered: Proxy settles that request itself.
AlwaysMetered ==
  /\ phase = "opened" ~> [](metered = 1)
  /\ [](phase = "failed" => metered = 0)

=============================================================================
