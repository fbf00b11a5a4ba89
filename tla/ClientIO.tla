------------------------------ MODULE ClientIO ------------------------------
(***************************************************************************)
(* A request's body on its way in and its answer on the way out: the       *)
(* per-read and per-write deadlines of the middleware, and the checks and  *)
(* the frame validator of the confidential endpoint.                       *)
(*                                                                         *)
(* A byte of the body is its position.  What a byte is matters only in a   *)
(* frame's length prefix; the length is chosen when the prefix is whole.   *)
(* A read that has data, or whose deadline passed, returns before time     *)
(* goes on; the handler may take time between reads.                       *)
(***************************************************************************)
EXTENDS Integers

CONSTANTS
  MaxFrame,    \* confidentialMaxEHBPFrame
  MaxBody,     \* confidentialMaxEHBPBody
  Limit,       \* what a plain handler reads at most
  Lengths,     \* the Content-Length values considered, Unknown included
  Sizes,       \* the frame lengths a prefix may declare
  Buffers,     \* the sizes of buffer the consumer reads with
  Window,      \* CLIENT_IO_TIMEOUT
  Burst,       \* bytes the connection holds for the gateway
  Chunks       \* chunks of maxTransferChunk in one write

Unknown == -1
Off == -1
PrefixLen == 4

ASSUME IOAssumption ==
  /\ {MaxFrame, MaxBody, Limit, Burst} \subseteq Nat
  /\ Window \in Nat \ {0}
  /\ Lengths \subseteq Nat \cup {Unknown}
  /\ Sizes \subseteq Nat
  /\ Buffers \subseteq Nat \ {0}
  /\ Chunks \subseteq Nat \ {0}

VARIABLES
  request,   \* encrypted; key, the EHBP header: none, one, bad; length
  phase,     \* received, upload, inference, answer, over
  sent,      \* bytes of the body the client has sent
  stream,    \* the body: open, eof (complete) or lost
  quiet,     \* how long the client has neither sent nor taken anything
  taken,     \* bytes read from the connection
  reader,    \* the read in progress: none, plain, prefix or frame
  want,      \* bytes it still wants
  timer,     \* time left to the read deadline, or Off
  wireSize, prefixOffset, frameRemaining,   \* of validatedEHBPBody
  out,       \* bytes handed to the consumer
  torn,      \* history: a byte was handed out of its place
  result,    \* how the upload ended: none, eof, limit, invalid, unexpected,
             \* lost, timeout
  canceled,  \* the request's context was canceled
  left,      \* chunks of the current write still to go
  wtimer,    \* time left to the write deadline, or Off
  cut        \* the answer was cut off by the write deadline

client == <<sent, stream, quiet>>
conn == <<taken, reader, want, timer>>
validator == <<wireSize, prefixOffset, frameRemaining>>
consumed == <<out, torn, result>>
answer == <<left, wtimer, cut, canceled>>
vars == <<request, phase, client, conn, validator, consumed, answer>>

-----------------------------------------------------------------------------

Least(a, b) == IF a <= b THEN a ELSE b
Pending == sent - taken

\* The n bytes at position a are handed to the consumer.
hand(a, n) ==
  /\ out' = out + n
  /\ torn' = (torn \/ (n > 0 /\ a # out))

\* The confidential endpoint wants a body, one canonical key header and a
\* length, where it is known, within the limit.
accepts ==
  request.encrypted =>
    request.length # 0 /\ request.key = "one" /\ request.length <= MaxBody

\* The middleware clears the deadlines the connection's last request left.  A
\* plain request without a token is answered at once.
Handle ==
  /\ phase = "received"
  /\ \/ accepts /\ phase' = "upload"
     \/ (request.encrypted => ~accepts) /\ phase' = "answer"
  /\ timer' = Off /\ wtimer' = Off
  /\ UNCHANGED <<request, client, taken, reader, want, validator, consumed, left,
                 cut, canceled>>

-----------------------------------------------------------------------------
(* A read of the connection, under its own deadline.                       *)

\* Mutant of deadline: a read waits for as long as the client likes.
deadlineNone == Off

\* Each read gets a deadline of its own.
deadline == Window

\* Mutant of disarm: only the next read changes the deadline.
disarmNever(err) == timer

\* The deadline goes with the end of the body, or with the connection.
disarm(err) == IF err = "none" THEN timer ELSE Off

\* What the read in progress may return: bytes, and an error or none.
Returns ==
  [n : 1 .. Least(want, Pending), err : {"none"}]
  \cup {r \in [n : {Pending}, err : {"eof", "lost", "timeout"}] :
          \/ r.err = "eof" /\ stream = "eof" /\ Pending <= want
          \/ r.err = "lost" /\ stream = "lost" /\ Pending = 0
          \/ r.err = "timeout" /\ stream = "open" /\ Pending = 0 /\ timer = 0}

Consuming == phase = "upload" /\ result = "none" /\ reader = "none"

\* The consumer reads with a buffer of b bytes.  Plain handlers read the body
\* itself; validatedEHBPBody reads the rest of a frame, or the next prefix.
StartRead(b) ==
  /\ Consuming /\ prefixOffset = PrefixLen
  /\ timer' = deadline
  /\ \/ /\ ~request.encrypted /\ out < Limit
        /\ reader' = "plain" /\ want' = Least(b, Limit - out)
     \/ /\ request.encrypted /\ frameRemaining > 0
        /\ reader' = "frame" /\ want' = Least(b, frameRemaining)
     \/ /\ request.encrypted /\ frameRemaining = 0
        /\ reader' = "prefix" /\ want' = PrefixLen
  /\ UNCHANGED <<request, phase, client, taken, validator, consumed, answer>>

\* Mutant of frameEnd: the end of the body ends any frame.
frameEndAnywhere(r) == r.err

\* A body that ends inside a frame is truncated, whatever the connection says.
frameEnd(r) ==
  IF r.err = "eof" /\ frameRemaining > r.n THEN "unexpected" ELSE r.err

\* Bytes of a plain body or of a frame go straight to the consumer.
DataReturns ==
  /\ reader \in {"plain", "frame"}
  /\ \E r \in Returns :
       /\ taken' = taken + r.n
       /\ hand(taken, r.n)
       /\ frameRemaining' = IF reader = "frame" THEN frameRemaining - r.n ELSE 0
       /\ result' = frameEnd(r)
       /\ timer' = disarm(r.err)
  /\ reader' = "none" /\ want' = 0
  /\ UNCHANGED <<request, phase, client, wireSize, prefixOffset, answer>>

-----------------------------------------------------------------------------
(* validatedEHBPBody: the prefix of a frame.                               *)

\* Mutant of HandPrefix: a short buffer gets the prefix from its start again.
HandPrefixAgain(b) ==
  LET n == Least(b, PrefixLen - prefixOffset)
  IN /\ Consuming /\ prefixOffset < PrefixLen
     /\ hand(taken - PrefixLen, n)
     /\ prefixOffset' = prefixOffset + n
     /\ UNCHANGED <<request, phase, client, conn, wireSize, frameRemaining,
                    result, answer>>

\* The rest of a prefix that did not fit the consumer's buffer.
HandPrefix(b) ==
  LET n == Least(b, PrefixLen - prefixOffset)
  IN /\ Consuming /\ prefixOffset < PrefixLen
     /\ hand(taken - PrefixLen + prefixOffset, n)
     /\ prefixOffset' = prefixOffset + n
     /\ UNCHANGED <<request, phase, client, conn, wireSize, frameRemaining,
                    result, answer>>

\* Mutant of fits: each frame is held against the whole limit.
fitsAlone(size) == size # 0 /\ size <= MaxFrame /\ PrefixLen + size <= MaxBody

\* A frame that is neither empty nor too large, within what the body has left.
fits(size) ==
  size # 0 /\ size <= MaxFrame /\ PrefixLen + size <= MaxBody - wireSize

\* The prefix is whole: its frame is counted before a byte of it is handed on.
Declare(size, b) ==
  \/ /\ fits(size)
     /\ wireSize' = wireSize + PrefixLen + size
     /\ frameRemaining' = size
     /\ prefixOffset' = Least(b, PrefixLen)
     /\ hand(taken' - PrefixLen, Least(b, PrefixLen))
     /\ UNCHANGED result
  \/ ~fits(size) /\ result' = "invalid" /\ UNCHANGED <<validator, out, torn>>

\* io.ReadFull reads on until the prefix is whole, drops an error that comes
\* with its last byte, and reports an end inside the prefix as unexpected.
PrefixReturns ==
  /\ reader = "prefix"
  /\ \E r \in Returns :
       /\ taken' = taken + r.n
       /\ want' = want - r.n
       /\ \/ /\ r.n = want
             /\ \E size \in Sizes, b \in Buffers : Declare(size, b)
             /\ reader' = "none" /\ timer' = disarm(r.err)
          \/ /\ r.n < want /\ r.err = "none"
             /\ timer' = deadline
             /\ UNCHANGED <<reader, validator, consumed>>
          \/ /\ r.n < want /\ r.err # "none"
             /\ result' = IF r.err = "eof" /\ want - r.n < PrefixLen
                          THEN "unexpected" ELSE r.err
             /\ reader' = "none" /\ timer' = disarm(r.err)
             /\ UNCHANGED <<validator, out, torn>>
  /\ UNCHANGED <<request, phase, client, answer>>

-----------------------------------------------------------------------------
(* The handler.                                                            *)

\* The handler stops at its limit, which the confidential endpoint counts in
\* plain text: it may stop anywhere in the frames.
ReachLimit ==
  /\ Consuming /\ (request.encrypted \/ out >= Limit)
  /\ result' = "limit"
  /\ UNCHANGED <<request, phase, client, conn, validator, out, torn, answer>>

\* A whole body may be accepted or rejected; a plain one is also accepted when
\* it was cut at the limit.
UploadEnds ==
  /\ phase = "upload" /\ result # "none"
  /\ \/ phase' = "answer"
     \/ /\ result = "eof" \/ (result = "limit" /\ ~request.encrypted)
        /\ phase' = "inference"
  /\ UNCHANGED <<request, client, conn, validator, consumed, answer>>

InferenceEnds ==
  /\ phase = "inference"
  /\ phase' = "answer"
  /\ UNCHANGED <<request, client, conn, validator, consumed, answer>>

\* Once a body is read to its end the server watches the connection.  That
\* read fails at a deadline or with the connection; it cannot tell the two
\* apart and cancels the request.
WatchFails ==
  /\ phase = "inference" /\ result = "eof" /\ ~canceled
  /\ timer = 0 \/ stream = "lost"
  /\ canceled' = TRUE
  /\ UNCHANGED <<request, phase, client, conn, validator, consumed, left,
                 wtimer, cut>>

\* A write of k chunks.
Write(k) ==
  /\ phase = "answer" /\ left = 0
  /\ left' = k /\ wtimer' = Window
  /\ quiet' = 0
  /\ UNCHANGED <<request, phase, sent, stream, conn, validator, consumed, cut,
                 canceled>>

\* Each chunk of a write gets a deadline of its own.
ChunkWritten ==
  /\ left > 0 /\ stream # "lost"
  /\ left' = left - 1 /\ wtimer' = Window
  /\ quiet' = 0
  /\ UNCHANGED <<request, phase, sent, stream, conn, validator, consumed, cut,
                 canceled>>

\* A write that passed its deadline, or has nobody to go to, is the last one the
\* client gets.
WriteFails ==
  /\ left > 0 /\ (wtimer = 0 \/ stream = "lost")
  /\ left' = 0
  /\ cut' = (stream # "lost")
  /\ phase' = "over"
  /\ UNCHANGED <<request, client, conn, validator, consumed, wtimer, canceled>>

AnswerEnds ==
  /\ phase = "answer" /\ left = 0
  /\ phase' = "over"
  /\ UNCHANGED <<request, client, conn, validator, consumed, answer>>

-----------------------------------------------------------------------------
(* The client and the clock.                                               *)

\* What the client sends once the upload ended reaches nobody.
ClientSends ==
  /\ phase \in {"received", "upload"} /\ result = "none"
  /\ stream = "open" /\ Pending < Burst
  /\ request.length # Unknown => sent < request.length
  /\ sent' = sent + 1 /\ quiet' = 0
  /\ UNCHANGED <<request, phase, stream, conn, validator, consumed, answer>>

\* HTTP marks the end of a body: a connection that just ends is lost.
ClientEnds ==
  /\ phase # "over" /\ stream # "lost"
  /\ \/ stream' = "lost"
     \/ /\ stream = "open"
        /\ request.length # Unknown => sent = request.length
        /\ stream' = "eof"
  /\ UNCHANGED <<request, phase, sent, quiet, conn, validator, consumed, answer>>

Down(t) == IF t > 0 THEN t - 1 ELSE t

Tick ==
  /\ phase # "over"
  /\ reader # "none" => Returns = {}
  /\ left > 0 => wtimer > 0 /\ stream # "lost"
  /\ timer' = Down(timer)
  /\ wtimer' = Down(wtimer)
  /\ quiet' = Least(quiet + 1, Window)
  /\ UNCHANGED <<request, phase, sent, stream, taken, reader, want, validator,
                 consumed, left, cut, canceled>>

-----------------------------------------------------------------------------
Requests ==
  {r \in [encrypted : BOOLEAN, key : {"none", "one", "bad"}, length : Lengths] :
     r.encrypted \/ r.key = "none"}

Init ==
  /\ request \in Requests /\ phase = "received"
  /\ sent = 0 /\ stream = "open" /\ quiet = 0
  /\ taken = 0 /\ reader = "none" /\ want = 0 /\ timer \in {Off, Window}
  /\ wireSize = 0 /\ prefixOffset = PrefixLen /\ frameRemaining = 0
  /\ out = 0 /\ torn = FALSE /\ result = "none"
  /\ left = 0 /\ wtimer \in {Off, Window} /\ cut = FALSE /\ canceled = FALSE

Read ==
  \/ \E b \in Buffers : StartRead(b) \/ HandPrefix(b)
  \/ DataReturns \/ PrefixReturns

Gateway ==
  \/ Handle \/ Read \/ ReachLimit \/ UploadEnds \/ InferenceEnds
  \/ \E k \in Chunks : Write(k)
  \/ WriteFails \/ AnswerEnds

Client == ClientSends \/ ClientEnds \/ ChunkWritten

Next == Gateway \/ WatchFails \/ Client \/ Tick

Spec == Init /\ [][Next]_vars

\* The handler runs and time passes; nothing is asked of the client.
FairSpec == Spec /\ WF_vars(Gateway) /\ WF_vars(Tick)

-----------------------------------------------------------------------------
(* Properties.                                                             *)

\* Bytes of a prefix that were read and not handed on yet.
Kept ==
  PrefixLen - prefixOffset + (IF reader = "prefix" THEN PrefixLen - want ELSE 0)

\* The consumer gets the client's bytes, each once and in order, whatever the
\* sizes of its buffers and of what the connection returns: a prefix handed on
\* in pieces included.
BytesInOrder ==
  /\ ~torn
  /\ result \in {"none", "limit", "eof"} => out = taken - Kept

\* The consumer never sees a frame that was not counted, nor more than the
\* limit altogether; what is left of the limit never goes below zero.
BodyBounded ==
  request.encrypted =>
    /\ wireSize <= MaxBody
    /\ out + (PrefixLen - prefixOffset) + frameRemaining = wireSize
    /\ frameRemaining <= MaxFrame

\* A body that ends cleanly is all the client sent, an encrypted one in whole
\* frames: a connection that was lost, or an end inside a frame or a prefix,
\* is never taken for the end.
CleanEndIsWhole ==
  result = "eof" =>
    /\ taken = sent /\ out = sent
    /\ frameRemaining = 0 /\ prefixOffset = PrefixLen

\* A client is given up on only after it sent nothing, or took nothing, for a
\* whole window, and its request is canceled only when it is gone: no slow
\* upload, busy handler, long inference or large write is cut off by a deadline
\* that an earlier read or write left behind.
CutOnlyWhenSilent ==
  /\ (phase = "upload" /\ result = "timeout") \/ cut => quiet >= Window
  /\ canceled => stream = "lost"

\* A stalled client holds a handler for a bounded time only: the upload ends,
\* and a started write ends.
StalledClientEnds ==
  /\ phase = "upload" ~> phase # "upload"
  /\ left > 0 ~> left = 0

=============================================================================
