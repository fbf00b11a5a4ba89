--------------------------- MODULE ClientIOProofs ---------------------------
(***************************************************************************)
(* Theorems about ClientIO, for every limit, window, set of frame lengths  *)
(* and set of buffer sizes.                                                *)
(***************************************************************************)
EXTENDS ClientIO, TLAPS

-----------------------------------------------------------------------------
(* The inductive invariant.                                                *)

Phases == {"received", "upload", "inference", "answer", "over"}
Readers == {"none", "plain", "prefix", "frame"}
Results == {"none", "eof", "limit", "invalid", "unexpected", "lost", "timeout"}

TypeOK ==
  /\ request \in Requests
  /\ phase \in Phases
  /\ stream \in {"open", "eof", "lost"}
  /\ reader \in Readers
  /\ result \in Results
  /\ sent \in Nat /\ quiet \in Nat /\ taken \in Nat /\ want \in Nat
  /\ wireSize \in Nat /\ frameRemaining \in Nat /\ out \in Nat /\ left \in Nat
  /\ prefixOffset \in 0 .. PrefixLen
  /\ timer \in Nat \cup {Off} /\ wtimer \in Nat \cup {Off}

\* A read is in progress only while the upload is open, and wants what it was
\* started for: the rest of a prefix, or no more than is left of its frame.
Reading ==
  /\ taken <= sent
  /\ phase = "received" => result = "none"
  /\ reader # "none" =>
       phase = "upload" /\ result = "none" /\ prefixOffset = PrefixLen
  /\ reader = "plain" => ~request.encrypted
  /\ reader = "prefix" =>
       request.encrypted /\ frameRemaining = 0 /\ want \in 1 .. PrefixLen
  /\ reader = "frame" => request.encrypted /\ want <= frameRemaining
  /\ ~request.encrypted => frameRemaining = 0 /\ prefixOffset = PrefixLen

\* While a read waits for the client, its deadline and the client's silence add
\* up to a window; so do a write's.  No deadline is left with a whole body.
Clocks ==
  /\ reader # "none" /\ taken = sent => timer \in Nat /\ quiet + timer >= Window
  /\ left > 0 => phase = "answer" /\ wtimer \in Nat /\ quiet + wtimer >= Window
  /\ result = "eof" => timer = Off
  /\ cut => phase = "over"

IOInv ==
  /\ TypeOK /\ Reading /\ Clocks
  /\ BytesInOrder /\ BodyBounded /\ CleanEndIsWhole /\ CutOnlyWhenSilent

-----------------------------------------------------------------------------
(* Facts about the operators.                                              *)

\* The smaller of two numbers is one of them.
LEMMA LeastFact ==
  ASSUME NEW a \in Nat, NEW b \in Nat
  PROVE  Least(a, b) \in Nat /\ Least(a, b) <= a /\ Least(a, b) <= b
         /\ (Least(a, b) = a \/ Least(a, b) = b)
  BY DEF Least

\* A read returns no more than it wants, and no more than is there; with an
\* end it returns all that is there, with a timeout nothing.
LEMMA ReturnsFact ==
  ASSUME TypeOK, Reading, NEW r \in Returns
  PROVE  /\ r.n \in Nat /\ r.n <= want /\ r.n <= sent - taken
         /\ r.err \in {"none", "eof", "lost", "timeout"}
         /\ r.err = "none" => r.n > 0
         /\ r.err = "eof" => r.n = sent - taken
         /\ r.err = "timeout" => r.n = 0 /\ taken = sent /\ timer = 0
<1>1. sent - taken \in Nat /\ want \in Nat
  BY DEF TypeOK, Reading
<1>2. CASE r \in [n : 1 .. Least(want, Pending), err : {"none"}]
  <2>1. Least(want, Pending) \in Nat /\ Least(want, Pending) <= want
        /\ Least(want, Pending) <= sent - taken
    BY <1>1, LeastFact DEF Pending
  <2>2. r.n \in 1 .. Least(want, Pending) /\ r.err = "none"
    BY <1>2
  <2> QED
    BY <1>1, <2>1, <2>2
<1>3. CASE r \in {s \in [n : {Pending}, err : {"eof", "lost", "timeout"}] :
          \/ s.err = "eof" /\ stream = "eof" /\ Pending <= want
          \/ s.err = "lost" /\ stream = "lost" /\ Pending = 0
          \/ s.err = "timeout" /\ stream = "open" /\ Pending = 0 /\ timer = 0}
  BY <1>1, <1>3 DEF Pending, TypeOK
<1> QED
  BY <1>2, <1>3 DEF Returns

\* Bytes that are handed on from where the consumer is tear nothing.
LEMMA HandFact ==
  ASSUME NEW a, NEW n, hand(a, n), a = out, ~torn
  PROVE  out' = out + n /\ ~torn'
  BY Zenon DEF hand

-----------------------------------------------------------------------------
(* Every step preserves the invariant.                                     *)

\* A request that just arrived satisfies the invariant.
LEMMA InitStep == Init => IOInv
  BY IOAssumption DEF Init, IOInv, TypeOK, Reading, Clocks, BytesInOrder, Kept,
     BodyBounded, CleanEndIsWhole, CutOnlyWhenSilent, Phases, Readers, Results,
     PrefixLen, Off

\* The middleware and the handler's first checks: the stale deadlines go.
LEMMA HandleStep == ASSUME IOInv, Handle PROVE IOInv'
<1> USE DEF Handle, IOInv, client, validator, consumed
<1>1. TypeOK'
  BY DEF TypeOK, Phases
<1>2. Reading'
  BY DEF Reading
<1>3. Clocks'
  BY DEF Clocks, Reading
<1>4. BytesInOrder'
  BY DEF BytesInOrder, Kept
<1>5. BodyBounded'
  BY DEF BodyBounded
<1>6. CleanEndIsWhole'
  BY DEF CleanEndIsWhole
<1>7. CutOnlyWhenSilent'
  BY DEF CutOnlyWhenSilent, Reading
<1> QED
  BY <1>1, <1>2, <1>3, <1>4, <1>5, <1>6, <1>7

\* A handler that stops at its limit has read in order up to there.
LEMMA ReachLimitStep == ASSUME IOInv, ReachLimit PROVE IOInv'
<1> USE DEF ReachLimit, IOInv, client, conn, validator, answer
<1>1. TypeOK'
  BY DEF TypeOK, Results
<1>2. Reading'
  BY DEF Reading, Consuming
<1>3. Clocks'
  BY DEF Clocks
<1>4. BytesInOrder'
  BY DEF BytesInOrder, Kept, Consuming
<1>5. BodyBounded'
  BY DEF BodyBounded
<1>6. CleanEndIsWhole'
  BY DEF CleanEndIsWhole
<1>7. CutOnlyWhenSilent'
  BY DEF CutOnlyWhenSilent
<1> QED
  BY <1>1, <1>2, <1>3, <1>4, <1>5, <1>6, <1>7

\* The end of the upload leaves no read, so no deadline that counts.
LEMMA UploadEndsStep == ASSUME IOInv, UploadEnds PROVE IOInv'
<1> USE DEF UploadEnds, IOInv, client, conn, validator, consumed, answer
<1>1. TypeOK'
  BY DEF TypeOK, Phases
<1>2. Reading'
  BY DEF Reading
<1>3. Clocks'
  BY DEF Clocks
<1>4. BytesInOrder'
  BY DEF BytesInOrder, Kept
<1>5. BodyBounded'
  BY DEF BodyBounded
<1>6. CleanEndIsWhole'
  BY DEF CleanEndIsWhole
<1>7. CutOnlyWhenSilent'
  BY DEF CutOnlyWhenSilent
<1> QED
  BY <1>1, <1>2, <1>3, <1>4, <1>5, <1>6, <1>7

\* The end of the inference changes nothing of the body.
LEMMA InferenceEndsStep == ASSUME IOInv, InferenceEnds PROVE IOInv'
<1> USE DEF InferenceEnds, IOInv, client, conn, validator, consumed, answer
<1>1. TypeOK'
  BY DEF TypeOK, Phases
<1>2. Reading'
  BY DEF Reading
<1>3. Clocks'
  BY DEF Clocks
<1>4. BytesInOrder'
  BY DEF BytesInOrder, Kept
<1>5. BodyBounded'
  BY DEF BodyBounded
<1>6. CleanEndIsWhole'
  BY DEF CleanEndIsWhole
<1>7. CutOnlyWhenSilent'
  BY DEF CutOnlyWhenSilent
<1> QED
  BY <1>1, <1>2, <1>3, <1>4, <1>5, <1>6, <1>7

\* With no deadline left by a whole body, only a lost client cancels.
LEMMA WatchFailsStep == ASSUME IOInv, WatchFails PROVE IOInv'
<1> USE DEF WatchFails, IOInv, client, conn, validator, consumed
<1>1. TypeOK'
  BY DEF TypeOK
<1>2. Reading'
  BY DEF Reading
<1>3. Clocks'
  BY DEF Clocks
<1>4. BytesInOrder'
  BY DEF BytesInOrder, Kept
<1>5. BodyBounded'
  BY DEF BodyBounded
<1>6. CleanEndIsWhole'
  BY DEF CleanEndIsWhole
<1>7. CutOnlyWhenSilent'
  BY DEF CutOnlyWhenSilent, Clocks, Off
<1> QED
  BY <1>1, <1>2, <1>3, <1>4, <1>5, <1>6, <1>7

\* The end of the answer changes nothing of the body.
LEMMA AnswerEndsStep == ASSUME IOInv, AnswerEnds PROVE IOInv'
<1> USE DEF AnswerEnds, IOInv, client, conn, validator, consumed, answer
<1>1. TypeOK'
  BY DEF TypeOK, Phases
<1>2. Reading'
  BY DEF Reading
<1>3. Clocks'
  BY DEF Clocks
<1>4. BytesInOrder'
  BY DEF BytesInOrder, Kept
<1>5. BodyBounded'
  BY DEF BodyBounded
<1>6. CleanEndIsWhole'
  BY DEF CleanEndIsWhole
<1>7. CutOnlyWhenSilent'
  BY DEF CutOnlyWhenSilent
<1> QED
  BY <1>1, <1>2, <1>3, <1>4, <1>5, <1>6, <1>7

\* A byte that arrives ends the client's silence.
LEMMA ClientSendsStep == ASSUME IOInv, ClientSends PROVE IOInv'
<1> USE DEF ClientSends, IOInv, conn, validator, consumed, answer
<1>1. TypeOK'
  BY DEF TypeOK
<1>2. Reading'
  BY DEF Reading, TypeOK
<1>3. Clocks'
  BY DEF Clocks, Reading, TypeOK
<1>4. BytesInOrder'
  BY DEF BytesInOrder, Kept
<1>5. BodyBounded'
  BY DEF BodyBounded
<1>6. CleanEndIsWhole'
  BY DEF CleanEndIsWhole
<1>7. CutOnlyWhenSilent'
  BY DEF CutOnlyWhenSilent, Clocks
<1> QED
  BY <1>1, <1>2, <1>3, <1>4, <1>5, <1>6, <1>7

\* The end of the client's stream changes no byte of it.
LEMMA ClientEndsStep == ASSUME IOInv, ClientEnds PROVE IOInv'
<1> USE DEF ClientEnds, IOInv, conn, validator, consumed, answer
<1>1. TypeOK'
  BY DEF TypeOK
<1>2. Reading'
  BY DEF Reading
<1>3. Clocks'
  BY DEF Clocks
<1>4. BytesInOrder'
  BY DEF BytesInOrder, Kept
<1>5. BodyBounded'
  BY DEF BodyBounded
<1>6. CleanEndIsWhole'
  BY DEF CleanEndIsWhole
<1>7. CutOnlyWhenSilent'
  BY DEF CutOnlyWhenSilent
<1> QED
  BY <1>1, <1>2, <1>3, <1>4, <1>5, <1>6, <1>7

\* A chunk that was taken ends the client's silence and restarts the clock.
LEMMA ChunkWrittenStep == ASSUME IOInv, ChunkWritten PROVE IOInv'
<1> USE IOAssumption DEF ChunkWritten, IOInv, conn, validator, consumed
<1>1. TypeOK'
  BY DEF TypeOK
<1>2. Reading'
  BY DEF Reading
<1>3. Clocks'
  BY DEF Clocks, Reading
<1>4. BytesInOrder'
  BY DEF BytesInOrder, Kept
<1>5. BodyBounded'
  BY DEF BodyBounded
<1>6. CleanEndIsWhole'
  BY DEF CleanEndIsWhole
<1>7. CutOnlyWhenSilent'
  BY DEF CutOnlyWhenSilent, Clocks
<1> QED
  BY <1>1, <1>2, <1>3, <1>4, <1>5, <1>6, <1>7

\* A write is cut off when its clock, hence a window of silence, ran out.
LEMMA WriteFailsStep == ASSUME IOInv, WriteFails PROVE IOInv'
<1> USE DEF IOInv
<1>1. /\ left > 0 /\ (wtimer = 0 \/ stream = "lost")
      /\ left' = 0 /\ phase' = "over"
      /\ UNCHANGED <<request, client, conn, validator, consumed, wtimer, canceled>>
  BY DEF WriteFails
<1>2. cut' => stream # "lost"
  BY Zenon DEF WriteFails
<1> USE DEF client, conn, validator, consumed
<1>3. TypeOK' /\ Reading'
  BY <1>1 DEF TypeOK, Reading, Clocks, Phases
<1>4. Clocks'
  BY <1>1 DEF Clocks, Reading
<1>5. BytesInOrder' /\ BodyBounded' /\ CleanEndIsWhole'
  BY <1>1 DEF BytesInOrder, Kept, BodyBounded, CleanEndIsWhole
<1>6. CutOnlyWhenSilent'
  BY <1>1, <1>2 DEF CutOnlyWhenSilent, Clocks, TypeOK, Off
<1> QED
  BY <1>3, <1>4, <1>5, <1>6

\* The clocks run down by as much as the client's silence grows.
LEMMA TickStep == ASSUME IOInv, Tick PROVE IOInv'
<1> USE IOAssumption DEF Tick, IOInv, validator, consumed
<1>1. TypeOK'
  BY DEF TypeOK, Least, Down
<1>2. Reading'
  BY DEF Reading
<1>3. Clocks'
  BY DEF Clocks, TypeOK, Off, Least, Down
<1>4. BytesInOrder'
  BY DEF BytesInOrder, Kept
<1>5. BodyBounded'
  BY DEF BodyBounded
<1>6. CleanEndIsWhole'
  BY DEF CleanEndIsWhole
<1>7. CutOnlyWhenSilent'
  BY DEF CutOnlyWhenSilent, TypeOK, Least
<1> QED
  BY <1>1, <1>2, <1>3, <1>4, <1>5, <1>6, <1>7

\* A read starts with a whole window, and wants what its reader may have.
LEMMA StartReadStep == ASSUME IOInv, NEW b \in Buffers, StartRead(b) PROVE IOInv'
<1> USE IOAssumption DEF StartRead, IOInv, client, validator, consumed, answer
<1>1. TypeOK'
  BY DEF TypeOK, Readers, Least, deadline
<1>2. Reading'
  BY DEF Reading, TypeOK, Consuming, PrefixLen, Least
<1>3. Clocks'
  BY DEF Clocks, TypeOK, Consuming, deadline
<1>4. BytesInOrder'
  BY DEF BytesInOrder, Kept, Consuming, PrefixLen
<1>5. BodyBounded'
  BY DEF BodyBounded
<1>6. CleanEndIsWhole'
  BY DEF CleanEndIsWhole
<1>7. CutOnlyWhenSilent'
  BY DEF CutOnlyWhenSilent
<1> QED
  BY <1>1, <1>2, <1>3, <1>4, <1>5, <1>6, <1>7

\* The rest of a prefix is handed on from where the last piece ended.
LEMMA HandPrefixStep == ASSUME IOInv, NEW b \in Buffers, HandPrefix(b) PROVE IOInv'
<1> DEFINE n == Least(b, PrefixLen - prefixOffset)
<1> USE DEF IOInv
<1>1. /\ Consuming /\ prefixOffset < PrefixLen
      /\ hand(taken - PrefixLen + prefixOffset, n)
      /\ prefixOffset' = prefixOffset + n
      /\ UNCHANGED <<request, phase, client, conn, wireSize, frameRemaining, result,
                     answer>>
  BY DEF HandPrefix
<1>2. n \in Nat /\ n <= PrefixLen - prefixOffset
  <2>1. PrefixLen - prefixOffset \in Nat /\ b \in Nat
    BY IOAssumption DEF TypeOK, PrefixLen
  <2> QED
    BY <2>1, LeastFact
<1>3. taken - PrefixLen + prefixOffset = out /\ ~torn
  BY <1>1 DEF BytesInOrder, Kept, Consuming, TypeOK, PrefixLen
<1>4. out' = out + n /\ ~torn'
  BY <1>1, <1>3, HandFact
<1> HIDE DEF n
<1> USE DEF client, conn, answer
<1>5. TypeOK'
  BY <1>1, <1>2, <1>4 DEF TypeOK, PrefixLen
<1>6. Reading' /\ Clocks'
  <2>1. request.encrypted
    BY <1>1 DEF Reading, PrefixLen
  <2>2. Reading'
    BY <1>1, <2>1 DEF Reading, Consuming
  <2>3. Clocks'
    BY <1>1 DEF Clocks, Consuming
  <2> QED
    BY <2>2, <2>3
<1>7. BytesInOrder'
  BY <1>1, <1>2, <1>3, <1>4 DEF BytesInOrder, Kept, Consuming, TypeOK, PrefixLen
<1>8. BodyBounded'
  BY <1>1, <1>2, <1>4 DEF BodyBounded, TypeOK, PrefixLen
<1>9. CleanEndIsWhole' /\ CutOnlyWhenSilent'
  BY <1>1 DEF CleanEndIsWhole, CutOnlyWhenSilent, Consuming
<1> QED
  BY <1>5, <1>6, <1>7, <1>8, <1>9

\* A write starts with a whole window.
LEMMA WriteStep == ASSUME IOInv, NEW k \in Chunks, Write(k) PROVE IOInv'
<1> USE IOAssumption DEF Write, IOInv, conn, validator, consumed
<1>1. TypeOK'
  BY DEF TypeOK
<1>2. Reading'
  BY DEF Reading
<1>3. Clocks'
  BY DEF Clocks, Reading
<1>4. BytesInOrder'
  BY DEF BytesInOrder, Kept
<1>5. BodyBounded'
  BY DEF BodyBounded
<1>6. CleanEndIsWhole'
  BY DEF CleanEndIsWhole
<1>7. CutOnlyWhenSilent'
  BY DEF CutOnlyWhenSilent, Clocks
<1> QED
  BY <1>1, <1>2, <1>3, <1>4, <1>5, <1>6, <1>7

\* What a read of a plain body or of a frame returns is handed on in place.
LEMMA DataReturnsStep == ASSUME IOInv, DataReturns PROVE IOInv'
<1> USE DEF IOInv
<1>1. PICK r \in Returns :
        /\ taken' = taken + r.n
        /\ hand(taken, r.n)
        /\ frameRemaining' = IF reader = "frame" THEN frameRemaining - r.n ELSE 0
        /\ result' = frameEnd(r)
        /\ timer' = disarm(r.err)
  BY DEF DataReturns
<1>2. /\ reader \in {"plain", "frame"} /\ reader' = "none" /\ want' = 0
      /\ UNCHANGED <<request, phase, client, wireSize, prefixOffset, answer>>
  BY DEF DataReturns
<1>3. /\ r.n \in Nat /\ r.n <= want /\ r.n <= sent - taken
      /\ r.err \in {"none", "eof", "lost", "timeout"}
      /\ r.err = "eof" => r.n = sent - taken
      /\ r.err = "timeout" => taken = sent /\ timer = 0
  BY ReturnsFact
<1>4. taken = out /\ ~torn /\ prefixOffset = PrefixLen /\ result = "none"
  BY <1>2 DEF BytesInOrder, Kept, Reading, TypeOK, PrefixLen
<1>5. out' = out + r.n /\ ~torn'
  BY <1>1, <1>4, HandFact
<1>6. frameRemaining' = frameRemaining - r.n \/ (~request.encrypted /\ frameRemaining' = 0)
  BY <1>1, <1>2 DEF Reading
<1>7. frameRemaining' \in Nat /\ (frameRemaining' = 0 \/ frameRemaining' = frameRemaining - r.n)
      /\ (frameRemaining > r.n \/ frameRemaining' = 0)
  BY <1>1, <1>2, <1>3 DEF Reading, TypeOK
<1>8. /\ result' \in Results
      /\ result' = "eof" => r.err = "eof" /\ frameRemaining' = 0
      /\ result' = "timeout" => r.err = "timeout"
  BY <1>1, <1>3, <1>7 DEF frameEnd, Results
<1>9. timer' \in Nat \cup {Off} /\ (result' = "eof" => timer' = Off)
  BY <1>1, <1>8 DEF disarm, TypeOK
<1> USE DEF client, answer
<1>10. TypeOK'
  BY <1>1, <1>2, <1>3, <1>5, <1>7, <1>8, <1>9 DEF TypeOK, Readers
<1>11. Reading'
  BY <1>1, <1>2, <1>3, <1>4, <1>6, <1>7 DEF Reading, TypeOK
<1>12. Clocks'
  BY <1>2, <1>9 DEF Clocks
<1>13. BytesInOrder'
  BY <1>1, <1>2, <1>3, <1>4, <1>5 DEF BytesInOrder, Kept, TypeOK, PrefixLen
<1>14. BodyBounded'
  <2>1. MaxFrame \in Nat
    BY IOAssumption
  <2>2. SUFFICES ASSUME request.encrypted
                 PROVE  /\ wireSize <= MaxBody
                        /\ out' + (PrefixLen - prefixOffset) + frameRemaining' = wireSize
                        /\ frameRemaining' <= MaxFrame
    BY <1>2 DEF BodyBounded
  <2>3. /\ wireSize <= MaxBody /\ frameRemaining <= MaxFrame
        /\ out + (PrefixLen - prefixOffset) + frameRemaining = wireSize
    BY <2>2 DEF BodyBounded
  <2>4. frameRemaining' = frameRemaining - r.n
    BY <1>6, <2>2
  <2> QED
    BY <1>3, <1>4, <1>5, <2>1, <2>3, <2>4 DEF TypeOK, PrefixLen
<1>15. CleanEndIsWhole'
  BY <1>1, <1>2, <1>3, <1>4, <1>5, <1>8 DEF CleanEndIsWhole, TypeOK
<1>16. CutOnlyWhenSilent'
  BY <1>2, <1>3, <1>8 DEF CutOnlyWhenSilent, Clocks, TypeOK
<1> QED
  BY <1>10, <1>11, <1>12, <1>13, <1>14, <1>15, <1>16

\* A whole prefix declares a frame that is counted, or ends the upload.
LEMMA DeclareStep ==
  ASSUME IOInv, reader = "prefix", NEW size \in Sizes, NEW b \in Buffers,
         taken' = taken + want, Declare(size, b)
  PROVE  /\ wireSize' \in Nat /\ frameRemaining' \in Nat /\ out' \in Nat
         /\ prefixOffset' \in 0 .. PrefixLen
         /\ result' \in {"none", "invalid"}
         /\ ~torn'
         /\ result' = "none" => out' = taken' - (PrefixLen - prefixOffset')
         /\ wireSize' <= MaxBody
         /\ out' + (PrefixLen - prefixOffset') + frameRemaining' = wireSize'
         /\ frameRemaining' <= MaxFrame
<1> DEFINE n == Least(b, PrefixLen)
<1> USE DEF IOInv
<1>1. /\ request.encrypted /\ frameRemaining = 0 /\ want \in 1 .. PrefixLen
      /\ result = "none" /\ prefixOffset = PrefixLen
  BY DEF Reading
<1>2. n \in Nat /\ n <= PrefixLen
  BY IOAssumption, LeastFact DEF PrefixLen
<1>3. out = taken' - PrefixLen /\ ~torn /\ taken' \in Nat
  BY <1>1 DEF BytesInOrder, Kept, TypeOK, PrefixLen
<1>4. out = wireSize /\ wireSize <= MaxBody
  BY <1>1 DEF BodyBounded, TypeOK, PrefixLen
<1>5. size \in Nat /\ MaxFrame \in Nat /\ MaxBody \in Nat
  BY IOAssumption
<1>6. CASE /\ fits(size)
           /\ wireSize' = wireSize + PrefixLen + size
           /\ frameRemaining' = size
           /\ prefixOffset' = n
           /\ hand(taken' - PrefixLen, n)
           /\ UNCHANGED result
  <2>1. out' = out + n /\ ~torn'
    BY <1>3, <1>6, HandFact
  <2>2. size <= MaxFrame /\ PrefixLen + size <= MaxBody - wireSize
    BY <1>6 DEF fits
  <2> HIDE DEF n
  <2> QED
    BY <1>1, <1>2, <1>3, <1>4, <1>5, <1>6, <2>1, <2>2 DEF TypeOK, PrefixLen
<1>7. CASE ~fits(size) /\ result' = "invalid" /\ UNCHANGED <<validator, out, torn>>
  BY <1>1, <1>3, <1>4, <1>5, <1>7 DEF validator, TypeOK, PrefixLen
<1> QED
  BY <1>6, <1>7 DEF Declare

\* A piece of a prefix, a whole one, or the end where a prefix should be.
LEMMA PrefixReturnsStep == ASSUME IOInv, PrefixReturns PROVE IOInv'
<1> USE DEF IOInv
<1>1. PICK r \in Returns :
        /\ taken' = taken + r.n
        /\ want' = want - r.n
        /\ \/ /\ r.n = want
              /\ \E size \in Sizes, b \in Buffers : Declare(size, b)
              /\ reader' = "none" /\ timer' = disarm(r.err)
           \/ /\ r.n < want /\ r.err = "none"
              /\ timer' = deadline
              /\ UNCHANGED <<reader, validator, consumed>>
           \/ /\ r.n < want /\ r.err # "none"
              /\ result' = IF r.err = "eof" /\ want - r.n < PrefixLen
                           THEN "unexpected" ELSE r.err
              /\ reader' = "none" /\ timer' = disarm(r.err)
              /\ UNCHANGED <<validator, out, torn>>
  BY DEF PrefixReturns
<1>2. reader = "prefix" /\ UNCHANGED <<request, phase, client, answer>>
  BY DEF PrefixReturns
<1>3. /\ r.n \in Nat /\ r.n <= want /\ r.n <= sent - taken
      /\ r.err \in {"none", "eof", "lost", "timeout"}
      /\ r.err = "none" => r.n > 0
      /\ r.err = "eof" => r.n = sent - taken
      /\ r.err = "timeout" => taken = sent /\ timer = 0
  BY ReturnsFact
<1>4. /\ request.encrypted /\ frameRemaining = 0 /\ want \in 1 .. PrefixLen
      /\ result = "none" /\ prefixOffset = PrefixLen /\ phase = "upload"
      /\ out = taken - (PrefixLen - want) /\ ~torn
  BY <1>2 DEF Reading, BytesInOrder, Kept, TypeOK, PrefixLen
<1>5. taken' \in Nat /\ taken' <= sent /\ want' \in Nat /\ sent' = sent
  BY <1>1, <1>2, <1>3 DEF TypeOK, client
<1>6. disarm(r.err) \in Nat \cup {Off} /\ (r.err = "eof" => disarm(r.err) = Off)
  BY <1>3 DEF disarm, TypeOK
<1> USE DEF client, answer
<1>7. CASE /\ r.n = want
           /\ \E size \in Sizes, b \in Buffers : Declare(size, b)
           /\ reader' = "none" /\ timer' = disarm(r.err)
  <2>1. PICK size \in Sizes, b \in Buffers : Declare(size, b)
    BY <1>7
  <2>2. /\ wireSize' \in Nat /\ frameRemaining' \in Nat /\ out' \in Nat
        /\ prefixOffset' \in 0 .. PrefixLen
        /\ result' \in {"none", "invalid"}
        /\ ~torn'
        /\ result' = "none" => out' = taken' - (PrefixLen - prefixOffset')
        /\ wireSize' <= MaxBody
        /\ out' + (PrefixLen - prefixOffset') + frameRemaining' = wireSize'
        /\ frameRemaining' <= MaxFrame
    BY <1>1, <1>2, <1>7, <2>1, DeclareStep
  <2>3. TypeOK'
    BY <1>2, <1>5, <1>6, <1>7, <2>2 DEF TypeOK, Readers, Results
  <2>4. Reading'
    BY <1>2, <1>4, <1>5, <1>7 DEF Reading
  <2>5. Clocks' /\ CleanEndIsWhole'
    BY <1>2, <1>7, <2>2 DEF Clocks, CleanEndIsWhole
  <2>6. BytesInOrder'
    <3>1. Kept' = PrefixLen - prefixOffset'
      BY <1>7, <2>2 DEF Kept, PrefixLen
    <3> QED
      BY <2>2, <3>1 DEF BytesInOrder
  <2>7. BodyBounded' /\ CutOnlyWhenSilent'
    BY <1>2, <2>2 DEF BodyBounded, CutOnlyWhenSilent
  <2> QED
    BY <2>3, <2>4, <2>5, <2>6, <2>7
<1>8. CASE /\ r.n < want /\ r.err = "none"
           /\ timer' = deadline
           /\ UNCHANGED <<reader, validator, consumed>>
  <2> USE DEF validator, consumed
  <2>1. TypeOK'
    BY <1>2, <1>5, <1>8, IOAssumption DEF TypeOK, deadline
  <2>2. Reading'
    BY <1>1, <1>2, <1>3, <1>4, <1>5, <1>8 DEF Reading, TypeOK
  <2>3. Clocks'
    BY <1>2, <1>4, <1>8, IOAssumption DEF Clocks, TypeOK, deadline
  <2>4. BytesInOrder'
    BY <1>1, <1>2, <1>3, <1>4, <1>8 DEF BytesInOrder, Kept, TypeOK, PrefixLen
  <2>5. BodyBounded' /\ CleanEndIsWhole' /\ CutOnlyWhenSilent'
    BY <1>2, <1>4, <1>8 DEF BodyBounded, CleanEndIsWhole, CutOnlyWhenSilent
  <2> QED
    BY <2>1, <2>2, <2>3, <2>4, <2>5
<1>9. CASE /\ r.n < want /\ r.err # "none"
           /\ result' = IF r.err = "eof" /\ want - r.n < PrefixLen
                        THEN "unexpected" ELSE r.err
           /\ reader' = "none" /\ timer' = disarm(r.err)
           /\ UNCHANGED <<validator, out, torn>>
  <2> USE DEF validator
  <2>1. /\ result' \in {"unexpected", "eof", "lost", "timeout"}
        /\ result' = "eof" => r.err = "eof" /\ r.n = 0 /\ want = PrefixLen
        /\ result' = "timeout" => r.err = "timeout"
    BY <1>3, <1>4, <1>9 DEF PrefixLen
  <2>2. TypeOK'
    BY <1>2, <1>5, <1>6, <1>9, <2>1 DEF TypeOK, Readers, Results
  <2>3. Reading'
    BY <1>2, <1>4, <1>5, <1>9 DEF Reading
  <2>4. Clocks'
    BY <1>2, <1>6, <1>9, <2>1 DEF Clocks
  <2>5. result' = "eof" => taken' = sent /\ out = sent
    BY <1>1, <1>3, <1>4, <2>1 DEF TypeOK, PrefixLen
  <2>6. BytesInOrder' /\ CleanEndIsWhole'
    BY <1>2, <1>4, <1>9, <2>1, <2>5 DEF BytesInOrder, CleanEndIsWhole, Kept, TypeOK,
       PrefixLen
  <2>7. BodyBounded'
    BY <1>2, <1>9 DEF BodyBounded
  <2>8. CutOnlyWhenSilent'
    BY <1>2, <1>3, <2>1 DEF CutOnlyWhenSilent, Clocks, TypeOK
  <2> QED
    BY <2>2, <2>3, <2>4, <2>6, <2>7, <2>8
<1> QED
  BY <1>1, <1>7, <1>8, <1>9

-----------------------------------------------------------------------------
(* The theorems.                                                           *)

\* Every step of the gateway, of its client and of the clock preserves the
\* invariant.
LEMMA NextStep == IOInv /\ [Next]_vars => IOInv'
<1> SUFFICES ASSUME IOInv, [Next]_vars PROVE IOInv'
  OBVIOUS
<1>1. CASE Gateway
  <2>1. CASE Read
    BY <2>1, StartReadStep, HandPrefixStep, DataReturnsStep, PrefixReturnsStep
       DEF Read
  <2>2. CASE \E k \in Chunks : Write(k)
    BY <2>2, WriteStep
  <2> QED
    BY <1>1, <2>1, <2>2, HandleStep, ReachLimitStep, UploadEndsStep,
       InferenceEndsStep, WriteFailsStep, AnswerEndsStep DEF Gateway
<1>2. CASE Client
  BY <1>2, ClientSendsStep, ClientEndsStep, ChunkWrittenStep DEF Client
<1>3. CASE UNCHANGED vars
  <2> USE <1>3 DEF vars, client, conn, validator, consumed, answer, IOInv
  <2>1. TypeOK' /\ Reading' /\ Clocks'
    BY DEF TypeOK, Reading, Clocks
  <2>2. BytesInOrder' /\ BodyBounded' /\ CleanEndIsWhole' /\ CutOnlyWhenSilent'
    BY DEF BytesInOrder, Kept, BodyBounded, CleanEndIsWhole, CutOnlyWhenSilent
  <2> QED
    BY <2>1, <2>2
<1> QED
  BY <1>1, <1>2, <1>3, WatchFailsStep, TickStep DEF Next

\* The invariant holds of every request, from its arrival to its end.
THEOREM Invariance == Spec => []IOInv
  BY InitStep, NextStep, PTL DEF Spec

\* The consumer of a body, plain or framed, gets the client's bytes each once
\* and in order, for every size of buffer, of frame and of what a read returns.
THEOREM BytesArriveInOrder == Spec => []BytesInOrder
<1>1. IOInv => BytesInOrder
  BY DEF IOInv
<1> QED
  BY Invariance, <1>1, PTL

\* No encrypted body passes its limit, and no frame is handed on that was not
\* counted first: the bookkeeping of validatedEHBPBody is exact.
THEOREM BodyStaysBounded == Spec => []BodyBounded
<1>1. IOInv => BodyBounded
  BY DEF IOInv
<1> QED
  BY Invariance, <1>1, PTL

\* A body that is read to a clean end is all the client sent, in whole frames.
THEOREM CleanEnds == Spec => []CleanEndIsWhole
<1>1. IOInv => CleanEndIsWhole
  BY DEF IOInv
<1> QED
  BY Invariance, <1>1, PTL

\* The per-read and per-write deadlines of the middleware give up on no client
\* before a whole window of silence, and cancel no client that is still there.
THEOREM NoActiveClientCut == Spec => []CutOnlyWhenSilent
<1>1. IOInv => CutOnlyWhenSilent
  BY DEF IOInv
<1> QED
  BY Invariance, <1>1, PTL

=============================================================================
