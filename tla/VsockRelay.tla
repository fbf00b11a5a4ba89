----------------------------- MODULE VsockRelay -----------------------------
(***************************************************************************)
(* Connections copied between a TCP and a vsock end: the forwarder's       *)
(* ingress (runIngress, forward, copyHalf) in front of the enclave, and    *)
(* the enclave's TLS bridge to Tinfoil (bridgeTinfoilTLS).                 *)
(*                                                                         *)
(* Up runs from the end that connected, near, to the end that was dialed,  *)
(* far; down runs back.  Data is counted in pieces.  A forward waits for   *)
(* both copies and passes each end of data on; a bridge waits for one and  *)
(* passes nothing on.                                                      *)
(***************************************************************************)
EXTENDS Integers, FiniteSets

CONSTANTS
  Conns,           \* the connections that may arrive
  Kinds,           \* which of them come, and what each is
  MaxConnections,  \* --max-connections
  MaxPieces        \* bound on the pieces written each way

ASSUME RelayAssumption ==
  /\ Kinds \subseteq [Conns -> {"forward", "bridge", "absent"}]
  /\ MaxConnections \in Nat \ {0}
  /\ MaxPieces \in Nat

Ways == {"up", "down"}

VARIABLES
  kind,      \* forward, bridge, or absent for one that never comes; fixed
  pc,        \* new, refused, dialing, open, failed, closed
  limit,     \* elements in the limit channel
  written,   \* pieces written into each way
  copied,    \* pieces that came out of it
  fin,       \* the writer of the way will write no more
  gone,      \* the reader of the way is gone
  reset,     \* the connection of the way's writer broke
  done,      \* the way's copy has ended
  eof        \* the way's reader was told that its data ended

connVars == <<kind, pc, limit, written, copied, fin, gone, reset, done, eof>>
ways == <<written, copied, fin, gone, reset, done, eof>>

Forwards == {x \in Conns : kind[x] = "forward"}
Bridges == {x \in Conns : kind[x] = "bridge"}

-----------------------------------------------------------------------------
(* Accepting.                                                              *)

\* A connection over the limit is closed at once.
Accept(x) ==
  /\ pc[x] = "new"
  /\ \/ /\ x \in Bridges
        /\ pc' = [pc EXCEPT ![x] = "dialing"]
        /\ UNCHANGED limit
     \/ /\ x \in Forwards /\ limit < MaxConnections
        /\ limit' = limit + 1
        /\ pc' = [pc EXCEPT ![x] = "dialing"]
     \/ /\ x \in Forwards /\ limit = MaxConnections
        /\ pc' = [pc EXCEPT ![x] = "refused"]
        /\ UNCHANGED limit
  /\ UNCHANGED <<kind, ways>>

\* Mutant of release: the early return of a failed dial keeps the slot.
releaseUnlessDialing(x) ==
  IF x \in Forwards /\ pc[x] # "dialing" THEN limit - 1 ELSE limit

\* The deferred receive: the goroutine that took a slot gives it back.
release(x) == IF x \in Forwards THEN limit - 1 ELSE limit

DialFails(x) ==
  /\ pc[x] = "dialing"
  /\ pc' = [pc EXCEPT ![x] = "failed"]
  /\ limit' = release(x)
  /\ UNCHANGED <<kind, ways>>

Dial(x) ==
  /\ pc[x] = "dialing"
  /\ pc' = [pc EXCEPT ![x] = "open"]
  /\ UNCHANGED <<kind, limit, ways>>

-----------------------------------------------------------------------------
(* Copying.                                                                *)

Copy(x, way) ==
  /\ pc[x] = "open" /\ ~done[x][way]
  /\ copied[x][way] < written[x][way] /\ ~gone[x][way]
  /\ copied' = [copied EXCEPT ![x][way] = @ + 1]
  /\ UNCHANGED <<kind, pc, limit, written, fin, gone, reset, done, eof>>

\* A copy ends when its data does, when there is nobody to write to, which it
\* notices only with something to write, or when a read of a broken connection
\* fails, however much was still to come.  io.Copy's error is thrown away.
CopyStops(x, way) ==
  /\ pc[x] = "open" /\ ~done[x][way]
  /\ \/ fin[x][way] /\ copied[x][way] = written[x][way]
     \/ gone[x][way] /\ copied[x][way] < written[x][way]
     \/ reset[x][way]
  /\ done' = [done EXCEPT ![x][way] = TRUE]

\* Mutant of CopyEnds: the end of the data is not passed on.
CopyEndsSilently(x, way) ==
  /\ CopyStops(x, way)
  /\ UNCHANGED <<kind, pc, limit, written, copied, fin, gone, reset, eof>>

\* copyHalf passes the end on with CloseWrite, whatever ended the copy; the
\* bridge does not.
CopyEnds(x, way) ==
  /\ CopyStops(x, way)
  /\ eof' = [eof EXCEPT ![x][way] = @ \/ x \in Forwards]
  /\ UNCHANGED <<kind, pc, limit, written, copied, fin, gone, reset>>

Ended(x) == {way \in Ways : done[x][way]}

\* Mutant of Waited: a forward, too, ends with its first copy.
WaitedOne(x) == Ended(x) # {}

\* How many copies the connection waits for.
Waited(x) == IF x \in Forwards THEN Ended(x) = Ways ELSE Ended(x) # {}

\* Both ends are closed: what was not copied yet is lost.
CloseConn(x) ==
  /\ pc[x] = "open" /\ Waited(x)
  /\ pc' = [pc EXCEPT ![x] = "closed"]
  /\ limit' = release(x)
  /\ eof' = [eof EXCEPT ![x] = [way \in Ways |-> TRUE]]
  /\ UNCHANGED <<kind, written, copied, fin, gone, reset, done>>

-----------------------------------------------------------------------------
(* The two ends.                                                           *)

\* The near end can write before the far one is dialed.
Writes(x, way) ==
  /\ pc[x] = "open" \/ (way = "up" /\ pc[x] = "dialing")
  /\ ~fin[x][way] /\ written[x][way] < MaxPieces
  /\ written' = [written EXCEPT ![x][way] = @ + 1]
  /\ UNCHANGED <<kind, pc, limit, copied, fin, gone, reset, done, eof>>

\* An end that has written all it will and still reads.
FinishesWriting(x, way) ==
  /\ pc[x] = "open" /\ ~fin[x][way]
  /\ fin' = [fin EXCEPT ![x][way] = TRUE]
  /\ UNCHANGED <<kind, pc, limit, written, copied, gone, reset, done, eof>>

Other(way) == CHOOSE w \in Ways : w # way

\* The writer of a way closes its connection: it reads no more either.
Leaves(x, way) ==
  /\ pc[x] = "open" /\ ~gone[x][Other(way)]
  /\ fin' = [fin EXCEPT ![x][way] = TRUE]
  /\ gone' = [gone EXCEPT ![x][Other(way)] = TRUE]
  /\ UNCHANGED <<kind, pc, limit, written, copied, reset, done, eof>>

\* The connection of a way's writer breaks: nothing more comes from it, and
\* nothing reaches it.
Resets(x, way) ==
  /\ pc[x] = "open" /\ ~reset[x][way]
  /\ fin' = [fin EXCEPT ![x][way] = TRUE]
  /\ gone' = [gone EXCEPT ![x][Other(way)] = TRUE]
  /\ reset' = [reset EXCEPT ![x][way] = TRUE]
  /\ UNCHANGED <<kind, pc, limit, written, copied, done, eof>>

-----------------------------------------------------------------------------
None == [x \in Conns |-> [way \in Ways |-> FALSE]]
Zero == [x \in Conns |-> [way \in Ways |-> 0]]

ConnInit ==
  /\ kind \in Kinds
  /\ pc = [x \in Conns |-> "new"]
  /\ limit = 0
  /\ written = Zero /\ copied = Zero
  /\ fin = None /\ gone = None /\ reset = None /\ done = None /\ eof = None

RelayConn(x) ==
  \/ Accept(x) \/ Dial(x) \/ DialFails(x) \/ CloseConn(x)
  \/ \E way \in Ways : Copy(x, way) \/ CopyEnds(x, way)

Ends(x) ==
  \E way \in Ways :
    Writes(x, way) \/ FinishesWriting(x, way) \/ Leaves(x, way) \/ Resets(x, way)

ConnNext == \E x \in Conns : RelayConn(x) \/ Ends(x)

ConnSpec == ConnInit /\ [][ConnNext]_connVars

\* The relay's goroutines run, and a dial succeeds or fails (the kernel gives up
\* on a vsock connect after a while).  Nothing is assumed of the two ends: a copy
\* has no deadline and goes on only as long as they write and read.
ConnFairness ==
  \A x \in Conns :
    /\ WF_connVars(Accept(x)) /\ WF_connVars(Dial(x) \/ DialFails(x))
    /\ WF_connVars(CloseConn(x))
    /\ \A way \in Ways : WF_connVars(CopyEnds(x, way))

FairConnSpec == ConnSpec /\ ConnFairness

-----------------------------------------------------------------------------
(* Properties.                                                             *)

\* A forward tells an end that its data ended only when it has all of it, unless
\* the connection that the data came from broke: a client that finishes its
\* request early still gets the whole answer, and an answer that is over first
\* does not cut the rest of the request off.  (A broken connection is passed on
\* as an orderly end: copyHalf calls CloseWrite after a failed read, too.)
NothingCutShort ==
  \A x \in Forwards, way \in Ways :
    eof[x][way] /\ ~gone[x][way] =>
      \/ fin[x][way] /\ copied[x][way] = written[x][way]
      \/ reset[x][way]

\* The connections that hold a slot.
Holders == {x \in Forwards : pc[x] \in {"dialing", "open"}}

\* The limit channel has one element for each of them and never more than its
\* capacity: whether the dial failed, an end left or a connection broke, no slot
\* is lost or given back twice.
SlotsCounted ==
  /\ IsFiniteSet(Holders) /\ Cardinality(Holders) = limit
  /\ limit <= MaxConnections

\* The two ends take what is sent to them, as long as it is.
EndsRead(x) ==
  \A way \in Ways :
    []<>(gone[x][way] \/ done[x][way] \/ copied[x][way] = written[x][way])

\* An end that is told that its data is over finishes writing at last.
EndsAnswerEnd(x) ==
  \A way \in Ways : []<>(eof[x][way] => fin[x][Other(way)])

\* A connection does not outlive its end: if both ends read, then one of which
\* an end finished, left or broke is closed at last, and its slot given back.  A
\* forward needs the other end to finish, too, when it is told, which it is,
\* because copyHalf passes the end on; a bridge passes nothing on and closes both
\* connections, however long the other end would go on.
SlotsReturned ==
  \A x \in Conns :
    EndsRead(x) /\ (x \in Forwards => EndsAnswerEnd(x)) =>
      []<>~(pc[x] = "open" /\ \E way \in Ways : fin[x][way])

=============================================================================
