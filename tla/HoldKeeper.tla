----------------------------- MODULE HoldKeeper -----------------------------
(***************************************************************************)
(* One credit hold, from the call that opens it to the call that settles   *)
(* it: Client.Reserve and its retries, the goroutine KeepReservation       *)
(* starts to renew the hold, the settlement (RecordSuccess, RecordFailure) *)
(* and the stop function that ends the goroutine.                          *)
(*                                                                         *)
(* Metering is a separate service, modelled from how the gateway uses it:  *)
(* it measures a lease from the instant it processes a call, answers a     *)
(* repeated reservation request with the hold it already opened, and       *)
(* refuses to renew a hold that is settled or has run out.  The network    *)
(* loses requests and answers, and delivers abandoned requests late.       *)
(*                                                                         *)
(* Times are ticks of the gateway's clock; only durations cross the wire.  *)
(***************************************************************************)
EXTENDS Integers

CONSTANTS
  Leases,     \* lease lengths Metering may grant (lease_ms), in ticks
  Second,     \* time.Second, in ticks
  MaxTime,    \* bound on the clock
  MaxTries    \* sends of one retried call: 1 + retries

ASSUME ConstantsAssumption ==
  /\ Leases \subseteq Nat \ {0}
  /\ Second \in Nat \ {0}
  /\ MaxTime \in Nat
  /\ MaxTries \in Nat \ {0}

VARIABLES
  now,        \* the clock
  hold,       \* Metering's record of the hold
  call,       \* the HTTP call each goroutine has in progress, and its answer
  orphans,    \* calls the gateway gave up on that can still reach Metering
  main,       \* where the request's own goroutine is
  pc,         \* where the keeper goroutine is
  sent,       \* when the last reservation or renewal was sent
  tries,      \* sends of the call in progress
  held,       \* the keeper's lease: expiry and length
  floor,      \* shortest wait between renewals
  timer,      \* when the keeper's timer fires; 0 when none is armed
  canceled,   \* the keeper's context is done
  lost        \* onLost ran: the inference was canceled for a lost hold

vars == <<now, hold, call, orphans, main, pc, sent, tries, held, floor, timer,
          canceled, lost>>

keeperVars == <<pc, held, floor, timer, canceled, lost>>

Min2(a, b) == IF a <= b THEN a ELSE b
Max2(a, b) == IF a >= b THEN a ELSE b

-----------------------------------------------------------------------------
(* Calls and answers.                                                      *)

Goroutines == {"main", "keeper"}
Kinds == {"reserve", "renew", "settle"}

\* ok carries the granted lease (0 from a Metering that does not advertise
\* leases); rejected is a 4xx; failed is a 5xx, or a 2xx whose body does not
\* grant this hold a lease.
Answers == [status : {"ok", "rejected", "failed"}, lease : Leases \cup {0}]
Ok(lease) == [status |-> "ok", lease |-> lease]
Rejected == [status |-> "rejected", lease |-> 0]
Failed == [status |-> "failed", lease |-> 0]
NoAnswer == [status |-> "none", lease |-> 0]

NoCall == [kind |-> "none", answer |-> NoAnswer]
Sent(kind) == [kind |-> kind, answer |-> NoAnswer]
Calling(g, kind) == call[g].kind = kind

-----------------------------------------------------------------------------
(* Metering, seen from the gateway.                                        *)

\* The hold still reserves credit.
HoldLive ==
  /\ hold.state = "open"
  /\ hold.lease = 0 \/ now < hold.expires

\* A first reservation opens the hold or is refused (no credit); a retry of it
\* (same gateway_request_id) is answered with the hold that exists, and does
\* not extend it.
ServeReserve(answer) ==
  \/ /\ hold.state = "none"
     /\ \E lease \in Leases \cup {0} :
          /\ hold' = [state |-> "open", expires |-> now + lease, lease |-> lease]
          /\ answer = Ok(lease)
  \/ /\ hold.state = "none"
     /\ answer = Rejected
     /\ UNCHANGED hold
  \/ /\ hold.state # "none"
     /\ answer = Ok(hold.lease)
     /\ UNCHANGED hold

\* A renewal never shortens a hold.
ServeRenew(answer) ==
  \/ /\ HoldLive
     /\ \E lease \in Leases :
          /\ hold' = [hold EXCEPT !.expires = Max2(hold.expires, now + lease)]
          /\ answer = Ok(lease)
  \/ ~HoldLive /\ answer = Rejected /\ UNCHANGED hold

ServeSettle(answer) ==
  \/ /\ HoldLive
     /\ hold' = [hold EXCEPT !.state = "settled"]
     /\ answer = Ok(0)
  \/ ~HoldLive /\ answer = Rejected /\ UNCHANGED hold

Serve(kind, answer) ==
  \/ kind = "reserve" /\ ServeReserve(answer)
  \/ kind = "renew" /\ ServeRenew(answer)
  \/ kind = "settle" /\ ServeSettle(answer)
  \/ answer = Failed /\ UNCHANGED hold

\* Metering processes a call in progress and its answer comes back.  A renewal
\* is awaited only while the lease and the keeper's context last.
MeteringAnswers(g) ==
  /\ call[g].kind # "none" /\ call[g].answer = NoAnswer
  /\ g = "keeper" => now < held.expires /\ ~canceled
  /\ \E answer \in Answers :
       /\ Serve(call[g].kind, answer)
       /\ call' = [call EXCEPT ![g] = [kind |-> call[g].kind, answer |-> answer]]
  /\ UNCHANGED <<now, orphans, main, sent, tries, keeperVars>>

\* A call the gateway no longer waits for reaches Metering.
OrphanArrives(kind) ==
  /\ kind \in orphans
  /\ orphans' = orphans \ {kind}
  /\ \E answer \in Answers : Serve(kind, answer)
  /\ UNCHANGED <<now, call, main, sent, tries, keeperVars>>

Tick ==
  /\ now < MaxTime
  /\ now' = now + 1
  /\ UNCHANGED <<hold, call, orphans, main, sent, tries, keeperVars>>

-----------------------------------------------------------------------------
(* The HTTP client.                                                        *)

\* The call ends without an answer: a transport error, the client's timeout
\* or its context's end.  The request may be lost, or still be on its way.
Abandon(g) ==
  /\ call' = [call EXCEPT ![g] = NoCall]
  /\ \/ UNCHANGED orphans
     \/ /\ call[g].kind # "none" /\ call[g].answer = NoAnswer
        /\ orphans' = orphans \cup {call[g].kind}

\* The answer is read and the call is over.
Finish(g) ==
  /\ call' = [call EXCEPT ![g] = NoCall]
  /\ UNCHANGED orphans

\* A failure requestJSON may retry: a 5xx, or no answer at all.
RetryableFailure(g) ==
  \/ Abandon(g)
  \/ call[g].answer = Failed /\ Finish(g)

\* One pass of requestJSON's loop: the same call, sent again.
Send(kind) ==
  /\ tries < MaxTries
  /\ tries' = tries + 1
  /\ call' = [call EXCEPT !["main"] = Sent(kind)]

-----------------------------------------------------------------------------
(* The request: Reserve, the settlement, and stop.                         *)

\* Mutant of SendReserve: each try restarts the lease's clock.
SendReserveResampled ==
  /\ main = "reserving" /\ Calling("main", "none")
  /\ Send("reserve")
  /\ sent' = now
  /\ UNCHANGED <<now, hold, orphans, main, keeperVars>>

\* sent was read once, before the first try (Init).
SendReserve ==
  /\ main = "reserving" /\ Calling("main", "none")
  /\ Send("reserve")
  /\ UNCHANGED <<now, hold, orphans, main, sent, keeperVars>>

ReserveFails ==
  /\ main = "reserving" /\ Calling("main", "reserve")
  /\ RetryableFailure("main")
  /\ UNCHANGED <<now, hold, main, sent, tries, keeperVars>>

\* Metering refused, the tries are used up, or the client left (the call and
\* the wait between tries follow its context): there is no reservation id, so
\* no keeper and no settlement.
ReserveGivesUp ==
  /\ main = "reserving"
  /\ \/ call["main"].answer = Rejected /\ Finish("main")
     \/ Calling("main", "none") /\ tries = MaxTries /\ Finish("main")
     \/ Abandon("main")
  /\ main' = "refused"
  /\ UNCHANGED <<now, hold, sent, tries, keeperVars>>

newLease(from, lease) == [expires |-> from + lease, length |-> lease]

\* Reserve stores the lease; KeepReservation claims it and starts its
\* goroutine.  Without a lease there is nothing to keep.
KeepReservation ==
  /\ main = "reserving"
  /\ Calling("main", "reserve") /\ call["main"].answer.status = "ok"
  /\ LET lease == call["main"].answer.lease
     IN \/ /\ lease > 0
           /\ held' = newLease(sent, lease)
           /\ floor' = Min2(Second, lease \div 10)
           /\ pc' = "top"
        \/ lease = 0 /\ UNCHANGED <<held, floor, pc>>
  /\ Finish("main")
  /\ main' = "running"
  /\ UNCHANGED <<now, hold, sent, tries, timer, canceled, lost>>

\* The inference ended: finishProxy or Proxy's error path settles the hold,
\* while the keeper still renews it.
BeginSettle ==
  /\ main = "running"
  /\ main' = "settling"
  /\ tries' = 0
  /\ UNCHANGED <<now, hold, call, orphans, sent, keeperVars>>

SendSettle ==
  /\ main = "settling" /\ Calling("main", "none")
  /\ Send("settle")
  /\ UNCHANGED <<now, hold, orphans, main, sent, keeperVars>>

SettleFails ==
  /\ main = "settling" /\ Calling("main", "settle")
  /\ RetryableFailure("main")
  /\ UNCHANGED <<now, hold, main, sent, tries, keeperVars>>

\* Mutant of StopLease: one failed try ends the settlement.
StopLeaseNoRetry ==
  /\ main = "settling"
  /\ \/ call["main"].answer.status \in {"ok", "rejected"}
     \/ Calling("main", "none") /\ tries > 0
  /\ Finish("main")
  /\ main' = "stopping"
  /\ canceled' = TRUE
  /\ UNCHANGED <<now, hold, sent, tries, pc, held, floor, timer, lost>>

\* The settlement is over, whatever came of it (an error is only logged), and
\* stopLease cancels the keeper's context.
StopLease ==
  /\ main = "settling"
  /\ \/ call["main"].answer.status \in {"ok", "rejected"}
     \/ Calling("main", "none") /\ tries = MaxTries
  /\ Finish("main")
  /\ main' = "stopping"
  /\ canceled' = TRUE
  /\ UNCHANGED <<now, hold, sent, tries, pc, held, floor, timer, lost>>

\* stop waits for the goroutine: cancel(); <-done.
StopReturns ==
  /\ main = "stopping" /\ pc \in {"off", "done"}
  /\ main' = "stopped"
  /\ UNCHANGED <<now, hold, call, orphans, sent, tries, keeperVars>>

-----------------------------------------------------------------------------
(* The keeper goroutine of KeepReservation.                                *)

remaining == held.expires - now

\* lost(): onLost runs unless the context is already done, and cancels it.
SignalLost ==
  /\ lost' = (lost \/ ~canceled)
  /\ canceled' = TRUE
  /\ pc' = "done"
  /\ UNCHANGED <<held, floor, timer>>

\* Mutant of KeeperExpires: the loop ends without lost().
KeeperExpiresSilently ==
  /\ pc = "top" /\ remaining <= 0
  /\ pc' = "done"
  /\ UNCHANGED <<now, hold, call, orphans, main, sent, tries, held, floor,
                 timer, canceled, lost>>

KeeperExpires ==
  /\ pc = "top" /\ remaining <= 0
  /\ SignalLost
  /\ UNCHANGED <<now, hold, call, orphans, main, sent, tries>>

ArmTimer ==
  /\ pc = "top" /\ remaining > 0
  /\ timer' = now + Min2(Max2(remaining \div 3, floor), remaining)
  /\ pc' = "wait"
  /\ UNCHANGED <<now, hold, call, orphans, main, sent, tries, held, floor,
                 canceled, lost>>

\* Mutant of KeeperCanceled: the wait is a sleep the context cannot end.
KeeperSleeps ==
  /\ pc = "wait" /\ canceled /\ now >= timer
  /\ timer' = 0
  /\ pc' = "done"
  /\ UNCHANGED <<now, hold, call, orphans, main, sent, tries, held, floor,
                 canceled, lost>>

KeeperCanceled ==
  /\ pc = "wait" /\ canceled
  /\ timer' = 0
  /\ pc' = "done"
  /\ UNCHANGED <<now, hold, call, orphans, main, sent, tries, held, floor,
                 canceled, lost>>

\* The timer fired too late to renew: back to the top, where the lease ends.
TimerTooLate ==
  /\ pc = "wait" /\ now >= timer /\ remaining <= 0
  /\ timer' = 0
  /\ pc' = "top"
  /\ UNCHANGED <<now, hold, call, orphans, main, sent, tries, held, floor,
                 canceled, lost>>

SendRenewal ==
  /\ pc = "wait" /\ now >= timer /\ remaining > 0
  /\ timer' = 0
  /\ pc' = "renew"
  /\ sent' = now
  /\ call' = [call EXCEPT !["keeper"] = Sent("renew")]
  /\ UNCHANGED <<now, hold, orphans, main, tries, held, floor,
                 canceled, lost>>

Renewed ==
  /\ pc = "renew" /\ call["keeper"].answer.status = "ok"
  /\ LET renewed == newLease(sent, call["keeper"].answer.lease)
     IN held' = IF renewed.expires > held.expires THEN renewed ELSE held
  /\ Finish("keeper")
  /\ pc' = "top"
  /\ UNCHANGED <<now, hold, main, sent, tries, floor, timer, canceled, lost>>

\* Mutant of RenewalRejected: a 5xx ends the hold too.
RenewalRejectedByAny ==
  /\ pc = "renew" /\ call["keeper"].answer \in {Rejected, Failed}
  /\ Finish("keeper")
  /\ SignalLost
  /\ UNCHANGED <<now, hold, main, sent, tries>>

\* A 4xx: completed, expired or unknown.  Retrying cannot restore it.
RenewalRejected ==
  /\ pc = "renew" /\ call["keeper"].answer = Rejected
  /\ Finish("keeper")
  /\ SignalLost
  /\ UNCHANGED <<now, hold, main, sent, tries>>

\* A transport error, a 5xx, the client's timeout, the lease's end (the
\* request's deadline) or the context's end: the loop goes round again.
RenewalFails ==
  /\ pc = "renew"
  /\ RetryableFailure("keeper")
  /\ pc' = "top"
  /\ UNCHANGED <<now, hold, main, sent, tries, held, floor, timer, canceled,
                 lost>>

-----------------------------------------------------------------------------
(* The clock starts when Reserve reads it.                                 *)
Init ==
  /\ now = 0
  /\ hold = [state |-> "none", expires |-> 0, lease |-> 0]
  /\ call = [g \in Goroutines |-> NoCall]
  /\ orphans = {}
  /\ main = "reserving"
  /\ pc = "off"
  /\ sent = 0
  /\ tries = 0
  /\ held = [expires |-> 0, length |-> 0]
  /\ floor = 0
  /\ timer = 0
  /\ canceled = FALSE
  /\ lost = FALSE

KeeperStep ==
  \/ KeeperExpires \/ ArmTimer \/ KeeperCanceled \/ TimerTooLate
  \/ SendRenewal \/ Renewed \/ RenewalRejected \/ RenewalFails

MainStep ==
  \/ SendReserve \/ ReserveFails \/ ReserveGivesUp
  \/ KeepReservation \/ BeginSettle \/ SendSettle \/ SettleFails
  \/ StopLease \/ StopReturns

Environment ==
  \/ \E g \in Goroutines : MeteringAnswers(g)
  \/ \E kind \in Kinds : OrphanArrives(kind)
  \/ Tick

Next == KeeperStep \/ MainStep \/ Environment

\* The keeper goroutine runs, and stop returns once it can.  Nothing is assumed
\* of Metering, the network, the clock or the inference: a renewal that gets no
\* answer is ended by its deadline.
Fairness == WF_vars(KeeperStep) /\ WF_vars(StopReturns)

Spec == Init /\ [][Next]_vars
FairSpec == Spec /\ Fairness

-----------------------------------------------------------------------------
(* Properties.                                                             *)

Keeping == pc \in {"top", "wait", "renew"}
Settling == main \in {"settling", "stopping", "stopped"}

\* Every variable holds a value of its kind: the keeper's lease, its timer and
\* its context, the calls in progress and Metering's record.
TypeOK ==
  /\ now \in Nat
  /\ hold \in [state : {"none", "open", "settled"}, expires : Nat,
               lease : Leases \cup {0}]
  /\ call \in [Goroutines -> [kind : Kinds \cup {"none"},
                              answer : Answers \cup {NoAnswer}]]
  /\ orphans \in SUBSET Kinds
  /\ main \in {"reserving", "refused", "running", "settling",
               "stopping", "stopped"}
  /\ pc \in {"off", "top", "wait", "renew", "done"}
  /\ sent \in Nat
  /\ tries \in Nat
  /\ held \in [expires : Nat, length : Leases \cup {0}]
  /\ floor \in Nat
  /\ timer \in Nat
  /\ canceled \in BOOLEAN
  /\ lost \in BOOLEAN

\* While the keeper's own lease has time left and the request has not begun
\* to settle, Metering's hold is live: reserveResponse's duration is measured
\* from before the first try (Reserve) or before the renewal was sent, so no
\* retry, delay or late answer makes the gateway trust a hold that is gone.
LeaseNeverOutlasts ==
  Keeping /\ now < held.expires /\ ~Settling => HoldLive

\* onLost cancels a generation only when its hold cannot be relied on: the
\* lease the gateway knows of ran out, or Metering no longer has a live hold.
\* A 5xx or a lost answer never cancels an inference whose lease still runs.
LostMeansDead ==
  lost => now >= held.expires \/ ~HoldLive

\* A hold outlives the request only when each of the settlement's tries
\* failed: no retry, lost answer or concurrent renewal leaves it reserved.
ReleasedUnlessExhausted ==
  main \in {"stopping", "stopped"} /\ HoldLive => tries = MaxTries

\* Renewals, retries of failed ones included, are at least floor apart: an
\* outage of Metering is never met by a tight loop near the lease's end.
RenewalsSpaced ==
  [][pc = "wait" /\ pc' = "renew" => now - sent >= floor]_vars

\* Once stop has returned the keeper is silent: it sends no renewal and cannot
\* report the settled hold as lost.
StoppedIsFinal ==
  [][main = "stopped" => lost' = lost /\ call' = call]_vars

\* stop always returns: a renewal in progress, an unfired timer or a lost hold
\* never leave the request waiting for the keeper goroutine.
StopAlwaysReturns == main = "stopping" ~> main = "stopped"

\* When Metering's hold is gone while the inference runs, the keeper finds out
\* and cancels the inference, unless the request settles first.
DeadHoldIsNoticed ==
  (Keeping /\ ~HoldLive /\ main = "running") ~> (lost \/ Settling)

=============================================================================
