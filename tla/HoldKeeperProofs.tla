-------------------------- MODULE HoldKeeperProofs --------------------------
(***************************************************************************)
(* Proofs about HoldKeeper, for every set of lease lengths, every number   *)
(* of tries and every bound on the clock.                                  *)
(***************************************************************************)
EXTENDS HoldKeeper, TLAPS

-----------------------------------------------------------------------------
(* The inductive invariant.                                                *)

\* Which goroutine can have which call in progress.
CallsInPlace ==
  /\ main = "reserving" => call["main"].kind \in {"none", "reserve"}
  /\ main = "settling" => call["main"].kind \in {"none", "settle"}
  /\ main \notin {"reserving", "settling"} => call["main"] = NoCall
  /\ pc = "renew" => call["keeper"].kind = "renew"
  /\ pc # "renew" => call["keeper"] = NoCall
  /\ \A g \in Goroutines : call[g].kind = "none" => call[g] = NoCall

\* The hold is settled only by the request's own settlement.
SettledByRequest ==
  ~Settling => hold.state # "settled" /\ "settle" \notin orphans

\* A request past its reservation has a hold at Metering.
HoldExists ==
  main \notin {"reserving", "refused"} => hold.state # "none"

\* The reservation's answer names the hold as it was opened, after sent.
ReservationFacts ==
  /\ main = "reserving" =>
       /\ pc = "off"
       /\ hold.state # "none" => sent + hold.lease <= hold.expires
       /\ call["main"].answer.status = "ok" =>
            hold.state # "none" /\ call["main"].answer.lease = hold.lease
  /\ main = "refused" => pc = "off"

\* The keeper's lease, and the one a renewal is about to give it, end no later
\* than Metering's.
LeaseFacts ==
  /\ pc # "off" => hold.lease > 0 /\ held.expires <= hold.expires
  /\ call["keeper"].answer.status = "ok" =>
       sent + call["keeper"].answer.lease <= hold.expires
  /\ call["keeper"].answer.status = "rejected" => ~HoldLive

\* A settlement that was answered left no live hold.
SettlementFacts ==
  main = "settling" /\ call["main"].answer.status \in {"ok", "rejected"} =>
    ~HoldLive

\* The armed timer waits for floor, or for the end of the lease.
TimerFacts ==
  pc = "wait" => timer >= sent + floor \/ timer = held.expires

KeeperFacts ==
  /\ lost => pc = "done"
  /\ main = "stopped" => pc \in {"off", "done"}

IInv ==
  /\ TypeOK
  /\ sent <= now
  /\ CallsInPlace
  /\ SettledByRequest
  /\ HoldExists
  /\ ReservationFacts
  /\ LeaseFacts
  /\ SettlementFacts
  /\ TimerFacts
  /\ KeeperFacts
  /\ LostMeansDead
  /\ ReleasedUnlessExhausted

-----------------------------------------------------------------------------
(* Type correctness.                                                       *)

\* The length of a lease is a natural number.
LEMMA LeaseIsNat == \A lease \in Leases \cup {0} : lease \in Nat
BY ConstantsAssumption

\* So is the one that an answer of Metering carries.
LEMMA AnswerLease ==
  ASSUME NEW answer \in Answers
  PROVE  answer.lease \in Leases \cup {0} /\ answer.lease \in Nat
BY LeaseIsNat DEF Answers

\* Metering keeps the type of its hold, whatever it serves.
LEMMA ServeType ==
  ASSUME TypeOK, NEW kind \in Kinds, NEW answer \in Answers, Serve(kind, answer)
  PROVE  hold' \in [state : {"none", "open", "settled"}, expires : Nat,
                    lease : Leases \cup {0}]
<1> USE ConstantsAssumption DEF TypeOK, Kinds
<1>1. CASE kind = "reserve" /\ ServeReserve(answer)
  BY <1>1 DEF ServeReserve
<1>2. CASE kind = "renew" /\ ServeRenew(answer)
  BY <1>2 DEF ServeRenew, Max2
<1>3. CASE kind = "settle" /\ ServeSettle(answer)
  BY <1>3 DEF ServeSettle
<1>4. CASE answer = Failed /\ UNCHANGED hold
  BY <1>4
<1>5. QED BY <1>1, <1>2, <1>3, <1>4 DEF Serve

\* Every step keeps the types.
LEMMA TypeInductive == TypeOK /\ [Next]_vars => TypeOK'
<1> SUFFICES ASSUME TypeOK, [Next]_vars PROVE TypeOK'
  OBVIOUS
<1> USE ConstantsAssumption DEF TypeOK, keeperVars, Goroutines, Kinds
<1>1. ASSUME NEW g \in Goroutines, MeteringAnswers(g) PROVE TypeOK'
  <2>1. PICK answer \in Answers :
          /\ Serve(call[g].kind, answer)
          /\ call' = [call EXCEPT ![g] = [kind |-> call[g].kind, answer |-> answer]]
    BY <1>1 DEF MeteringAnswers
  <2>2. call[g].kind \in Kinds
    BY <1>1 DEF MeteringAnswers
  <2>3. hold' \in [state : {"none", "open", "settled"}, expires : Nat,
                   lease : Leases \cup {0}]
    BY <2>1, <2>2, ServeType DEF Kinds
  <2>4. QED BY <1>1, <2>1, <2>2, <2>3 DEF MeteringAnswers
<1>2. ASSUME NEW kind \in Kinds, OrphanArrives(kind) PROVE TypeOK'
  <2>1. hold' \in [state : {"none", "open", "settled"}, expires : Nat,
                   lease : Leases \cup {0}]
    BY <1>2, ServeType DEF OrphanArrives
  <2>2. QED BY <1>2, <2>1 DEF OrphanArrives
<1>3. CASE Tick
  BY <1>3 DEF Tick
<1>4. CASE KeeperExpires
  BY <1>4 DEF KeeperExpires, SignalLost
<1>5. CASE KeeperCanceled
  BY <1>5 DEF KeeperCanceled
<1>6. CASE TimerTooLate
  BY <1>6 DEF TimerTooLate
<1>7. CASE ArmTimer
  BY <1>7 DEF ArmTimer, remaining, Min2, Max2
<1>8. CASE SendRenewal
  BY <1>8 DEF SendRenewal, Sent, NoAnswer
<1>9. CASE Renewed
  <2>1. call["keeper"].answer \in Answers
    BY <1>9 DEF Renewed, NoAnswer
  <2>2. held' \in [expires : Nat, length : Leases \cup {0}]
    <3> DEFINE lease == call["keeper"].answer.lease
    <3>1. lease \in Leases \cup {0} /\ lease \in Nat
      BY <2>1, AnswerLease
    <3>2. held' = IF sent + lease > held.expires
                  THEN [expires |-> sent + lease, length |-> lease] ELSE held
      BY <1>9 DEF Renewed, newLease
    <3> HIDE DEF lease
    <3>3. QED BY <3>1, <3>2
  <2>3. QED BY <1>9, <2>2 DEF Renewed, Finish, NoCall
<1>10. CASE RenewalRejected
  BY <1>10 DEF RenewalRejected, SignalLost, Finish, NoCall
<1>11. CASE RenewalFails
  <2>1. call' \in [Goroutines -> [kind : Kinds \cup {"none"},
                                  answer : Answers \cup {NoAnswer}]]
    BY <1>11 DEF RenewalFails, RetryableFailure, Abandon, Finish, NoCall
  <2>2. orphans' \in SUBSET Kinds
    BY <1>11 DEF RenewalFails, RetryableFailure, Abandon, Finish
  <2>3. QED BY <1>11, <2>1, <2>2 DEF RenewalFails
<1>12. CASE SendReserve
  BY <1>12 DEF SendReserve, Send, Sent
<1>13. CASE SendSettle
  BY <1>13 DEF SendSettle, Send, Sent
<1>14. CASE ReserveFails
  <2>1. call' \in [Goroutines -> [kind : Kinds \cup {"none"},
                                  answer : Answers \cup {NoAnswer}]]
    BY <1>14 DEF ReserveFails, RetryableFailure, Abandon, Finish, NoCall
  <2>2. orphans' \in SUBSET Kinds
    BY <1>14 DEF ReserveFails, RetryableFailure, Abandon, Finish
  <2>3. QED BY <1>14, <2>1, <2>2 DEF ReserveFails
<1>15. CASE SettleFails
  <2>1. call' \in [Goroutines -> [kind : Kinds \cup {"none"},
                                  answer : Answers \cup {NoAnswer}]]
    BY <1>15 DEF SettleFails, RetryableFailure, Abandon, Finish, NoCall
  <2>2. orphans' \in SUBSET Kinds
    BY <1>15 DEF SettleFails, RetryableFailure, Abandon, Finish
  <2>3. QED BY <1>15, <2>1, <2>2 DEF SettleFails
<1>16. CASE ReserveGivesUp
  <2>1. call' \in [Goroutines -> [kind : Kinds \cup {"none"},
                                  answer : Answers \cup {NoAnswer}]]
    BY <1>16 DEF ReserveGivesUp, Abandon, Finish, NoCall
  <2>2. orphans' \in SUBSET Kinds
    BY <1>16 DEF ReserveGivesUp, Abandon, Finish
  <2>3. QED BY <1>16, <2>1, <2>2 DEF ReserveGivesUp
<1>17. CASE KeepReservation
  <2>1. call["main"].answer \in Answers
    BY <1>17 DEF KeepReservation, NoAnswer
  <2>2. held' \in [expires : Nat, length : Leases \cup {0}] /\ floor' \in Nat
    <3> DEFINE lease == call["main"].answer.lease
    <3>1. lease \in Leases \cup {0} /\ lease \in Nat
      BY <2>1, AnswerLease
    <3>2. \/ /\ held' = [expires |-> sent + lease, length |-> lease]
             /\ floor' = Min2(Second, lease \div 10)
          \/ held' = held /\ floor' = floor
      BY <1>17 DEF KeepReservation, newLease
    <3> HIDE DEF lease
    <3>3. QED BY <3>1, <3>2 DEF Min2
  <2>3. QED BY <1>17, <2>2 DEF KeepReservation, Finish, NoCall
<1>18. CASE BeginSettle
  BY <1>18 DEF BeginSettle
<1>19. CASE StopReturns
  BY <1>19 DEF StopReturns
<1>20. CASE StopLease
  BY <1>20 DEF StopLease, Finish, NoCall
<1>21. CASE UNCHANGED vars
  BY <1>21 DEF vars
<1>22. QED
  BY <1>1, <1>2, <1>3, <1>4, <1>5, <1>6, <1>7, <1>8, <1>9, <1>10, <1>11,
     <1>12, <1>13, <1>14, <1>15, <1>16, <1>17, <1>18, <1>19, <1>20, <1>21
  DEF Next, KeeperStep, MainStep, Environment

\* The first state has them.
LEMMA InitType == Init => TypeOK
<1> SUFFICES ASSUME Init PROVE TypeOK
  OBVIOUS
<1>1. call \in [Goroutines -> [kind : Kinds \cup {"none"},
                               answer : Answers \cup {NoAnswer}]]
  BY DEF Init, NoCall
<1>2. hold \in [state : {"none", "open", "settled"}, expires : Nat,
                lease : Leases \cup {0}]
  BY DEF Init
<1>3. held \in [expires : Nat, length : Leases \cup {0}]
  BY DEF Init
<1>4. QED BY <1>1, <1>2, <1>3 DEF Init, TypeOK

\* The type invariant: HoldKeeper's variables keep the values the code's
\* lease, timer, contexts and calls can take.
THEOREM TypeCorrect == Spec => []TypeOK
BY InitType, TypeInductive, PTL DEF Spec

-----------------------------------------------------------------------------
(* What Metering's answer says about the hold, whichever call it answers.  *)

\* What Metering may do to a hold: settle it for a settlement only, and never
\* shorten it.
LEMMA ServeFacts ==
  ASSUME TypeOK, now' = now, NEW kind \in Kinds, NEW answer \in Answers,
         Serve(kind, answer)
  PROVE  /\ hold'.state = "settled" => hold.state = "settled" \/ kind = "settle"
         /\ hold.state # "none" =>
              /\ hold'.state # "none"
              /\ hold'.lease = hold.lease
              /\ hold'.expires >= hold.expires
              /\ HoldLive' => HoldLive
         /\ hold.state = "none" /\ hold'.state # "none" =>
              hold'.expires = now + hold'.lease
         /\ kind = "reserve" /\ answer.status = "ok" =>
              hold'.state # "none" /\ answer.lease = hold'.lease
         /\ kind = "renew" /\ answer.status = "ok" =>
              now + answer.lease <= hold'.expires
         /\ kind = "renew" /\ answer.status = "rejected" => ~HoldLive'
         /\ kind = "settle" /\ answer.status \in {"ok", "rejected"} => ~HoldLive'
<1> USE LeaseIsNat DEF TypeOK, Kinds, HoldLive, Ok, Rejected, Failed
<1>1. CASE kind = "reserve" /\ ServeReserve(answer)
  BY <1>1 DEF ServeReserve
<1>2. CASE kind = "renew" /\ ServeRenew(answer)
  <2>1. CASE HoldLive
    <3>1. PICK lease \in Leases :
            /\ hold' = [hold EXCEPT !.expires = Max2(hold.expires, now + lease)]
            /\ answer = Ok(lease)
      BY <1>2, <2>1 DEF ServeRenew
    <3>2. lease \in Nat
      BY <3>1
    <3>3. hold'.expires = Max2(hold.expires, now + lease)
      BY <3>1
    <3>4. hold'.state = hold.state /\ hold'.lease = hold.lease
      BY <3>1
    <3>5. hold'.expires >= hold.expires /\ now + lease <= hold'.expires
      BY <3>2, <3>3 DEF Max2
    <3>6. QED BY <1>2, <2>1, <3>1, <3>4, <3>5
  <2>2. CASE ~HoldLive
    BY <1>2, <2>2 DEF ServeRenew
  <2>3. QED BY <2>1, <2>2
<1>3. CASE kind = "settle" /\ ServeSettle(answer)
  BY <1>3 DEF ServeSettle
<1>4. CASE answer = Failed /\ UNCHANGED hold
  BY <1>4
<1>5. QED BY <1>1, <1>2, <1>3, <1>4 DEF Serve

-----------------------------------------------------------------------------
(* Every step preserves the inductive invariant.                           *)

\* An answer of Metering preserves the invariant.
LEMMA AnswerPreserves ==
  ASSUME IInv, TypeOK', NEW g \in Goroutines, MeteringAnswers(g)
  PROVE  IInv'
<1> USE DEF IInv, keeperVars, Goroutines, Settling
<1>1. PICK answer \in Answers :
        /\ Serve(call[g].kind, answer)
        /\ call' = [call EXCEPT ![g] = [kind |-> call[g].kind, answer |-> answer]]
  BY DEF MeteringAnswers
<1> DEFINE kind == call[g].kind
<1>2. kind \in Kinds
  BY DEF MeteringAnswers, TypeOK
<1>3. UNCHANGED <<now, orphans, main, sent, tries, pc, held, floor, timer,
                  canceled, lost>>
  BY DEF MeteringAnswers
<1>4. /\ call'[g].kind = kind /\ call'[g].answer = answer
      /\ \A h \in Goroutines : h # g => call'[h] = call[h]
  BY <1>1 DEF TypeOK
<1>5. /\ hold'.state = "settled" => hold.state = "settled" \/ kind = "settle"
      /\ hold.state # "none" =>
           /\ hold'.state # "none"
           /\ hold'.lease = hold.lease
           /\ hold'.expires >= hold.expires
           /\ HoldLive' => HoldLive
      /\ hold.state = "none" /\ hold'.state # "none" =>
           hold'.expires = now + hold'.lease
      /\ kind = "reserve" /\ answer.status = "ok" =>
           hold'.state # "none" /\ answer.lease = hold'.lease
      /\ kind = "renew" /\ answer.status = "ok" =>
           now + answer.lease <= hold'.expires
      /\ kind = "renew" /\ answer.status = "rejected" => ~HoldLive'
      /\ kind = "settle" /\ answer.status \in {"ok", "rejected"} => ~HoldLive'
  BY <1>1, <1>2, <1>3, ServeFacts
<1>6. kind # "none"
  BY DEF MeteringAnswers
<1> HIDE DEF kind
<1>7. CallsInPlace'
  BY <1>3, <1>4, <1>6 DEF CallsInPlace, NoCall, kind
<1>8. SettledByRequest' /\ HoldExists'
  BY <1>3, <1>5 DEF SettledByRequest, HoldExists, CallsInPlace, kind, NoCall
<1>9. ASSUME g = "main"
     PROVE  ReservationFacts' /\ LeaseFacts' /\ SettlementFacts'
  <2>1. /\ kind = call["main"].kind /\ call'["main"].answer = answer
        /\ call'["keeper"] = call["keeper"]
        /\ main = "reserving" => kind = "reserve"
        /\ main = "settling" => kind = "settle"
    BY <1>4, <1>6, <1>9 DEF CallsInPlace, kind
  <2>2. ReservationFacts'
    BY <1>3, <1>5, <2>1, LeaseIsNat DEF ReservationFacts, TypeOK
  <2>3. call["keeper"].answer.status = "ok" => pc # "off"
    BY DEF CallsInPlace, NoCall, NoAnswer
  <2>4. call["keeper"].answer \in Answers \cup {NoAnswer}
    BY DEF TypeOK
  <2>5. hold.state # "none" \/ pc = "off"
    BY DEF HoldExists, ReservationFacts
  <2>6. call["keeper"].answer.status = "rejected" => pc # "off"
    BY DEF CallsInPlace, NoCall, NoAnswer
  <2>7. LeaseFacts'
    BY <1>3, <1>5, <2>1, <2>3, <2>4, <2>5, <2>6, AnswerLease
    DEF LeaseFacts, TypeOK, NoAnswer
  <2>8. SettlementFacts'
    BY <1>3, <1>5, <2>1 DEF SettlementFacts
  <2>9. QED BY <2>2, <2>7, <2>8
<1>10. ASSUME g = "keeper"
      PROVE  ReservationFacts' /\ LeaseFacts' /\ SettlementFacts'
  <2>1. /\ kind = "renew" /\ pc = "renew" /\ call'["keeper"].answer = answer
        /\ call'["main"] = call["main"]
    BY <1>4, <1>6, <1>10 DEF CallsInPlace, kind, NoCall
  <2>2. ReservationFacts'
    BY <1>3, <2>1 DEF ReservationFacts
  <2>3. hold.state # "none"
    BY <2>1 DEF HoldExists, ReservationFacts
  <2>4. LeaseFacts'
    BY <1>3, <1>5, <2>1, <2>3, AnswerLease DEF LeaseFacts, TypeOK
  <2>5. SettlementFacts'
    BY <1>3, <1>5, <2>1, <2>3 DEF SettlementFacts
  <2>6. QED BY <2>2, <2>4, <2>5
<1>11. ReservationFacts' /\ LeaseFacts' /\ SettlementFacts'
  BY <1>9, <1>10
<1>12. TimerFacts' /\ KeeperFacts'
  BY <1>3 DEF TimerFacts, KeeperFacts
<1>13. LostMeansDead' /\ ReleasedUnlessExhausted'
  BY <1>3, <1>5 DEF LostMeansDead, ReleasedUnlessExhausted, HoldExists,
                    KeeperFacts, ReservationFacts, LeaseFacts, TypeOK
<1>14. QED
  BY <1>3, <1>7, <1>8, <1>11, <1>12, <1>13

\* A call that the gateway gave up on and that arrives late preserves it.
LEMMA OrphanPreserves ==
  ASSUME IInv, TypeOK', NEW kind \in Kinds, OrphanArrives(kind)
  PROVE  IInv'
<1> USE DEF IInv, keeperVars, Goroutines, Settling
<1>1. PICK answer \in Answers : Serve(kind, answer)
  BY DEF OrphanArrives
<1>2. /\ UNCHANGED <<now, call, main, sent, tries, pc, held, floor, timer,
                     canceled, lost>>
      /\ orphans' = orphans \ {kind} /\ kind \in orphans
  BY DEF OrphanArrives
<1>3. /\ hold'.state = "settled" => hold.state = "settled" \/ kind = "settle"
      /\ hold.state # "none" =>
           /\ hold'.state # "none"
           /\ hold'.lease = hold.lease
           /\ hold'.expires >= hold.expires
           /\ HoldLive' => HoldLive
      /\ hold.state = "none" /\ hold'.state # "none" =>
           hold'.expires = now + hold'.lease
  BY <1>1, <1>2, ServeFacts
<1>4. CallsInPlace' /\ TimerFacts' /\ KeeperFacts'
  BY <1>2 DEF CallsInPlace, TimerFacts, KeeperFacts
<1>5. SettledByRequest' /\ HoldExists'
  BY <1>2, <1>3 DEF SettledByRequest, HoldExists
<1>6. ReservationFacts'
  BY <1>2, <1>3, LeaseIsNat DEF ReservationFacts, TypeOK
<1>7. LeaseFacts'
  BY <1>2, <1>3, AnswerLease DEF LeaseFacts, CallsInPlace, ReservationFacts,
     HoldExists, TypeOK, NoCall, NoAnswer
<1>8. SettlementFacts'
  BY <1>2, <1>3 DEF SettlementFacts, HoldExists
<1>9. LostMeansDead' /\ ReleasedUnlessExhausted'
  BY <1>2, <1>3 DEF LostMeansDead, ReleasedUnlessExhausted, HoldExists,
                    KeeperFacts, ReservationFacts, LeaseFacts, TypeOK
<1>10. QED
  BY <1>2, <1>4, <1>5, <1>6, <1>7, <1>8, <1>9

\* The clock preserves it.
LEMMA TickPreserves ==
  ASSUME IInv, TypeOK', Tick
  PROVE  IInv'
<1> USE DEF IInv, keeperVars, Settling
<1>1. /\ UNCHANGED <<hold, call, orphans, main, sent, tries, pc, held, floor,
                     timer, canceled, lost>>
      /\ now' = now + 1
  BY DEF Tick
<1>2. HoldLive' => HoldLive
  BY <1>1 DEF HoldLive, TypeOK
<1>3. CallsInPlace' /\ SettledByRequest' /\ HoldExists' /\ ReservationFacts'
  BY <1>1 DEF CallsInPlace, SettledByRequest, HoldExists, ReservationFacts
<1>4. LeaseFacts' /\ SettlementFacts' /\ TimerFacts' /\ KeeperFacts'
  BY <1>1, <1>2 DEF LeaseFacts, SettlementFacts, TimerFacts, KeeperFacts
<1>5. (sent <= now)' /\ LostMeansDead' /\ ReleasedUnlessExhausted'
  BY <1>1, <1>2 DEF LostMeansDead, ReleasedUnlessExhausted, TypeOK
<1>6. QED BY <1>3, <1>4, <1>5

\* The other steps leave the hold and the clock alone.
LEMMA HoldLiveFrame ==
  ASSUME UNCHANGED <<now, hold>>
  PROVE  HoldLive' = HoldLive
BY DEF HoldLive

\* Every step of KeepReservation's goroutine preserves it.
LEMMA KeeperPreserves ==
  ASSUME IInv, TypeOK', KeeperStep
  PROVE  IInv'
<1> USE HoldLiveFrame DEF IInv, Settling
<1>1. CASE KeeperExpires
  BY <1>1 DEF KeeperExpires, SignalLost, remaining, TypeOK, CallsInPlace,
    SettledByRequest, HoldExists, ReservationFacts, LeaseFacts, SettlementFacts,
    TimerFacts, KeeperFacts, LostMeansDead, ReleasedUnlessExhausted
<1>2. CASE ArmTimer
  BY <1>2 DEF ArmTimer, remaining, Min2, Max2, TypeOK, CallsInPlace,
    SettledByRequest, HoldExists, ReservationFacts, LeaseFacts, SettlementFacts,
    TimerFacts, KeeperFacts, LostMeansDead, ReleasedUnlessExhausted
<1>3. CASE KeeperCanceled
  BY <1>3 DEF KeeperCanceled, CallsInPlace,
    SettledByRequest, HoldExists, ReservationFacts, LeaseFacts, SettlementFacts,
    TimerFacts, KeeperFacts, LostMeansDead, ReleasedUnlessExhausted
<1>4. CASE TimerTooLate
  BY <1>4 DEF TimerTooLate, CallsInPlace,
    SettledByRequest, HoldExists, ReservationFacts, LeaseFacts, SettlementFacts,
    TimerFacts, KeeperFacts, LostMeansDead, ReleasedUnlessExhausted
<1>5. CASE SendRenewal
  <2>1. call' = [call EXCEPT !["keeper"] = Sent("renew")]
    BY <1>5 DEF SendRenewal
  <2>2. call'["main"] = call["main"] /\ call'["keeper"] = Sent("renew")
    BY <2>1 DEF TypeOK, Goroutines
  <2>3. CallsInPlace'
    BY <1>5, <2>2 DEF SendRenewal, CallsInPlace, Sent, Goroutines, NoCall
  <2>4. QED
    BY <1>5, <2>2, <2>3 DEF SendRenewal, Sent, NoAnswer, TypeOK,
      SettledByRequest, HoldExists, ReservationFacts, LeaseFacts,
      SettlementFacts, TimerFacts, KeeperFacts, LostMeansDead,
      ReleasedUnlessExhausted
<1>6. CASE Renewed
  <2>1. call' = [call EXCEPT !["keeper"] = NoCall] /\ UNCHANGED orphans
    BY <1>6 DEF Renewed, Finish
  <2>2. call'["main"] = call["main"] /\ call'["keeper"] = NoCall
    BY <2>1 DEF TypeOK, Goroutines
  <2>3. CallsInPlace'
    BY <1>6, <2>2 DEF Renewed, CallsInPlace, Goroutines
  <2>4. call["keeper"].answer.lease \in Nat
    BY <1>6, AnswerLease DEF Renewed, TypeOK, Goroutines, NoAnswer
  <2>5. held'.expires <= hold.expires
    BY <1>6, <2>4 DEF Renewed, newLease, LeaseFacts, TypeOK
  <2>6. LeaseFacts'
    BY <1>6, <2>2, <2>5 DEF Renewed, LeaseFacts, NoCall, NoAnswer
  <2>7. QED
    BY <1>6, <2>1, <2>2, <2>3, <2>6 DEF Renewed,
      SettledByRequest, HoldExists, ReservationFacts, SettlementFacts,
      TimerFacts, KeeperFacts, LostMeansDead, ReleasedUnlessExhausted
<1>7. CASE RenewalRejected
  <2>1. call' = [call EXCEPT !["keeper"] = NoCall] /\ UNCHANGED orphans
    BY <1>7 DEF RenewalRejected, Finish
  <2>2. call'["main"] = call["main"] /\ call'["keeper"] = NoCall
    BY <2>1 DEF TypeOK, Goroutines
  <2>3. CallsInPlace'
    BY <1>7, <2>2 DEF RenewalRejected, SignalLost, CallsInPlace, Goroutines
  <2>4. ~HoldLive
    BY <1>7 DEF RenewalRejected, LeaseFacts, Rejected
  <2>5. QED
    BY <1>7, <2>1, <2>2, <2>3, <2>4 DEF RenewalRejected, SignalLost, NoCall,
      NoAnswer, SettledByRequest, HoldExists, ReservationFacts, LeaseFacts,
      SettlementFacts, TimerFacts, KeeperFacts, LostMeansDead,
      ReleasedUnlessExhausted
<1>8. CASE RenewalFails
  <2>1. call' = [call EXCEPT !["keeper"] = NoCall]
    BY <1>8 DEF RenewalFails, RetryableFailure, Abandon, Finish
  <2>2. call'["main"] = call["main"] /\ call'["keeper"] = NoCall
    BY <2>1 DEF TypeOK, Goroutines
  <2>3. CallsInPlace'
    BY <1>8, <2>2 DEF RenewalFails, CallsInPlace, Goroutines
  <2>4. orphans' \subseteq orphans \cup {"renew"}
    BY <1>8 DEF RenewalFails, RetryableFailure, Abandon, Finish, CallsInPlace
  <2>5. SettledByRequest'
    BY <1>8, <2>4 DEF RenewalFails, SettledByRequest
  <2>6. QED
    BY <1>8, <2>2, <2>3, <2>5 DEF RenewalFails, NoCall, NoAnswer,
      HoldExists, ReservationFacts, LeaseFacts, SettlementFacts,
      TimerFacts, KeeperFacts, LostMeansDead, ReleasedUnlessExhausted
<1>9. QED
  BY <1>1, <1>2, <1>3, <1>4, <1>5, <1>6, <1>7, <1>8 DEF KeeperStep

\* Every step of the request's goroutine preserves it.
LEMMA MainPreserves ==
  ASSUME IInv, TypeOK', MainStep
  PROVE  IInv'
<1> USE HoldLiveFrame DEF IInv, Settling
<1>1. CASE SendReserve
  <2>1. call' = [call EXCEPT !["main"] = Sent("reserve")]
    BY <1>1 DEF SendReserve, Send
  <2>2. call'["keeper"] = call["keeper"] /\ call'["main"] = Sent("reserve")
    BY <2>1 DEF TypeOK, Goroutines
  <2>3. CallsInPlace'
    BY <1>1, <2>2 DEF SendReserve, keeperVars, CallsInPlace, Sent, Goroutines, NoCall
  <2>4. QED
    BY <1>1, <2>2, <2>3 DEF SendReserve, Sent, NoAnswer, keeperVars,
      SettledByRequest, HoldExists, ReservationFacts, LeaseFacts,
      SettlementFacts, TimerFacts, KeeperFacts, LostMeansDead,
      ReleasedUnlessExhausted
<1>2. CASE SendSettle
  <2>1. call' = [call EXCEPT !["main"] = Sent("settle")]
    BY <1>2 DEF SendSettle, Send
  <2>2. call'["keeper"] = call["keeper"] /\ call'["main"] = Sent("settle")
    BY <2>1 DEF TypeOK, Goroutines
  <2>3. CallsInPlace'
    BY <1>2, <2>2 DEF SendSettle, keeperVars, CallsInPlace, Sent, Goroutines, NoCall
  <2>4. QED
    BY <1>2, <2>2, <2>3 DEF SendSettle, Sent, NoAnswer, keeperVars,
      SettledByRequest, HoldExists, ReservationFacts, LeaseFacts,
      SettlementFacts, TimerFacts, KeeperFacts, LostMeansDead,
      ReleasedUnlessExhausted
<1>3. CASE ReserveFails
  <2>1. call' = [call EXCEPT !["main"] = NoCall]
    BY <1>3 DEF ReserveFails, RetryableFailure, Abandon, Finish
  <2>2. call'["keeper"] = call["keeper"] /\ call'["main"] = NoCall
    BY <2>1 DEF TypeOK, Goroutines
  <2>3. orphans' \subseteq orphans \cup {"reserve"}
    BY <1>3 DEF ReserveFails, RetryableFailure, Abandon, Finish, Calling
  <2>4. CallsInPlace' /\ SettledByRequest'
    BY <1>3, <2>2, <2>3 DEF ReserveFails, keeperVars, CallsInPlace, Goroutines, NoCall,
      SettledByRequest
  <2>5. QED
    BY <1>3, <2>2, <2>4 DEF ReserveFails, NoCall, NoAnswer, keeperVars,
      HoldExists, ReservationFacts, LeaseFacts, SettlementFacts, TimerFacts,
      KeeperFacts, LostMeansDead, ReleasedUnlessExhausted
<1>4. CASE SettleFails
  <2>1. call' = [call EXCEPT !["main"] = NoCall]
    BY <1>4 DEF SettleFails, RetryableFailure, Abandon, Finish
  <2>2. call'["keeper"] = call["keeper"] /\ call'["main"] = NoCall
    BY <2>1 DEF TypeOK, Goroutines
  <2>3. orphans' \subseteq orphans \cup {"settle"}
    BY <1>4 DEF SettleFails, RetryableFailure, Abandon, Finish, Calling
  <2>4. CallsInPlace' /\ SettledByRequest'
    BY <1>4, <2>2, <2>3 DEF SettleFails, keeperVars, CallsInPlace, Goroutines, NoCall,
      SettledByRequest
  <2>5. QED
    BY <1>4, <2>2, <2>4 DEF SettleFails, NoCall, NoAnswer, keeperVars,
      HoldExists, ReservationFacts, LeaseFacts, SettlementFacts, TimerFacts,
      KeeperFacts, LostMeansDead, ReleasedUnlessExhausted
<1>5. CASE ReserveGivesUp
  <2>1. call' = [call EXCEPT !["main"] = NoCall]
    BY <1>5 DEF ReserveGivesUp, Abandon, Finish
  <2>2. call'["keeper"] = call["keeper"] /\ call'["main"] = NoCall
    BY <2>1 DEF TypeOK, Goroutines
  <2>3. orphans' \subseteq orphans \cup {"reserve"}
    BY <1>5 DEF ReserveGivesUp, Abandon, Finish, Calling, CallsInPlace
  <2>4. CallsInPlace' /\ SettledByRequest'
    BY <1>5, <2>2, <2>3 DEF ReserveGivesUp, keeperVars, CallsInPlace,
      Goroutines, SettledByRequest
  <2>5. QED
    BY <1>5, <2>2, <2>4 DEF ReserveGivesUp, NoCall, NoAnswer, keeperVars,
      HoldExists, ReservationFacts, LeaseFacts, SettlementFacts, TimerFacts,
      KeeperFacts, LostMeansDead, ReleasedUnlessExhausted
<1>6. CASE KeepReservation
  <2>1. call' = [call EXCEPT !["main"] = NoCall] /\ UNCHANGED orphans
    BY <1>6 DEF KeepReservation, Finish
  <2>2. call'["keeper"] = call["keeper"] /\ call'["main"] = NoCall
    BY <2>1 DEF TypeOK, Goroutines
  <2>3. /\ call["keeper"] = NoCall /\ pc = "off" /\ hold.state # "none"
        /\ call["main"].answer.lease = hold.lease
        /\ sent + hold.lease <= hold.expires
    BY <1>6 DEF KeepReservation, ReservationFacts, CallsInPlace
  <2>4. CallsInPlace'
    BY <1>6, <2>2, <2>3 DEF KeepReservation, CallsInPlace, Goroutines, NoCall
  <2>5. \/ pc' = "top" /\ hold.lease > 0 /\ held'.expires = sent + hold.lease
        \/ pc' = "off" /\ held' = held
    BY <1>6, <2>3 DEF KeepReservation, newLease
  <2>6. LeaseFacts'
    BY <1>6, <2>2, <2>3, <2>5 DEF KeepReservation, LeaseFacts, NoCall, NoAnswer
  <2>7. lost' = FALSE
    BY <1>6, <2>3 DEF KeepReservation, KeeperFacts, TypeOK
  <2>8. QED
    BY <1>6, <2>1, <2>2, <2>3, <2>4, <2>5, <2>6, <2>7 DEF KeepReservation,
      SettledByRequest, HoldExists, ReservationFacts, SettlementFacts,
      TimerFacts, KeeperFacts, LostMeansDead, ReleasedUnlessExhausted
<1>7. CASE BeginSettle
  BY <1>7 DEF BeginSettle, keeperVars, CallsInPlace, NoCall, NoAnswer,
    SettledByRequest, HoldExists, ReservationFacts, LeaseFacts, SettlementFacts,
    TimerFacts, KeeperFacts, LostMeansDead, ReleasedUnlessExhausted
<1>8. CASE StopLease
  <2>1. call' = [call EXCEPT !["main"] = NoCall] /\ UNCHANGED orphans
    BY <1>8 DEF StopLease, Finish
  <2>2. call'["keeper"] = call["keeper"] /\ call'["main"] = NoCall
    BY <2>1 DEF TypeOK, Goroutines
  <2>3. CallsInPlace'
    BY <1>8, <2>2 DEF StopLease, CallsInPlace, Goroutines, NoCall
  <2>4. ReleasedUnlessExhausted'
    BY <1>8 DEF StopLease, SettlementFacts, ReleasedUnlessExhausted
  <2>5. QED
    BY <1>8, <2>1, <2>2, <2>3, <2>4 DEF StopLease,
      SettledByRequest, HoldExists, ReservationFacts, LeaseFacts,
      SettlementFacts, TimerFacts, KeeperFacts, LostMeansDead
<1>9. CASE StopReturns
  BY <1>9 DEF StopReturns, keeperVars, CallsInPlace, NoCall, NoAnswer,
    SettledByRequest, HoldExists, ReservationFacts, LeaseFacts, SettlementFacts,
    TimerFacts, KeeperFacts, LostMeansDead, ReleasedUnlessExhausted
<1>10. QED
  BY <1>1, <1>2, <1>3, <1>4, <1>5, <1>6, <1>7, <1>8, <1>9 DEF MainStep

\* The invariant holds in every behaviour.
LEMMA InductiveInvariant == Spec => []IInv
<1>1. Init => IInv
  <2> SUFFICES ASSUME Init PROVE IInv
    OBVIOUS
  <2>1. TypeOK
    BY InitType
  <2>2. QED
    BY <2>1 DEF Init, IInv, Settling, CallsInPlace, NoCall, NoAnswer, Goroutines,
      SettledByRequest, HoldExists, ReservationFacts, LeaseFacts,
      SettlementFacts, TimerFacts, KeeperFacts, LostMeansDead,
      ReleasedUnlessExhausted
<1>2. IInv /\ [Next]_vars => IInv'
  <2> SUFFICES ASSUME IInv, [Next]_vars PROVE IInv'
    OBVIOUS
  <2>1. TypeOK'
    BY TypeInductive DEF IInv
  <2>2. CASE KeeperStep
    BY <2>1, <2>2, KeeperPreserves
  <2>3. CASE MainStep
    BY <2>1, <2>3, MainPreserves
  <2>4. CASE Environment
    BY <2>1, <2>4, AnswerPreserves, OrphanPreserves, TickPreserves
    DEF Environment
  <2>5. CASE UNCHANGED vars
    BY <2>5 DEF vars, IInv, TypeOK, Settling, HoldLive, CallsInPlace, NoCall,
      SettledByRequest, HoldExists, ReservationFacts, LeaseFacts,
      SettlementFacts, TimerFacts, KeeperFacts, LostMeansDead,
      ReleasedUnlessExhausted
  <2>6. QED BY <2>2, <2>3, <2>4, <2>5 DEF Next
<1>3. QED BY <1>1, <1>2, PTL DEF Spec

-----------------------------------------------------------------------------
(* The theorems.                                                           *)

\* However often Reserve is retried, however late its answer or a renewal's
\* comes, and whatever leases Metering grants, the keeper never counts on a
\* hold that Metering has already let go.
THEOREM LeaseSafety == Spec => []LeaseNeverOutlasts
<1>1. IInv => LeaseNeverOutlasts
  BY DEF IInv, TypeOK, LeaseNeverOutlasts, Keeping, Settling, HoldLive, HoldExists,
    ReservationFacts, LeaseFacts, SettledByRequest
<1>2. QED BY <1>1, InductiveInvariant, PTL

\* onLost runs only for a hold that cannot be relied on.
THEOREM LostSafety == Spec => []LostMeansDead
<1>1. IInv => LostMeansDead
  BY DEF IInv
<1>2. QED BY <1>1, InductiveInvariant, PTL

\* A hold is still live after stop only if each try to settle it failed.
THEOREM ReleaseSafety == Spec => []ReleasedUnlessExhausted
<1>1. IInv => ReleasedUnlessExhausted
  BY DEF IInv
<1>2. QED BY <1>1, InductiveInvariant, PTL

\* KeepReservation's renewals are at least floor apart.
THEOREM SpacedRenewals == Spec => RenewalsSpaced
<1>1. IInv /\ [Next]_vars => [pc = "wait" /\ pc' = "renew" => now - sent >= floor]_vars
  <2> SUFFICES ASSUME IInv, Next, pc = "wait", pc' = "renew"
               PROVE  now - sent >= floor
    OBVIOUS
  <2>1. now >= timer /\ remaining > 0
    BY DEF Next, KeeperStep, MainStep, Environment, keeperVars,
      KeeperExpires, SignalLost, ArmTimer, KeeperCanceled, TimerTooLate,
      SendRenewal, Renewed, RenewalRejected, RenewalFails,
      SendReserve, ReserveFails, ReserveGivesUp, KeepReservation, BeginSettle,
      SendSettle, SettleFails, StopLease, StopReturns,
      MeteringAnswers, OrphanArrives, Tick
  <2>2. QED BY <2>1 DEF IInv, TimerFacts, remaining, TypeOK
<1>2. QED BY <1>1, InductiveInvariant, PTL DEF Spec, RenewalsSpaced

\* After stop returned, the keeper sends nothing and cannot call onLost.
THEOREM StopIsFinal == Spec => StoppedIsFinal
<1>1. IInv /\ [Next]_vars => [main = "stopped" => lost' = lost /\ call' = call]_vars
  <2> SUFFICES ASSUME IInv, Next, main = "stopped"
               PROVE  lost' = lost /\ call' = call
    OBVIOUS
  <2>1. pc \in {"off", "done"} /\ \A g \in Goroutines : call[g] = NoCall
    BY DEF IInv, KeeperFacts, CallsInPlace, Goroutines
  <2>2. CASE KeeperStep
    BY <2>1, <2>2 DEF KeeperStep, KeeperExpires, ArmTimer, KeeperCanceled,
      TimerTooLate, SendRenewal, Renewed, RenewalRejected, RenewalFails
  <2>3. CASE MainStep
    BY <2>3 DEF MainStep, SendReserve, ReserveFails, ReserveGivesUp,
      KeepReservation, BeginSettle, SendSettle, SettleFails, StopLease,
      StopReturns
  <2>4. CASE Environment
    BY <2>1, <2>4 DEF Environment, MeteringAnswers, OrphanArrives, Tick,
      keeperVars, NoCall
  <2>5. QED BY <2>2, <2>3, <2>4 DEF Next
<1>2. QED BY <1>1, InductiveInvariant, PTL DEF Spec, StoppedIsFinal

=============================================================================
