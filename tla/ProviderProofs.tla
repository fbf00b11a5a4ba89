---------------------------- MODULE ProviderProofs ----------------------------
(***************************************************************************)
(* Theorems about what reaches a provider, for every set of statuses and   *)
(* limits and for all retry budgets: how often a request is sent           *)
(* (ProviderCall), which output limit it carries (RequestBody), and how    *)
(* its silence ends one exchange with it (SilenceGuard), for every timeout *)
(* and any number of callbacks.                                            *)
(***************************************************************************)
EXTENDS ProviderCall, RequestBody, SilenceGuard, TLAPS

-----------------------------------------------------------------------------
(* ProviderCall: the inductive invariant.                                  *)

TypeOK ==
  /\ call \in Calls
  /\ pc \in {"start", "verify", "send", "sent", "failed", "sleep", "done"}
  /\ ctx \in {"live", "canceled"}
  /\ failure \in [status : Statuses \cup {NoStatus, CanceledStatus}, text : Text]
  /\ invalidTraceRetries \in Nat /\ serverOverloadRetries \in Nat
  /\ sends \in Nat /\ ran \in Nat

\* Each request but the first was paid for out of a budget.
Budgeted ==
  /\ invalidTraceRetries <= maxInvalidTraceRetries
  /\ serverOverloadRetries <= maxServerOverloadRetries
  /\ sends <= invalidTraceRetries + serverOverloadRetries
                + (IF pc \in {"sent", "failed", "done"} THEN 1 ELSE 0)

\* Nothing has run while a request may still be sent: a failure that may be
\* repeated is a refusal.
NotRunYet ==
  /\ ran <= 1
  /\ pc \notin {"failed", "done"} => ran = 0
  /\ pc = "failed" /\ failure.status \in 400 .. 499 => ran = 0

\* A failure by cancellation means that the context was canceled.
Canceled == pc = "failed" /\ failure.status = CanceledStatus => ctx = "canceled"

Result == pc = "done" => result = NoError \/ result \in ProviderErrors(Statuses, ctx = "live")

CInv == TypeOK /\ Budgeted /\ NotRunYet /\ Canceled /\ Result

-----------------------------------------------------------------------------
(* ProviderCall: facts and steps.                                          *)

\* The errors the adapters name themselves are among a provider's.
LEMMA OwnErrors ==
  ASSUME NEW live
  PROVE  /\ ErrInternal \in ProviderErrors(Statuses, live)
         /\ NetworkErrors \subseteq ProviderErrors(Statuses, live)
         /\ ErrProviderUnavailable \in ProviderErrors(Statuses, live)
         /\ ErrProviderError(502) \in ProviderErrors(Statuses, live)
<1>1. ErrProviderUnavailable \in NetworkErrors /\ ErrProviderError(502) \in NetworkErrors
  BY DEF NetworkErrors
<1>2. NetworkErrors \subseteq ProviderErrors(Statuses, live)
  BY DEF ProviderErrors
<1>3. ErrInternal \in ProviderErrors(Statuses, live)
  BY DEF ProviderErrors
<1> QED
  BY <1>1, <1>2, <1>3

\* Every failure is mapped to an error Proxy knows of.
LEMMA MappedFact ==
  ASSUME TypeOK, Canceled, pc = "failed", NEW e \in Mapped(failure)
  PROVE  e \in ProviderErrors(Statuses, ctx = "live")
<1>1. failure.status \in Statuses \cup {NoStatus, CanceledStatus}
  BY DEF TypeOK
<1>2. CASE failure.status = CanceledStatus
  <2> DEFINE mapped == {ErrClientCanceled, ErrProviderError(502)}
  <2> HIDE DEF mapped
  <2>0. Mapped(failure) = mapped
    BY <1>2 DEF Mapped, mapped
  <2>1. e = ErrClientCanceled \/ e = ErrProviderError(502)
    BY <2>0 DEF mapped
  <2>2. ctx # "live"
    BY <1>2 DEF Canceled
  <2>3. ErrClientCanceled \in ProviderErrors(Statuses, ctx = "live")
    BY <2>2 DEF ProviderErrors
  <2> QED
    BY <2>1, <2>3, OwnErrors
<1>3. CASE failure.status = NoStatus
  <2>0. failure.status # CanceledStatus
    BY <1>3 DEF NoStatus, CanceledStatus
  <2>1. e \in NetworkErrors
    BY <1>3, <2>0 DEF Mapped
  <2> QED
    BY <2>1, OwnErrors
<1>4. CASE failure.status \in Statuses
  <2>1. failure.status \in 400 .. 599
    BY <1>4, CallAssumption
  <2>2. e \in TypeSafeErrors({failure.status}) \/ e = mapProviderError(failure.status)
    BY <2>1 DEF Mapped, NoStatus, CanceledStatus
  <2>3. TypeSafeErrors({failure.status}) \subseteq TypeSafeErrors(Statuses)
    BY <1>4 DEF TypeSafeErrors
  <2> QED
    BY <1>4, <2>2, <2>3 DEF ProviderErrors
<1> QED
  BY <1>1, <1>2, <1>3, <1>4

\* A call that is about to start.
LEMMA CallInit == Init => CInv
<1> SUFFICES ASSUME Init PROVE CInv
  OBVIOUS
<1> USE CallAssumption DEF Init
<1>1. TypeOK
  BY DEF TypeOK, Text
<1>2. Budgeted /\ NotRunYet /\ Canceled /\ Result
  BY DEF Budgeted, NotRunYet, Canceled, Result
<1> QED
  BY <1>1, <1>2 DEF CInv

\* The steps before and between requests send nothing and run nothing.
LEMMA WaitingSteps == ASSUME CInv, Start \/ Verify \/ Slept PROVE CInv'
<1> USE DEF CInv
<1>1. /\ pc \in {"start", "verify", "sleep"} /\ pc' \in {"verify", "send", "done"}
      /\ UNCHANGED <<call, ctx, failure, budgets, sends, ran>>
  BY DEF Start, Verify, Slept
<1>2. pc' = "done" => result' \in ProviderErrors(Statuses, ctx = "live")
  BY OwnErrors DEF Start, Verify, Slept
<1> USE <1>1 DEF budgets
<1>3. TypeOK'
  BY DEF TypeOK
<1>4. Budgeted'
  BY CallAssumption DEF Budgeted, TypeOK
<1>5. NotRunYet' /\ Canceled'
  BY DEF NotRunYet, Canceled
<1>6. Result'
  BY <1>2 DEF Result
<1> QED
  BY <1>3, <1>4, <1>5, <1>6

\* A request leaves only under a live context.
LEMMA SendStep == ASSUME CInv, Send PROVE CInv'
<1> USE DEF CInv, Send, budgets
<1>0. failure' \in [status : Statuses \cup {NoStatus, CanceledStatus}, text : Text]
  <2>1. CASE UNCHANGED failure
    BY <2>1 DEF TypeOK
  <2>2. CASE failure' = [status |-> CanceledStatus, text |-> "other"]
    BY <2>2 DEF Text
  <2> QED
    BY <2>1, <2>2
<1>1. TypeOK'
  BY <1>0 DEF TypeOK
<1>2. Budgeted'
  BY DEF Budgeted, TypeOK
<1>3. ran' = 0 /\ pc' # "done"
  BY DEF NotRunYet
<1>4. NotRunYet' /\ Result'
  BY <1>3 DEF NotRunYet, Result
<1>5. Canceled'
  BY DEF Canceled
<1> QED
  BY <1>1, <1>2, <1>4, <1>5

\* An answer ends the call.
LEMMA SucceedsStep == ASSUME CInv, Succeeds PROVE CInv'
<1> USE DEF CInv, Succeeds, budgets
<1>1. TypeOK'
  BY DEF TypeOK
<1>2. Budgeted'
  BY DEF Budgeted, TypeOK
<1>3. NotRunYet' /\ Canceled' /\ Result'
  BY DEF NotRunYet, Canceled, Result, TypeOK
<1> QED
  BY <1>1, <1>2, <1>3

\* A refusal says that nothing was run; a failure does not.
LEMMA RefusedStep == ASSUME CInv, Refused PROVE CInv'
<1> USE DEF CInv
<1>1. PICK status \in Statuses, text \in Text :
        /\ failure' = [status |-> status, text |-> text]
        /\ ran' = IF status >= 500 THEN ran + 1 ELSE ran
  BY DEF Refused
<1>2. pc = "sent" /\ pc' = "failed" /\ UNCHANGED <<call, ctx, budgets, sends, result>>
  BY DEF Refused
<1>3. status \in 400 .. 599 /\ failure'.status = status
  BY <1>1, CallAssumption
<1> USE DEF budgets
<1>4. TypeOK'
  BY <1>1, <1>2 DEF TypeOK
<1>5. Budgeted'
  BY <1>2 DEF Budgeted, TypeOK
<1>6. NotRunYet'
  BY <1>1, <1>2, <1>3 DEF NotRunYet, TypeOK
<1>7. Canceled' /\ Result'
  BY <1>2, <1>3 DEF Canceled, Result, CanceledStatus
<1> QED
  BY <1>4, <1>5, <1>6, <1>7

\* Without an answer the request counts as run.
LEMMA BreaksStep == ASSUME CInv, Breaks PROVE CInv'
<1> USE DEF CInv
<1>1. /\ failure' \in [status : {NoStatus, CanceledStatus}, text : {"other"}]
      /\ failure'.status = CanceledStatus => ctx # "live"
  <2>1. CASE ctx = "live"
    <3>1. failure' \in [status : {NoStatus}, text : {"other"}]
      BY <2>1 DEF Breaks
    <3> QED
      BY <3>1 DEF NoStatus, CanceledStatus
  <2>2. CASE ctx # "live"
    <3>1. failure' \in [status : {NoStatus} \cup {CanceledStatus}, text : {"other"}]
      BY <2>2 DEF Breaks
    <3> QED
      BY <2>2, <3>1
  <2> QED
    BY <2>1, <2>2
<1>2. pc = "sent" /\ pc' = "failed" /\ ran' = ran + 1
      /\ UNCHANGED <<call, ctx, budgets, sends, result>>
  BY DEF Breaks
<1> USE DEF budgets
<1>3. TypeOK'
  <2>1. failure' \in [status : Statuses \cup {NoStatus, CanceledStatus}, text : Text]
    BY <1>1 DEF Text
  <2> QED
    BY <1>2, <2>1 DEF TypeOK
<1>4. Budgeted'
  BY <1>2 DEF Budgeted, TypeOK
<1>5. failure'.status \notin 400 .. 499
  BY <1>1 DEF NoStatus, CanceledStatus
<1>6. NotRunYet' /\ Result'
  BY <1>2, <1>5 DEF NotRunYet, Result, TypeOK
<1>7. Canceled'
  BY <1>1, <1>2 DEF Canceled, TypeOK
<1> QED
  BY <1>3, <1>4, <1>6, <1>7

\* A repetition follows a refusal, and its budget pays for it.
LEMMA RetryStep == ASSUME CInv, Retry PROVE CInv'
<1> USE DEF CInv
<1>1. pc = "failed" /\ pc' = "sleep" /\ canSpendSameBodyRetry(retryReason)
      /\ UNCHANGED <<call, ctx, failure, sends, ran, result>>
  BY DEF Retry
<1>2. retryReason \in {"overload", "invalid trace"}
  BY <1>1 DEF canSpendSameBodyRetry
<1>3. failure.status \in {400, 429}
  <2>1. CASE ~call.novita
    BY <1>2, <2>1 DEF retryReason
  <2>2. CASE call.novita /\ failure.status # 400 /\ failure.status # 429
    BY <1>2, <2>2 DEF retryReason
  <2> QED
    BY <2>1, <2>2
<1>4. /\ invalidTraceRetries' \in Nat /\ serverOverloadRetries' \in Nat
      /\ invalidTraceRetries' <= maxInvalidTraceRetries
      /\ serverOverloadRetries' <= maxServerOverloadRetries
      /\ invalidTraceRetries' + serverOverloadRetries'
           = invalidTraceRetries + serverOverloadRetries + 1
  <2> DEFINE reason == retryReason
  <2> HIDE DEF reason
  <2>1. canSpendSameBodyRetry(reason)
    BY <1>1 DEF reason
  <2>2. CASE reason = "overload"
    BY <2>1, <2>2, CallAssumption DEF canSpendSameBodyRetry, TypeOK, Budgeted
  <2>3. CASE reason = "invalid trace"
    <3>1. /\ invalidTraceRetries < maxInvalidTraceRetries
          /\ invalidTraceRetries' = invalidTraceRetries + 1
          /\ serverOverloadRetries' = serverOverloadRetries
      BY <2>1, <2>3 DEF canSpendSameBodyRetry
    <3> QED
      BY <3>1, CallAssumption DEF TypeOK, Budgeted
  <2> QED
    BY <1>2, <2>2, <2>3 DEF reason
<1>5. TypeOK'
  BY <1>1, <1>4 DEF TypeOK
<1>6. Budgeted'
  <2>1. sends <= invalidTraceRetries + serverOverloadRetries + 1
    BY <1>1 DEF Budgeted
  <2>2. sends' <= invalidTraceRetries' + serverOverloadRetries' + 0
    <3>1. sends' = sends
      BY <1>1
    <3>2. sends \in Nat /\ invalidTraceRetries \in Nat /\ serverOverloadRetries \in Nat
      BY DEF TypeOK
    <3>3. \A n, a, b, c, d \in Nat : n <= a + b + 1 /\ c + d = a + b + 1 => n <= c + d + 0
      OBVIOUS
    <3>4. invalidTraceRetries' \in Nat /\ serverOverloadRetries' \in Nat
      BY <1>4
    <3>5. invalidTraceRetries' + serverOverloadRetries'
            = invalidTraceRetries + serverOverloadRetries + 1
      BY <1>4
    <3> QED
      BY <2>1, <3>1, <3>2, <3>3, <3>4, <3>5
  <2> QED
    BY <1>1, <1>4, <2>2 DEF Budgeted
<1>7. NotRunYet' /\ Canceled' /\ Result'
  BY <1>1, <1>3 DEF NotRunYet, Canceled, Result
<1> QED
  BY <1>5, <1>6, <1>7

\* The last failure decides what the call ends with.
LEMMA GiveUpStep == ASSUME CInv, GiveUp PROVE CInv'
<1> USE DEF CInv
<1>1. pc = "failed" /\ pc' = "done" /\ result' \in Mapped(failure)
      /\ UNCHANGED <<call, ctx, failure, budgets, sends, ran>>
  BY DEF GiveUp
<1>2. result' \in ProviderErrors(Statuses, ctx = "live")
  BY <1>1, MappedFact
<1> USE DEF budgets
<1>3. TypeOK' /\ Budgeted'
  BY <1>1 DEF TypeOK, Budgeted
<1>4. NotRunYet' /\ Canceled'
  BY <1>1 DEF NotRunYet, Canceled
<1>5. Result'
  BY <1>1, <1>2 DEF Result
<1> QED
  BY <1>3, <1>4, <1>5

\* A cancellation comes before the call has ended.
LEMMA CancelInferenceStep == ASSUME CInv, CancelInference PROVE CInv'
<1> USE DEF CInv, CancelInference, budgets
<1>1. TypeOK' /\ Budgeted'
  BY DEF TypeOK, Budgeted
<1>2. NotRunYet' /\ Canceled' /\ Result'
  BY DEF NotRunYet, Canceled, Result
<1> QED
  BY <1>1, <1>2

\* Every step of the adapter, and a cancellation at any time, preserves the
\* invariant.
LEMMA CallNext == CInv /\ [Next]_vars => CInv'
<1> SUFFICES ASSUME CInv, [Next]_vars PROVE CInv'
  OBVIOUS
<1>1. CASE UNCHANGED vars
  BY <1>1 DEF vars, budgets, CInv, TypeOK, Budgeted, NotRunYet, Canceled, Result
<1> QED
  BY <1>1, WaitingSteps, SendStep, SucceedsStep, RefusedStep, BreaksStep, RetryStep,
     GiveUpStep, CancelInferenceStep DEF Next, Adapter

\* A provider may have run a request once at most, whatever the budgets; no more
\* requests leave than the budgets allow; and a call ends with an error that
\* Proxy is modelled for.
THEOREM RepeatsSafe == Spec => []RepeatsAreSafe
<1>1. CInv => RepeatsAreSafe
  <2> SUFFICES ASSUME CInv PROVE RepeatsAreSafe
    OBVIOUS
  <2>1. ran <= 1
    BY DEF CInv, NotRunYet
  <2>2. sends <= 1 + maxInvalidTraceRetries + maxServerOverloadRetries
    BY CallAssumption DEF CInv, Budgeted, TypeOK
  <2>3. pc = "done" /\ result # NoError => result \in ProviderErrors(Statuses, ctx = "live")
    BY DEF CInv, Result
  <2> QED
    BY <2>1, <2>2, <2>3 DEF RepeatsAreSafe
<1> QED
  BY CallInit, CallNext, <1>1, PTL DEF Spec


-----------------------------------------------------------------------------
(* RequestBody: the output limit of a request.                             *)

\* What the fields of a body may hold on the way.
Bodies == [max_tokens : Int \cup {Absent, Null},
           max_completion_tokens : Int \cup {Absent, Null},
           MAX_TOKENS : Int \cup {Absent, Null},
           MAX_COMPLETION_TOKENS : Int \cup {Absent, Null},
           last : {"exact", "other"}, include_usage : {Absent, "off", "on"}, prompt : Prompts]

RequestTypeOK ==
  /\ max \in Nat
  /\ step \in {"read", "cap", "reserve", "attempt", "done", "refused"}
  /\ providers \in Seq(Providers)
  /\ raw \in Bodies /\ body \in Bodies
  /\ limit \in Int \cup {Absent}
  /\ sent \in Seq(Bodies)

\* Until it is capped the body is what the client sent, and nothing goes out
\* before the hold.
InOrder ==
  /\ step \in {"read", "cap"} => body = raw
  /\ step \in {"read", "cap", "reserve", "refused"} => sent = <<>>
  /\ step = "cap" => guest

\* The limit under the exact names, where the functions that edit a body look.
NamedLimit(b) ==
  IF IsSet(b.max_tokens) THEN b.max_tokens
  ELSE IF IsSet(b.max_completion_tokens) THEN b.max_completion_tokens
  ELSE NoLimit

\* What the mapper read is what the body says, under one of the exact names.
ReadAsSent ==
  step \in {"cap", "reserve", "attempt", "done"} =>
    /\ ~(IsSet(body.max_tokens) /\ IsSet(body.max_completion_tokens))
    /\ limit = NamedLimit(body)

HeldAsRead == step \in {"attempt", "done"} => held.output = limit

GuestCapped == guest /\ step \in {"reserve", "attempt", "done"} => limit \in 1 .. GuestLimit

\* What a provider enforces is the limit, or the model's maximum if that is less.
SentAsRead ==
  \A i \in DOMAIN sent :
    limit # Absent => Enforced(sent[i], providers[i]) = Clamp(limit)

\* All this of the requests whose limit the functions find in the same place.
RInv ==
  FoundAlike /\ RequestTypeOK /\ InOrder /\ ReadAsSent /\ HeldAsRead /\ GuestCapped /\ SentAsRead

-----------------------------------------------------------------------------
(* RequestBody: facts and steps.                                           *)

\* A limit is set exactly when it is a number.
LEMMA SetFact ==
  ASSUME NEW v \in Int \cup {Absent, Null}
  PROVE  IsSet(v) <=> v \in Int
BY BodyAssumption DEF IsSet

\* The limit of a body is a number or nothing.
LEMMA NamedFact ==
  ASSUME NEW b \in Bodies
  PROVE  /\ NamedLimit(b) \in Int \cup {Absent}
         /\ IsSet(b.max_tokens) => NamedLimit(b) = b.max_tokens
         /\ ~IsSet(b.max_tokens) /\ IsSet(b.max_completion_tokens) =>
              NamedLimit(b) = b.max_completion_tokens
         /\ ~IsSet(b.max_tokens) /\ ~IsSet(b.max_completion_tokens) =>
              NamedLimit(b) = Absent
<1>1. b.max_tokens \in Int \cup {Absent, Null}
      /\ b.max_completion_tokens \in Int \cup {Absent, Null}
  BY DEF Bodies
<1> QED
  BY <1>1, SetFact DEF NamedLimit, NoLimit

\* The clamped limit is no larger than the limit, and positive if that is.
LEMMA ClampFact ==
  ASSUME max \in Nat, NEW n \in Int
  PROVE  /\ Clamp(n) \in Int /\ Clamp(n) <= n
         /\ n >= 1 => Clamp(n) >= 1
BY DEF Clamp

\* PrepareProxyBody leaves one limit at most, under a name the provider enforces.
LEMMA PreparedFact ==
  ASSUME max \in Nat, NEW b \in Bodies, NEW provider,
         ~(IsSet(b.max_tokens) /\ IsSet(b.max_completion_tokens))
  PROVE  /\ PrepareProxyBody(b, provider) \in Bodies
         /\ NamedLimit(b) # Absent =>
              Enforced(PrepareProxyBody(b, provider), provider)
                = Clamp(NamedLimit(b))
<1> DEFINE c == Streamed(b)
           none == [c EXCEPT !.max_tokens = Absent, !.max_completion_tokens = Absent]
           p == PrepareProxyBody(b, provider)
<1>1. c \in Bodies /\ c.max_tokens = b.max_tokens
      /\ c.max_completion_tokens = b.max_completion_tokens
  BY DEF Streamed, Bodies
<1> HIDE DEF c
<1>2. none \in Bodies /\ none.max_tokens = Absent /\ none.max_completion_tokens = Absent
  BY <1>1 DEF Bodies
<1>3. p = Limited(c, provider)
  BY DEF PrepareProxyBody, c
<1>4. Absent \notin Int
  BY BodyAssumption
<1>5. CASE IsSet(b.max_tokens)
  <2>1. b.max_tokens \in Int /\ NamedLimit(b) = b.max_tokens
    BY <1>5, NamedFact, SetFact DEF Bodies
  <2>2. p = [none EXCEPT !["max_tokens"] = Clamp(b.max_tokens)]
    BY <1>1, <1>3, <1>5 DEF Limited, tokenLimitField, targetField
  <2> HIDE DEF none, p
  <2>3. Clamp(b.max_tokens) \in Int
    BY <2>1, ClampFact
  <2>4. p \in Bodies /\ p.max_tokens = Clamp(b.max_tokens)
        /\ p.max_completion_tokens = Absent
    BY <1>2, <2>2, <2>3 DEF Bodies
  <2>5. ~IsSet(p.max_completion_tokens)
    BY <2>4 DEF IsSet
  <2> QED
    BY <2>1, <2>4, <2>5 DEF Enforced, p
<1>6. CASE ~IsSet(b.max_tokens) /\ IsSet(b.max_completion_tokens)
  <2> DEFINE n == Clamp(b.max_completion_tokens)
  <2>1. b.max_completion_tokens \in Int
        /\ NamedLimit(b) = b.max_completion_tokens
    BY <1>6, NamedFact, SetFact DEF Bodies
  <2>2. n \in Int
    BY <2>1, ClampFact
  <2>3. CASE provider = "deepseek"
    <3>1. p = [none EXCEPT !["max_tokens"] = n]
      BY <1>1, <1>3, <1>6, <2>3
         DEF Limited, tokenLimitField, targetField, useMaxTokens
    <3> HIDE DEF none, p, n
    <3>2. p \in Bodies /\ p.max_tokens = n
      BY <1>2, <2>2, <3>1 DEF Bodies
    <3> QED
      BY <2>1, <2>3, <3>2 DEF Enforced, p, n
  <2>4. CASE provider # "deepseek"
    <3>1. p = [none EXCEPT !["max_completion_tokens"] = n]
      BY <1>1, <1>3, <1>6, <2>4
         DEF Limited, tokenLimitField, targetField, useMaxTokens
    <3> HIDE DEF none, p, n
    <3>2. p \in Bodies /\ p.max_completion_tokens = n
      BY <1>2, <2>2, <3>1 DEF Bodies
    <3>3. IsSet(p.max_completion_tokens)
      BY <2>2, <3>2, SetFact
    <3> QED
      BY <2>1, <2>4, <3>2, <3>3 DEF Enforced, p, n
  <2> QED
    BY <2>3, <2>4
<1>7. CASE ~IsSet(b.max_tokens) /\ ~IsSet(b.max_completion_tokens)
  <2>1. NamedLimit(b) = Absent
    BY <1>7, NamedFact
  <2>2. p = c
    BY <1>1, <1>3, <1>7 DEF Limited, tokenLimitField
  <2> QED
    BY <1>1, <2>1, <2>2
<1> QED
  BY <1>5, <1>6, <1>7

\* A request as it came.
LEMMA RequestInit == BodyInit /\ FoundAlike => RInv
<1> SUFFICES ASSUME BodyInit, FoundAlike PROVE RInv
  OBVIOUS
<1>1. raw \in Bodies /\ body = raw
  <2>1. raw \in Body /\ body = raw
    BY DEF BodyInit
  <2>2. Values \subseteq Int \cup {Absent, Null} /\ Spelled \subseteq Int \cup {Absent, Null}
    BY BodyAssumption DEF Values
  <2> QED
    BY <2>1, <2>2 DEF Body, Bodies
<1>2. providers \in Seq(Providers)
  <2>1. \A p, q \in Providers : <<p>> \in Seq(Providers) /\ <<p, q>> \in Seq(Providers)
    OBVIOUS
  <2>2. \/ \E p \in Providers : providers = <<p>>
        \/ \E p, q \in Providers : providers = <<p, q>>
    BY DEF BodyInit
  <2> QED
    BY <2>1, <2>2
<1>3. max \in Nat /\ step = "read" /\ limit = Absent /\ sent = <<>>
  BY BodyAssumption DEF BodyInit, NoLimit
<1>4. RequestTypeOK
  BY <1>1, <1>2, <1>3 DEF RequestTypeOK
<1>5. InOrder /\ ReadAsSent /\ HeldAsRead /\ GuestCapped
  BY <1>1, <1>3 DEF InOrder, ReadAsSent, HeldAsRead, GuestCapped
<1>6. SentAsRead
  BY <1>3 DEF SentAsRead
<1> QED
  BY <1>4, <1>5, <1>6 DEF RInv

\* No step changes the request itself.
LEMMA RequestKept ==
  ASSUME UNCHANGED request
  PROVE  /\ FoundAlike' = FoundAlike
         /\ UNCHANGED <<guest, stream, max, providers, raw>>
<1>1. UNCHANGED <<guest, stream, max, providers, raw>>
  BY DEF request
<1> QED
  BY <1>1 DEF FoundAlike, AsSpelled, NullBeside, MaxTokens, MaxCompletionTokens,
     decoded, IsSet

\* The mapper: one limit at most, read under either name.
LEMMA ReadRequestStep == ASSUME RInv, ReadRequest PROVE RInv'
<1> USE DEF RInv
<1>1. step = "read" /\ body = raw /\ sent = <<>> /\ raw \in Bodies
  BY DEF ReadRequest, InOrder, RequestTypeOK
<1>2. UNCHANGED <<guest, stream, max, providers, raw, body, held, sent>> /\ FoundAlike'
  BY RequestKept DEF ReadRequest, request
<1>3. SentAsRead' /\ HeldAsRead'
  BY <1>1, <1>2 DEF SentAsRead, HeldAsRead, ReadRequest
<1>4. CASE step' = "refused"
  <2>1. UNCHANGED limit
    BY <1>4 DEF ReadRequest
  <2>2. RequestTypeOK'
    BY <1>2, <1>4, <2>1 DEF RequestTypeOK
  <2>3. InOrder' /\ ReadAsSent' /\ GuestCapped'
    BY <1>1, <1>2, <1>4 DEF InOrder, ReadAsSent, GuestCapped
  <2> QED
    BY <1>2, <1>3, <2>2, <2>3
<1>5. CASE step' # "refused"
  <2>1. /\ ~(IsSet(raw.max_tokens) /\ IsSet(raw.max_completion_tokens))
        /\ limit' = NamedLimit(raw)
    BY <1>5 DEF ReadRequest, FoundAlike, AsSpelled, MaxOutputTokens, NamedLimit
  <2>2. step' \in {"cap", "reserve"} /\ (step' = "cap" <=> guest)
    BY <1>5 DEF ReadRequest
  <2>3. limit' \in Int \cup {Absent}
    BY <1>1, <2>1, NamedFact
  <2>4. RequestTypeOK'
    BY <1>2, <2>2, <2>3 DEF RequestTypeOK
  <2>5. InOrder' /\ GuestCapped'
    BY <1>1, <1>2, <2>2 DEF InOrder, GuestCapped
  <2>6. NamedLimit(body)' = NamedLimit(raw)
    BY <1>1, <1>2 DEF NamedLimit, IsSet
  <2>7. ReadAsSent'
    BY <1>1, <1>2, <2>1, <2>6 DEF ReadAsSent, IsSet
  <2> QED
    BY <1>2, <1>3, <2>4, <2>5, <2>7
<1> QED
  BY <1>4, <1>5

\* The guest limit replaces the client's under the name the client used.
LEMMA capOutputStep == ASSUME RInv, capOutput PROVE RInv'
<1> USE DEF RInv
<1>1. step = "cap" /\ step' = "reserve" /\ body = raw /\ sent = <<>> /\ body \in Bodies
      /\ ~NullBeside(raw)
  BY DEF capOutput, InOrder, RequestTypeOK, FoundAlike
<1>2. UNCHANGED <<guest, stream, max, providers, raw, held, sent>> /\ FoundAlike'
  BY RequestKept DEF capOutput, request
<1>3. GuestLimit \in Nat \ {0} /\ Absent \notin Int /\ Null \notin Int
  BY BodyAssumption
<1>4. /\ ~(IsSet(body.max_tokens) /\ IsSet(body.max_completion_tokens))
      /\ limit = NamedLimit(body)
  BY <1>1 DEF ReadAsSent
<1>5. HeldAsRead' /\ InOrder' /\ SentAsRead'
  BY <1>1, <1>2 DEF HeldAsRead, InOrder, SentAsRead
<1>6. CASE WithinGuestLimit /\ UNCHANGED <<body, limit>>
  <2>1. limit \in Int
    BY <1>6, SetFact DEF WithinGuestLimit, RequestTypeOK
  <2>2. limit' \in 1 .. GuestLimit
    BY <1>3, <1>6, <2>1 DEF WithinGuestLimit
  <2>3. RequestTypeOK' /\ GuestCapped'
    BY <1>1, <1>2, <1>6, <2>2 DEF RequestTypeOK, GuestCapped
  <2>4. NamedLimit(body)' = NamedLimit(body)
    BY <1>6 DEF NamedLimit
  <2>5. ReadAsSent'
    BY <1>4, <1>6, <2>4 DEF ReadAsSent, IsSet
  <2> QED
    BY <1>2, <1>5, <2>3, <2>5
<1>7. CASE body' = capped(body) /\ limit' = GuestLimit
  <2>1. body' \in Bodies
        /\ \/ /\ body'.max_tokens = GuestLimit
              /\ ~IsSet(body'.max_completion_tokens)
           \/ /\ ~IsSet(body'.max_tokens)
              /\ body'.max_completion_tokens = GuestLimit
    <3>1. CASE body.max_tokens # Absent
      <4>1. IsSet(body.max_tokens) \/ body.max_tokens = Null
        BY <3>1 DEF IsSet
      <4>2. ~IsSet(body.max_completion_tokens)
        BY <1>1, <1>4, <4>1 DEF NullBeside
      <4>3. body' = [body EXCEPT !.max_tokens = GuestLimit]
        BY <1>7, <3>1 DEF capped
      <4>4. body' \in Bodies /\ body'.max_tokens = GuestLimit
            /\ body'.max_completion_tokens = body.max_completion_tokens
        BY <1>1, <1>3, <4>3 DEF Bodies
      <4> QED
        BY <4>2, <4>4
    <3>2. CASE body.max_tokens = Absent
      <4>1. body' = [body EXCEPT !.max_completion_tokens = GuestLimit]
        BY <1>7, <3>2 DEF capped
      <4>2. body' \in Bodies /\ body'.max_completion_tokens = GuestLimit
            /\ body'.max_tokens = Absent
        BY <1>1, <1>3, <3>2, <4>1 DEF Bodies
      <4>3. ~IsSet(body'.max_tokens)
        BY <4>2 DEF IsSet
      <4> QED
        BY <4>2, <4>3
    <3> QED
      BY <3>1, <3>2
  <2>2. IsSet(GuestLimit)
    BY <1>3 DEF IsSet
  <2>3. NamedLimit(body') = GuestLimit
    BY <2>1, <2>2, NamedFact
  <2>4. ReadAsSent'
    <3>1. NamedLimit(body)' = NamedLimit(body')
      BY DEF NamedLimit
    <3> QED
      BY <1>7, <2>1, <2>3, <3>1 DEF ReadAsSent
  <2>5. limit' \in 1 .. GuestLimit
    BY <1>3, <1>7
  <2>6. RequestTypeOK' /\ GuestCapped'
    BY <1>1, <1>2, <2>1, <2>5 DEF RequestTypeOK, GuestCapped
  <2> QED
    BY <1>2, <1>5, <2>4, <2>6
<1> QED
  BY <1>6, <1>7 DEF capOutput

\* Metering is told what was read.
LEMMA ReserveStep == ASSUME RInv, Reserve PROVE RInv'
<1> USE DEF RInv
<1>1. step = "reserve" /\ step' = "attempt" /\ sent = <<>> /\ held'.output = limit
  BY DEF Reserve, InOrder
<1>2. UNCHANGED <<guest, stream, max, providers, raw, body, limit, sent>> /\ FoundAlike'
  BY RequestKept DEF Reserve, request
<1>3. RequestTypeOK'
  BY <1>1, <1>2 DEF RequestTypeOK
<1>4. InOrder' /\ HeldAsRead' /\ GuestCapped'
  BY <1>1, <1>2 DEF InOrder, HeldAsRead, GuestCapped
<1>5. ReadAsSent'
  BY <1>1, <1>2 DEF ReadAsSent, NamedLimit, IsSet
<1>6. SentAsRead'
  BY <1>1, <1>2 DEF SentAsRead
<1> QED
  BY <1>2, <1>3, <1>4, <1>5, <1>6

\* Each provider gets the body prepared for it.
LEMMA AttemptStep == ASSUME RInv, Attempt PROVE RInv'
<1> USE DEF RInv
<1> DEFINE provider == providers[Len(sent) + 1]
           p == PrepareProxyBody(body, provider)
<1>1. step = "attempt" /\ step' \in {"attempt", "done"} /\ sent' = Append(sent, p)
      /\ Len(sent) < Len(providers)
  BY DEF Attempt
<1>2. UNCHANGED <<guest, stream, max, providers, raw, body, limit, held>> /\ FoundAlike'
  BY RequestKept DEF Attempt, request
<1>3. /\ ~(IsSet(body.max_tokens) /\ IsSet(body.max_completion_tokens))
      /\ limit = NamedLimit(body) /\ body \in Bodies /\ max \in Nat
      /\ sent \in Seq(Bodies)
  BY <1>1 DEF ReadAsSent, RequestTypeOK
<1>4. p \in Bodies /\ (limit # Absent => Enforced(p, provider) = Clamp(limit))
  BY <1>3, PreparedFact
<1> HIDE DEF p
<1>5. sent' \in Seq(Bodies) /\ DOMAIN sent' = DOMAIN sent \cup {Len(sent) + 1}
      /\ sent'[Len(sent) + 1] = p /\ \A i \in DOMAIN sent : sent'[i] = sent[i]
  BY <1>1, <1>3, <1>4
<1>6. RequestTypeOK'
  BY <1>1, <1>2, <1>5 DEF RequestTypeOK
<1>7. InOrder' /\ HeldAsRead' /\ GuestCapped'
  BY <1>1, <1>2 DEF InOrder, HeldAsRead, GuestCapped
<1>8. ReadAsSent'
  BY <1>1, <1>2 DEF ReadAsSent, NamedLimit, IsSet
<1>9. SentAsRead'
  <2> SUFFICES ASSUME NEW i \in DOMAIN sent', limit # Absent
               PROVE  Enforced(sent'[i], providers[i]) = Clamp(limit)
    BY <1>2 DEF SentAsRead, Enforced, Clamp, IsSet
  <2>1. CASE i = Len(sent) + 1
    BY <1>4, <1>5, <2>1
  <2>2. CASE i \in DOMAIN sent
    BY <1>5, <2>2 DEF SentAsRead
  <2> QED
    BY <1>5, <2>1, <2>2
<1> QED
  BY <1>2, <1>6, <1>7, <1>8, <1>9

\* Every step preserves the invariant.
LEMMA RequestNext == RInv /\ [BodyNext]_bodyVars => RInv'
<1> SUFFICES ASSUME RInv, [BodyNext]_bodyVars PROVE RInv'
  OBVIOUS
<1>1. CASE UNCHANGED bodyVars
  BY <1>1 DEF bodyVars, RInv, FoundAlike, AsSpelled, NullBeside, MaxTokens,
              MaxCompletionTokens, decoded, NamedLimit, RequestTypeOK, InOrder, ReadAsSent, HeldAsRead,
              GuestCapped, SentAsRead, IsSet, Enforced, Clamp
<1> QED
  BY <1>1, ReadRequestStep, capOutputStep, ReserveStep, AttemptStep DEF BodyNext

\* The invariant says what the properties say.
LEMMA RequestImplied ==
  RInv => HeldIsEnforced /\ GuestsAreLimited
<1> SUFFICES ASSUME RInv, NEW i \in DOMAIN sent
             PROVE  LET n == Enforced(sent[i], providers[i])
                    IN /\ limit # Absent => IsSet(n) /\ n <= limit
                       /\ guest => limit # Absent /\ n \in 1 .. GuestLimit
                       /\ held.output = limit
  BY DEF HeldIsEnforced, GuestsAreLimited, NoLimit
<1> USE DEF RInv
<1>1. step \in {"attempt", "done"}
  BY DEF InOrder, RequestTypeOK
<1>2. held.output = limit
  BY <1>1 DEF HeldAsRead
<1>3. max \in Nat /\ limit \in Int \cup {Absent}
  BY DEF RequestTypeOK
<1>4. limit # Absent => Enforced(sent[i], providers[i]) = Clamp(limit)
  BY DEF SentAsRead
<1>5. Absent \notin Int /\ Null \notin Int /\ GuestLimit \in Nat
  BY BodyAssumption
<1>6. limit # Absent => IsSet(Clamp(limit)) /\ Clamp(limit) <= limit
  BY <1>3, <1>5, ClampFact DEF IsSet
<1>7. guest => limit \in 1 .. GuestLimit
  BY <1>1 DEF GuestCapped
<1>8. limit \in 1 .. GuestLimit => Clamp(limit) \in 1 .. GuestLimit
  BY <1>5, ClampFact, <1>3
<1> QED
  BY <1>2, <1>4, <1>5, <1>6, <1>7, <1>8

\* Whichever provider runs a request enforces a limit that the held credit
\* covers, and a guest's is within the guest limit: of every request, nulls and
\* other spellings included, whose limit the mapper and the functions that edit
\* the body find in the same place.
THEOREM LimitsKept == BodySpec => [](HeldIsEnforced /\ GuestsAreLimited)
<1> DEFINE Inv == FoundAlike => RInv
<1>1. BodyInit => Inv
  BY RequestInit
<1>2. Inv /\ [BodyNext]_bodyVars => Inv'
  <2> SUFFICES ASSUME Inv, [BodyNext]_bodyVars, FoundAlike' PROVE RInv'
    OBVIOUS
  <2>1. UNCHANGED request
    BY DEF BodyNext, bodyVars, request, ReadRequest, capOutput, Reserve, Attempt
  <2>2. FoundAlike
    BY <2>1, RequestKept
  <2> QED
    BY <2>2, RequestNext
<1>3. Inv => HeldIsEnforced /\ GuestsAreLimited
  <2>1. CASE FoundAlike
    BY <2>1, RequestImplied
  <2>2. CASE ~FoundAlike
    BY <2>2 DEF HeldIsEnforced, GuestsAreLimited
  <2> QED
    BY <2>1, <2>2
<1> QED
  BY <1>1, <1>2, <1>3, PTL DEF BodySpec

-----------------------------------------------------------------------------
(* SilenceGuard: the inductive invariant.                                  *)

Before == place \in {"wait", "woken", "report"}

\* What is left until the deadline and the silence so far make up a timeout.
DeadlineIsSilence == Guarded => silence + left >= Timeout

\* Only an expired body is closed under its reader.
MarkedFirst ==
  /\ expired => closed
  /\ closed => expired \/ place = "done"
  /\ \A c \in Callbacks : idleCall[c] = "close" => expired
  /\ respBody = "closed" => expired \/ place = "done"
  /\ read = "closed" => expired

\* idleBody does not exist before its body and is closed after it, and its Read
\* has something to return.
Bracketed ==
  /\ Before => ~closed /\ timer = Off /\ \A c \in Callbacks : idleCall[c] = "none"
  /\ place = "done" => \A c \in Callbacks : idleCall[c] = "lock" => closed
  /\ place = "got" => read # "nothing"

\* Only the header timer, the end of the exchange and an expiry cancel the
\* request's context.
CanceledBy ==
  /\ waiting <=> place \in {"wait", "woken"}
  /\ place \notin {"wait", "woken"} => headerTimer = Off
  /\ waiting /\ reqCtx = "canceled" => overdue

\* Either timer runs out only after a silent timeout, and what client.Do or the
\* inner Read returned says who ended it.
SilenceTold ==
  /\ expired => silence = Timeout
  /\ waiting => /\ headerTimer # Off => silence + headerTimer >= Timeout
                /\ headerCall \/ overdue => silence = Timeout
  /\ place = "woken" /\ answer = "timeout" => silence = Timeout
  /\ place = "woken" /\ answer = "canceled" => overdue \/ parent = "canceled"
  /\ place = "got" /\ read = "canceled" => expired \/ parent = "canceled"
  /\ place \notin {"close", "done"} => outcome = "none"

GInv ==
  /\ GuardTypeOK
  /\ GuardStands
  /\ DeadlineIsSilence
  /\ MarkedFirst
  /\ Bracketed
  /\ CanceledBy
  /\ HeaderTimerSpares
  /\ NothingLeftOpen
  /\ SilenceTold
  /\ TimeoutIsTold

\* The silence timeout is positive.
LEMMA TimeoutPositive == Timeout \in Nat /\ Timeout > 0
BY GuardAssumption

\* The Boolean variables.
Flags ==
  /\ waiting \in BOOLEAN /\ overdue \in BOOLEAN /\ headerCall \in BOOLEAN
  /\ closed \in BOOLEAN /\ expired \in BOOLEAN

\* Every step keeps the types of the flags.
LEMMA FlagsStay == Flags /\ [GuardNext]_guardVars => Flags'
<1> SUFFICES ASSUME Flags, [GuardNext]_guardVars
             PROVE  Flags'
  OBVIOUS
<1> USE DEF Flags, header, idle
<1>1. CASE Caller
  BY <1>1, Zenon DEF Caller, HeadersChecked, EndWithout, Open, ReportRead,
     ReportContinues, NextRead, InnerRead, ReadLocked, Close
<1>2. CASE Timers
  BY <1>2, Zenon DEF Timers, HeaderTimerFires, HeaderCallback, IdleTimerFires,
     IdleCallback, IdleCloses
<1>3. CASE DoReturns \/ ProviderSends \/ ParentCanceled \/ Tick
  BY <1>3, Zenon DEF DoReturns, ProviderSends, ParentCanceled, Tick
<1>4. CASE UNCHANGED guardVars
  BY <1>4, Zenon DEF guardVars
<1> QED
  BY <1>1, <1>2, <1>3, <1>4 DEF GuardNext

\* An exchange begins with the invariant.
LEMMA GuardEstablished == GuardInit => GInv
<1> SUFFICES ASSUME GuardInit
             PROVE  GInv
  OBVIOUS
<1>1. ex \in Exchange
  BY GuardAssumption DEF GuardInit
<1>0. Flags
  BY Zenon DEF GuardInit, Flags
<1>2. GuardTypeOK
  BY <1>0, <1>1, TimeoutPositive DEF GuardInit, GuardTypeOK, Flags, Off, Arrivals
<1>3. GuardStands /\ DeadlineIsSilence /\ HeaderTimerSpares /\ NothingLeftOpen
  BY DEF GuardInit, GuardStands, DeadlineIsSilence, HeaderTimerSpares,
         NothingLeftOpen, Guarded
<1>4. MarkedFirst /\ Bracketed /\ CanceledBy
  BY DEF GuardInit, MarkedFirst, Bracketed, CanceledBy, Before
<1>5. SilenceTold /\ TimeoutIsTold
  BY TimeoutPositive DEF GuardInit, SilenceTold, TimeoutIsTold, Off
<1> QED
  BY <1>2, <1>3, <1>4, <1>5 DEF GInv

\* Every step of the caller, the timers and the callbacks preserves it.
LEMMA GuardPreserved == GInv /\ [GuardNext]_guardVars => GInv'
<1> SUFFICES ASSUME GInv, [GuardNext]_guardVars
             PROVE  GInv'
  OBVIOUS
<1>0. Flags'
  BY FlagsStay DEF GInv, GuardTypeOK, Flags
<1> USE TimeoutPositive, <1>0
<1> USE DEF Flags, GInv, GuardTypeOK, GuardStands, DeadlineIsSilence, MarkedFirst, Bracketed,
            CanceledBy, HeaderTimerSpares, NothingLeftOpen, Before, Guarded,
            Off, Arrivals, header, idle, Exchange, SilenceTold, TimeoutIsTold
<1>1. CASE DoReturns
  <2>1. CASE answer' \in {"response", "network"}
    BY <1>1, <2>1 DEF DoReturns
  <2>2. CASE ContextEnded /\ answer' = "canceled"
    BY <1>1, <2>2 DEF DoReturns, ContextEnded
  <2>3. CASE ex.transport = "own" /\ headerTimer = 0 /\ answer' = "timeout"
    BY <1>1, <2>3 DEF DoReturns
  <2> QED
    BY <1>1, <2>1, <2>2, <2>3 DEF DoReturns
<1>2. CASE HeadersChecked
  <2>1. CASE overdue /\ parent = "live" /\ EndWithout("timeout")
    BY <1>2, <2>1 DEF HeadersChecked, EndWithout
  <2>2. CASE answer # "response" /\ EndWithout(answer)
    BY <1>2, <2>2 DEF HeadersChecked, EndWithout
  <2>3. CASE ~(overdue /\ parent = "live") /\ answer = "response" /\ Open
    <3>1. CASE ex.stream /\ ex.fails
      BY <1>2, <2>3, <3>1 DEF HeadersChecked, Open
    <3>2. CASE ~(ex.stream /\ ex.fails)
      BY <1>2, <2>3, <3>2 DEF HeadersChecked, Open
    <3> QED
      BY <3>1, <3>2
  <2> QED
    BY <1>2, <2>1, <2>2, <2>3 DEF HeadersChecked
<1>3. CASE ReportRead
  BY <1>3 DEF ReportRead
<1>4. CASE ReportContinues
  BY <1>4 DEF ReportContinues
<1>5. CASE NextRead
  BY <1>5 DEF NextRead
<1>6. CASE InnerRead
  <2>1. CASE network # "nothing" /\ read' = network
    BY <1>6, <2>1 DEF InnerRead
  <2>2. CASE respBody = "closed" /\ read' = "closed"
    BY <1>6, <2>2 DEF InnerRead
  <2>3. CASE ContextEnded /\ read' = "canceled"
    BY <1>6, <2>3 DEF InnerRead, ContextEnded
  <2> QED
    BY <1>6, <2>1, <2>2, <2>3 DEF InnerRead
<1>7. CASE ReadLocked
  <2>1. CASE expired
    BY <1>7, <2>1 DEF ReadLocked
  <2>2. CASE ~expired /\ read = "bytes"
    BY <1>7, <2>2 DEF ReadLocked
  <2>3. CASE ~expired /\ read # "bytes"
    BY <1>7, <2>3 DEF ReadLocked
  <2> QED
    BY <2>1, <2>2, <2>3
<1>8. CASE Close
  BY <1>8 DEF Close
<1>9. CASE HeaderTimerFires
  BY <1>9 DEF HeaderTimerFires
<1>10. CASE HeaderCallback
  <2>1. CASE waiting
    BY <1>10, <2>1 DEF HeaderCallback
  <2>2. CASE ~waiting
    BY <1>10, <2>2 DEF HeaderCallback
  <2> QED
    BY <2>1, <2>2
<1>11. CASE IdleTimerFires
  BY <1>11 DEF IdleTimerFires
<1>12. ASSUME NEW c \in Callbacks, IdleCallback(c)
       PROVE  GInv'
  <2>1. CASE closed
    BY <1>12, <2>1 DEF IdleCallback
  <2>2. CASE ~closed /\ left > 0
    BY <1>12, <2>2 DEF IdleCallback
  <2>3. CASE ~closed /\ left = 0
    BY <1>12, <2>3 DEF IdleCallback
  <2> QED
    BY <2>1, <2>2, <2>3
<1>13. ASSUME NEW c \in Callbacks, IdleCloses(c)
       PROVE  GInv'
  BY <1>13 DEF IdleCloses
<1>14. CASE ProviderSends
  BY <1>14 DEF ProviderSends
<1>15. CASE ParentCanceled
  BY <1>15 DEF ParentCanceled
<1>16. CASE Tick
  BY <1>16 DEF Tick, Down
<1>17. CASE UNCHANGED guardVars
  BY <1>17 DEF guardVars
<1> QED
  BY <1>1, <1>2, <1>3, <1>4, <1>5, <1>6, <1>7, <1>8, <1>9, <1>10, <1>11, <1>12,
     <1>13, <1>14, <1>15, <1>16, <1>17 DEF GuardNext, Caller, Timers

\* It holds in every behaviour.
LEMMA GuardInvariance == GuardSpec => []GInv
<1>1. GuardInit => GInv
  BY GuardEstablished
<1>2. GInv /\ [GuardNext]_guardVars => GInv'
  BY GuardPreserved
<1> QED
  BY <1>1, <1>2, PTL DEF GuardSpec

-----------------------------------------------------------------------------

\* Every variable of the exchange, its timers and its callbacks keeps its kind.
THEOREM GuardTypeCorrect == GuardSpec => []GuardTypeOK
<1>1. GInv => GuardTypeOK
  BY DEF GInv
<1> QED
  BY <1>1, GuardInvariance, PTL

\* While the body is behind idleBody something will end its silence.
THEOREM GuardAlwaysStands == GuardSpec => []GuardStands
<1>1. GInv => GuardStands
  BY DEF GInv
<1> QED
  BY <1>1, GuardInvariance, PTL

\* The caller is told of a timeout where a timer cut the wait off, after a full
\* timeout of silence, and of a cancellation only where the inference was canceled.
THEOREM TimeoutsAreTold == GuardSpec => []TimeoutIsTold
<1>1. GInv => TimeoutIsTold
  BY DEF GInv
<1> QED
  BY <1>1, GuardInvariance, PTL

\* DoWithHeaderTimeout's timer never cancels a response it handed out.
THEOREM HeaderTimerIsDone == GuardSpec => []HeaderTimerSpares
<1>1. GInv => HeaderTimerSpares
  BY DEF GInv
<1> QED
  BY <1>1, GuardInvariance, PTL

\* Every way out of an exchange releases its body, timers and context.
THEOREM AllIsReleased == GuardSpec => []NothingLeftOpen
<1>1. GInv => NothingLeftOpen
  BY DEF GInv
<1> QED
  BY <1>1, GuardInvariance, PTL

\* A body expires only after a full timeout without a delivered byte.
THEOREM ExpiryNeedsSilence == GuardSpec => OnlySilenceExpires
<1>1. ASSUME GInv, GInv', [GuardNext]_guardVars, ~expired, expired'
      PROVE  silence = Timeout
  <2>1. PICK c \in Callbacks : IdleCallback(c)
    BY <1>1 DEF GuardNext, Caller, Timers, guardVars, DoReturns, HeadersChecked,
       EndWithout, Open, ReportRead, ReportContinues, NextRead, InnerRead,
       ReadLocked, Close, HeaderTimerFires, HeaderCallback, IdleTimerFires,
       IdleCloses, ProviderSends, ParentCanceled, Tick, idle
  <2>2. ~closed /\ left = 0 /\ idleCall[c] = "lock"
    BY <1>1, <2>1 DEF IdleCallback, GInv, GuardTypeOK
  <2>3. Guarded
    BY <1>1, <2>2 DEF GInv, GuardTypeOK, Bracketed, Before, Guarded
  <2> QED
    BY <1>1, <2>2, <2>3, TimeoutPositive DEF GInv, DeadlineIsSilence, GuardTypeOK
<1>2. GInv /\ GInv' /\ [GuardNext]_guardVars => [~expired /\ expired' => silence = Timeout]_guardVars
  BY <1>1
<1> QED
  BY <1>2, GuardInvariance, PTL DEF GuardSpec, OnlySilenceExpires

=============================================================================
