----------------------------- MODULE ProviderCall -----------------------------
(***************************************************************************)
(* One call of a provider adapter (Complete or Stream) as Proxy's attempt  *)
(* makes it: the credential, Tinfoil's attested client, the request, and   *)
(* the OpenAI adapter's repetitions of requests Novita refused for a       *)
(* passing reason.                                                         *)
(*                                                                         *)
(* SilenceGuard models one request of it; here a request is answered, or   *)
(* fails, and the inference may be canceled at any time.                   *)
(***************************************************************************)
EXTENDS GatewayErrors

CONSTANTS
  Statuses,                    \* statuses a provider refuses or fails with
  maxInvalidTraceRetries,      \* maxNovitaInvalidTraceSameBodyRetries
  maxServerOverloadRetries     \* maxNovitaServerOverloadRetries

ASSUME CallAssumption ==
  /\ Statuses \subseteq 400 .. 599
  /\ maxInvalidTraceRetries \in Nat /\ maxServerOverloadRetries \in Nat

\* The registry's adapter; Novita is one of the OpenAI adapter's providers.
\* tools is hasToolSurface of the body, key whether the credential is set.
Calls == {c \in [adapter : {"openai", "tinfoil", "typesafe"}, novita : BOOLEAN,
                 tools : BOOLEAN, key : BOOLEAN] :
            c.novita => c.adapter = "openai"}

\* ProviderHTTPError: its status, and what its text says.
Text == {"overload", "invalid trace", "other"}

NoStatus == 0          \* no answer: a network failure
CanceledStatus == -1   \* the context ended the request

VARIABLES
  call,
  pc,                \* start, verify, send, sent, failed, sleep, done
  ctx,               \* the inference context: live, canceled
  failure,           \* the last failure: status and text
  invalidTraceRetries, serverOverloadRetries,
  sends,             \* requests that left for the provider
  ran,               \* requests the provider may have run
  result             \* NoError, or the error the call ended with

vars == <<call, pc, ctx, failure, invalidTraceRetries, serverOverloadRetries,
          sends, ran, result>>
budgets == <<invalidTraceRetries, serverOverloadRetries>>

-----------------------------------------------------------------------------
\* The error of a failure; a canceled context shows as context.Canceled or as
\* its cause, which has no status.
Mapped(f) ==
  IF f.status = CanceledStatus THEN {ErrClientCanceled, ErrProviderError(502)}
  ELSE IF f.status = NoStatus THEN NetworkErrors
  ELSE IF call.adapter = "typesafe" /\ TypeSafeErrors({f.status}) # {}
  THEN TypeSafeErrors({f.status})
  ELSE {mapProviderError(f.status)}

Start ==
  /\ pc = "start"
  /\ \/ /\ ~call.key
        /\ result' = ErrInternal /\ pc' = "done"
     \/ /\ call.key
        /\ pc' = IF call.adapter = "tinfoil" THEN "verify" ELSE "send"
        /\ UNCHANGED result
  /\ UNCHANGED <<call, ctx, failure, budgets, sends, ran>>

\* newVerifiedClient: without attestation there is no request.
Verify ==
  /\ pc = "verify"
  /\ \/ pc' = "send" /\ UNCHANGED result
     \/ pc' = "done" /\ result' = ErrProviderUnavailable
  /\ UNCHANGED <<call, ctx, failure, budgets, sends, ran>>

\* The HTTP client does not send for a context that has ended.
Send ==
  /\ pc = "send"
  /\ \/ /\ ctx = "live"
        /\ sends' = sends + 1 /\ pc' = "sent"
        /\ UNCHANGED failure
     \/ /\ ctx = "canceled"
        /\ failure' = [status |-> CanceledStatus, text |-> "other"]
        /\ pc' = "failed"
        /\ UNCHANGED sends
  /\ UNCHANGED <<call, ctx, budgets, ran, result>>

Succeeds ==
  /\ pc = "sent"
  /\ ran' = ran + 1
  /\ result' = NoError /\ pc' = "done"
  /\ UNCHANGED <<call, ctx, failure, budgets, sends>>

\* A status: a refusal (4xx) says that the request was not run.
Refused ==
  /\ pc = "sent"
  /\ \E status \in Statuses, text \in Text :
       /\ failure' = [status |-> status, text |-> text]
       /\ ran' = IF status >= 500 THEN ran + 1 ELSE ran
  /\ pc' = "failed"
  /\ UNCHANGED <<call, ctx, budgets, sends, result>>

\* No answer, or the context ended: the provider may be running the request.
Breaks ==
  /\ pc = "sent"
  /\ failure' \in [status : {NoStatus} \cup
                            (IF ctx = "live" THEN {} ELSE {CanceledStatus}),
                   text : {"other"}]
  /\ ran' = ran + 1
  /\ pc' = "failed"
  /\ UNCHANGED <<call, ctx, budgets, sends, result>>

\* Mutant of retryReason: a request without an answer is repeated, too.
retryReasonUnanswered ==
  CASE ~call.novita -> "none"
    [] call.novita /\ failure.status \in {429, NoStatus} -> "overload"
    [] call.novita /\ failure.status = 400
         /\ failure.text = "invalid trace" /\ call.tools -> "invalid trace"
    [] OTHER -> "none"

\* maybeBuildNovitaSameBodyRetry.
retryReason ==
  CASE ~call.novita -> "none"
    [] call.novita /\ failure.status = 429 /\ failure.text = "overload" -> "overload"
    [] call.novita /\ failure.status = 400
         /\ failure.text = "invalid trace" /\ call.tools -> "invalid trace"
    [] OTHER -> "none"

\* Each reason has a budget of its own for the whole call.
canSpendSameBodyRetry(reason) ==
  \/ /\ reason = "invalid trace" /\ invalidTraceRetries < maxInvalidTraceRetries
     /\ invalidTraceRetries' = invalidTraceRetries + 1
     /\ UNCHANGED serverOverloadRetries
  \/ /\ reason = "overload" /\ serverOverloadRetries < maxServerOverloadRetries
     /\ serverOverloadRetries' = serverOverloadRetries + 1
     /\ UNCHANGED invalidTraceRetries

\* The budget of the reason is spent, or there is no reason.
Exhausted(reason) ==
  CASE reason = "invalid trace" -> invalidTraceRetries >= maxInvalidTraceRetries
    [] reason = "overload" -> serverOverloadRetries >= maxServerOverloadRetries
    [] OTHER -> TRUE

Retry ==
  /\ pc = "failed"
  /\ canSpendSameBodyRetry(retryReason)
  /\ pc' = "sleep"
  /\ UNCHANGED <<call, ctx, failure, sends, ran, result>>

GiveUp ==
  /\ pc = "failed"
  /\ Exhausted(retryReason)
  /\ result' \in Mapped(failure)
  /\ pc' = "done"
  /\ UNCHANGED <<call, ctx, failure, budgets, sends, ran>>

\* sleepBeforeProviderRetry: the delay passes, or the inference is canceled;
\* when both are ready either may be seen.  The cause is no status.
Slept ==
  /\ pc = "sleep"
  /\ \/ pc' = "send" /\ UNCHANGED result
     \/ /\ ctx = "canceled"
        /\ result' = ErrProviderError(502) /\ pc' = "done"
  /\ UNCHANGED <<call, ctx, failure, budgets, sends, ran>>

\* The credit hold was lost.
CancelInference ==
  /\ ctx = "live" /\ pc # "done"
  /\ ctx' = "canceled"
  /\ UNCHANGED <<call, pc, failure, budgets, sends, ran, result>>

-----------------------------------------------------------------------------
Init ==
  /\ call \in Calls
  /\ pc = "start" /\ ctx = "live"
  /\ failure = [status |-> NoStatus, text |-> "other"]
  /\ invalidTraceRetries = 0 /\ serverOverloadRetries = 0
  /\ sends = 0 /\ ran = 0 /\ result = NoError

Adapter ==
  Start \/ Verify \/ Send \/ Succeeds \/ Refused \/ Breaks \/ Retry \/ GiveUp \/ Slept

Next == Adapter \/ CancelInference

Spec == Init /\ [][Next]_vars

-----------------------------------------------------------------------------
(* Properties.                                                             *)

\* A request the provider may have run, and bill, is never sent again by the
\* adapter, however its refusals and retries are mixed; refusals of both kinds
\* in any order lead to no more requests than both budgets allow; and what the
\* call ends with is an error that Proxy's fallback and accounting are
\* modelled for.
RepeatsAreSafe ==
  /\ ran <= 1
  /\ sends <= 1 + maxInvalidTraceRetries + maxServerOverloadRetries
  /\ pc = "done" /\ result # NoError =>
       result \in ProviderErrors(Statuses, ctx = "live")

=============================================================================
