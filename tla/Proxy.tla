-------------------------------- MODULE Proxy --------------------------------
(***************************************************************************)
(* One inference request through GenerateService.Proxy: authentication,    *)
(* the guest checks, model resolution, validation, PII masking, the credit *)
(* hold, the provider call and its fallback, and the settlement.           *)
(*                                                                         *)
(* Around it run the client, which may leave at any moment, the operator,  *)
(* who may edit the catalog between two reads of it, and the keeper of the *)
(* credit hold (HoldKeeper), which cancels the inference when it is lost.  *)
(* A stream is the ProxyStream the handler relays: here only its end.      *)
(***************************************************************************)
EXTENDS GatewayErrors, Sequences

CONSTANTS
  Statuses,      \* HTTP statuses a failing provider answers with
  MaxEdits       \* bound on catalog edits during the request

ASSUME StatusesAssumption ==
  Statuses \subseteq 400 .. 599 /\ MaxEdits \in Nat

\* What Proxy looks at in the request and its account.  wants is the output
\* limit it asks for, against the guest limit.
Requests ==
  {r \in [endpoint : {"chat", "systemone"}, stream : BOOLEAN, guest : BOOLEAN,
          wants : {"less", "more"}, pii : {"off", "strict", "open"}] :
     r.endpoint = "systemone" => ~r.stream}

\* A public model: whether the request is valid for its provider and for its
\* fallback, and whether that fallback serves the endpoint.
Models == [kind : {"model"}, guestAllowed : BOOLEAN, valid : BOOLEAN,
           fallback : {"none", "serves", "unserving"}, fallbackValid : BOOLEAN]

\* What the catalog has under the requested name.
Absent == [kind |-> "absent"]
Router == [kind |-> "router"]
Entries == Models \cup {Absent, Router}

NoModel == [kind |-> "none"]

VARIABLES
  rq,          \* the request
  catalog,     \* the entry of the requested name
  edits,       \* catalog edits so far
  raced,       \* history: one fell between checkGuestModel's read and
               \*   resolveModel's
  client,      \* the client's connection is up
  pc,          \* where Proxy is
  model,       \* the resolved model
  capped,      \* capOutput replaced the output limit
  masked,      \* the body went through the PII filter
  routed,      \* the router was called
  target,      \* the provider being tried: primary, fallback
  runs,        \* requests that reached a provider
  ctx,         \* the inference context: none, live, lost, stopped
  keeper,      \* the hold's keeper: off, on, stopped
  hold,        \* the credit hold: none, open, settled
  err,         \* the error in hand
  raised,      \* the error a step ended with, before clientGone
  outcomes,    \* terminal outcomes counted (GenerationsTotal)
  ledger,      \* settlements and failure records sent to Metering
  answer       \* what the client was answered with

vars == <<rq, catalog, edits, raced, client, pc, model, capped, masked, routed,
          target, runs, ctx, keeper, hold, err, raised, outcomes, ledger,
          answer>>

\* Groups of variables for UNCHANGED.
world == <<rq, catalog, edits, raced, client>>
body == <<model, capped, masked, routed>>
inference == <<target, runs, ctx, keeper, hold>>
books == <<outcomes, ledger>>

Gone == ~client

-----------------------------------------------------------------------------
(* Before the hold.                                                        *)

\* An error that ends the request before any provider call.  Failures of a
\* resolved request are also recorded with Metering, without a reservation.
EndEarly(e, failureRecord) ==
  /\ raised' = e
  /\ err' = e
  /\ outcomes' = outcomes + 1
  /\ ledger' = ledger \o failureRecord
  /\ answer' = "error"
  /\ pc' = "done"
  /\ UNCHANGED <<world, body, inference>>

\* The same for an error that passes through clientGone.
EndEarlyGone(e, failureRecord) ==
  /\ raised' = e
  /\ err' = clientGone(Gone, e)
  /\ outcomes' = outcomes + 1
  /\ ledger' = ledger \o failureRecord
  /\ answer' = "error"
  /\ pc' = "done"
  /\ UNCHANGED <<world, body, inference>>

Unheld(e) == <<[kind |-> "unheld", err |-> e]>>

Authenticate ==
  /\ pc = "auth"
  /\ \/ /\ pc' = IF rq.guest THEN "guest" ELSE "resolve"
        /\ UNCHANGED <<world, body, inference, err, raised, books, answer>>
     \/ \E e \in MeteringErrors("authenticate", Gone) : EndEarlyGone(e, <<>>)

\* GetPublicModel of the requested name: ErrUnsupportedModel unless it is a
\* public model, or a failure of the call.
CatalogFailures == MeteringErrors("model", Gone) \ Refusals("model")

\* The requested name is a model that guests may use.
OpenToGuests == catalog.kind = "model" /\ catalog.guestAllowed

\* Mutant of checkGuestModel: any public model will do.
checkGuestModelPublic ==
  /\ pc = "guest"
  /\ \/ /\ rq.endpoint = "chat" /\ catalog.kind = "model"
        /\ pc' = "cap"
        /\ UNCHANGED <<world, body, inference, err, raised, books, answer>>
     \/ /\ ~(rq.endpoint = "chat" /\ catalog.kind = "model")
        /\ EndEarlyGone(ErrGuestModelNotAllowed, <<>>)
     \/ /\ rq.endpoint = "chat"
        /\ \E e \in CatalogFailures : EndEarlyGone(e, <<>>)

checkGuestModel ==
  /\ pc = "guest"
  /\ \/ /\ rq.endpoint = "chat" /\ OpenToGuests
        /\ pc' = "cap"
        /\ UNCHANGED <<world, body, inference, err, raised, books, answer>>
     \/ /\ ~(rq.endpoint = "chat" /\ OpenToGuests)
        /\ EndEarlyGone(ErrGuestModelNotAllowed, <<>>)
     \/ /\ rq.endpoint = "chat"
        /\ \E e \in CatalogFailures : EndEarlyGone(e, <<>>)

\* A limit above the guest's, or none, is replaced by the guest's.
capOutput ==
  /\ pc = "cap"
  /\ \/ /\ capped' = (rq.wants = "more")
        /\ pc' = "resolve"
        /\ UNCHANGED <<world, model, masked, routed, inference, err, raised,
                       books, answer>>
     \/ rq.wants = "more" /\ EndEarlyGone(ErrInvalidField, <<>>)

resolveModel ==
  /\ pc = "resolve"
  /\ \/ /\ catalog.kind = "model"
        /\ model' = catalog
        /\ pc' = "validate"
        /\ UNCHANGED <<world, capped, masked, routed, inference, err, raised,
                       books, answer>>
     \/ /\ catalog.kind # "model" /\ rq.endpoint = "chat"
        /\ pc' = "router"
        /\ UNCHANGED <<world, body, inference, err, raised, books, answer>>
     \/ /\ catalog.kind # "model" /\ rq.endpoint # "chat"
        /\ EndEarlyGone(ErrUnsupportedModel, <<>>)
     \/ \E e \in CatalogFailures : EndEarlyGone(e, <<>>)

\* GetRouter: an unknown router is an unsupported model.
GetRouter ==
  /\ pc = "router"
  /\ \/ /\ catalog.kind = "router"
        /\ pc' = "route"
        /\ UNCHANGED <<world, body, inference, err, raised, books, answer>>
     \/ catalog.kind # "router" /\ EndEarlyGone(ErrUnsupportedModel, <<>>)
     \/ \E e \in MeteringErrors("router", Gone) \ Refusals("router") :
          EndEarlyGone(e, <<>>)

\* The router names a model, which is then read from the catalog; or it fails,
\* names none, or names one that is not there.
Route ==
  /\ pc = "route"
  /\ routed' = TRUE
  /\ \/ /\ \E m \in Models : model' = m
        /\ pc' = "validate"
        /\ UNCHANGED <<err, raised, books, answer>>
     \/ /\ \E e \in RouterErrors \cup MeteringErrors("model", Gone) :
             /\ raised' = e
             /\ err' = clientGone(Gone, e)
        /\ outcomes' = outcomes + 1
        /\ answer' = "error"
        /\ pc' = "done"
        /\ UNCHANGED <<model, ledger>>
  /\ UNCHANGED <<world, capped, masked, inference>>

\* validateRequest, before masking: the endpoint, the service tier, the proof
\* mode.
ValidateRequest ==
  /\ pc = "validate"
  /\ \/ /\ model.valid
        /\ pc' = "mask"
        /\ UNCHANGED <<world, body, inference, err, raised, books, answer>>
     \/ /\ ~model.valid
        /\ EndEarly(ErrUnsupportedEndpoint, Unheld(ErrUnsupportedEndpoint))

\* maskBody: a failing analyzer ends the request unless the filter is open.
maskBody ==
  /\ pc = "mask"
  /\ \/ /\ masked' = (rq.pii # "off")
        /\ pc' = "reserve"
        /\ UNCHANGED <<world, model, capped, routed, inference, err, raised,
                       books, answer>>
     \/ /\ rq.pii # "off" /\ Gone
        /\ EndEarlyGone(ErrClientCanceled, Unheld(ErrClientCanceled))
     \/ /\ rq.pii = "open"
        /\ pc' = "reserve"
        /\ UNCHANGED <<world, body, inference, err, raised, books, answer>>
     \/ /\ rq.pii = "strict"
        /\ EndEarlyGone(ErrInternal, Unheld(clientGone(Gone, ErrInternal)))

-----------------------------------------------------------------------------
(* The hold and the inference.                                             *)

\* Mutant of Reserve: an unreachable Metering does not stop the request.
ReserveOptimistic ==
  /\ pc = "reserve"
  /\ hold' \in {"open", "none"}
  /\ ctx' = "live"
  /\ keeper' \in {"on", "off"}
  /\ pc' = "attempt"
  /\ UNCHANGED <<world, body, target, runs, err, raised, books, answer>>

\* Reserve.  A call that fails may have opened a hold all the same: without its
\* id nothing renews or settles it, and its lease ends it (HoldKeeper).  After a
\* success the request no longer follows the client's connection, and
\* KeepReservation starts if Metering advertised a lease.
Reserve ==
  /\ pc = "reserve"
  /\ \/ /\ hold' = "open"
        /\ ctx' = "live"
        /\ keeper' \in {"on", "off"}
        /\ pc' = "attempt"
        /\ UNCHANGED <<world, body, target, runs, err, raised, books, answer>>
     \/ \E e \in MeteringErrors("reserve", Gone) : EndEarlyGone(e, <<>>)

targetValid == IF target = "primary" THEN model.valid ELSE model.fallbackValid

\* attempt: validate for this target, find its provider, call it.  A canceled
\* context ends the call before it leaves.
Attempt ==
  /\ pc = "attempt"
  /\ \/ /\ targetValid /\ ctx = "live"
        /\ runs' = runs + 1
        /\ pc' = "calling"
        /\ UNCHANGED err
     \/ /\ \E e \in {ErrUnsupportedEndpoint, ErrNotRegistered, ErrClientCanceled} :
             /\ e = ErrUnsupportedEndpoint <=> ~targetValid
             /\ e = ErrClientCanceled => ctx = "lost"
             /\ err' = e
        /\ pc' = "failed"
        /\ UNCHANGED runs
  /\ UNCHANGED <<world, body, target, ctx, keeper, hold, raised, books, answer>>

\* The provider call fails, or its answer reads as a failure (observeJSON,
\* observeSystemOne, prime).
ProviderFails ==
  /\ pc = "calling"
  /\ err' \in ProviderErrors(Statuses, ctx = "live")
  /\ pc' = "failed"
  /\ UNCHANGED <<world, body, inference, raised, books, answer>>

\* A complete answer: finish settles it before the client gets the body.
ProviderCompletes ==
  /\ pc = "calling" /\ ~rq.stream
  /\ pc' = "settling"
  /\ err' = NoError
  /\ answer' = "body"
  /\ UNCHANGED <<world, body, inference, raised, books>>

\* The stream was primed: Proxy returns it and the handler relays it.
StreamStarts ==
  /\ pc = "calling" /\ rq.stream
  /\ pc' = "streaming"
  /\ err' = NoError
  /\ answer' = "stream"
  /\ UNCHANGED <<world, body, inference, raised, books>>

\* Mutant of StreamEnds: a canceled context leaves the read blocked.
StreamEndsLive ==
  /\ pc = "streaming" /\ ctx = "live"
  /\ err' \in {NoError, ErrProviderError(502), ErrClientCanceled}
  /\ pc' = "settling"
  /\ UNCHANGED <<world, body, inference, raised, books, answer>>

\* onEnd: the stream ended, in full or with an error.  The context's cause
\* replaces an error, never a success.  closed_before_eof is a cancellation.
StreamEnds ==
  /\ pc = "streaming"
  /\ \E e \in {NoError, ErrProviderError(502), ErrClientCanceled} :
       err' = IF e # NoError /\ ctx = "lost" THEN ErrInternal ELSE e
  /\ pc' = "settling"
  /\ UNCHANGED <<world, body, inference, raised, books, answer>>

\* Mutant of TryFallback: the primary's failure is recorded on the way.
TryFallbackRecorded ==
  /\ pc = "failed"
  /\ client
  /\ shouldTryFallback(ctx = "live", err,
                       target = "primary" /\ model.fallback # "none")
  /\ model.fallback = "serves"
  /\ target' = "fallback"
  /\ err' = NoError
  /\ ledger' = Append(ledger, [kind |-> "failure", err |-> err])
  /\ pc' = "attempt"
  /\ UNCHANGED <<world, body, runs, ctx, keeper, hold, raised, outcomes, answer>>

\* The fallback's model serves the endpoint (SupportsEndpoint).
TryFallback ==
  /\ pc = "failed"
  /\ client
  /\ shouldTryFallback(ctx = "live", err,
                       target = "primary" /\ model.fallback # "none")
  /\ model.fallback = "serves"
  /\ target' = "fallback"
  /\ err' = NoError
  /\ pc' = "attempt"
  /\ UNCHANGED <<world, body, runs, ctx, keeper, hold, raised, books, answer>>

\* Mutant of GiveUp: the context's cause is not looked at.
GiveUpAsIs ==
  /\ pc = "failed"
  /\ ~(/\ client
       /\ shouldTryFallback(ctx = "live", err,
                            target = "primary" /\ model.fallback # "none")
       /\ model.fallback = "serves")
  /\ answer' = "error"
  /\ pc' = "settling"
  /\ UNCHANGED <<world, body, inference, err, raised, books>>

\* No fallback, or it failed too: the error is settled, as the context's cause
\* when the hold was lost.
GiveUp ==
  /\ pc = "failed"
  /\ ~(/\ client
       /\ shouldTryFallback(ctx = "live", err,
                            target = "primary" /\ model.fallback # "none")
       /\ model.fallback = "serves")
  /\ err' = IF ctx = "lost" THEN ErrInternal ELSE err
  /\ answer' = "error"
  /\ pc' = "settling"
  /\ UNCHANGED <<world, body, inference, raised, books>>

-----------------------------------------------------------------------------
(* Settlement: finishProxy, or Proxy's error path.                         *)

\* Mutant of Settle: a reported usage settles as a success.
SettleAsSuccess ==
  /\ pc = "settling"
  /\ hold' = "settled"
  /\ ledger' = Append(ledger, [kind |-> "success", err |-> err])
  /\ outcomes' = outcomes + 1
  /\ pc' = "stopping"
  /\ UNCHANGED <<world, body, target, runs, ctx, keeper, err, raised, answer>>

\* RecordSuccess or RecordFailure, on a context nothing cancels.
Settle ==
  /\ pc = "settling"
  /\ hold' = "settled"
  /\ ledger' = Append(ledger,
                 [kind |-> IF err = NoError THEN "success" ELSE "failure",
                  err |-> err])
  /\ outcomes' = outcomes + 1
  /\ pc' = "stopping"
  /\ UNCHANGED <<world, body, target, runs, ctx, keeper, err, raised, answer>>

\* stopLease: stop the keeper, then cancel the inference context.
StopLease ==
  /\ pc = "stopping"
  /\ keeper' = IF keeper = "on" THEN "stopped" ELSE keeper
  /\ ctx' = IF ctx = "live" THEN "stopped" ELSE ctx
  /\ pc' = "done"
  /\ UNCHANGED <<world, body, target, runs, hold, err, raised, books, answer>>

-----------------------------------------------------------------------------
(* The world around the request.                                           *)

\* The keeper reports the hold lost and the inference is canceled.
HoldLost ==
  /\ keeper = "on" /\ ctx = "live"
  /\ ctx' = "lost"
  /\ UNCHANGED <<world, pc, body, target, runs, keeper, hold, err, raised,
                 books, answer>>

ClientLeaves ==
  /\ client /\ pc # "done"
  /\ client' = FALSE
  /\ UNCHANGED <<rq, catalog, edits, raced, pc, body, inference, err, raised, books,
                 answer>>

\* An operator edits the entry: opens or closes a model to guests, changes its
\* providers, retires it, or puts a router in its place.
CatalogEdit ==
  /\ edits < MaxEdits /\ pc \in {"auth", "guest", "cap", "resolve", "router"}
  /\ edits' = edits + 1
  /\ raced' = (raced \/ pc \in {"cap", "resolve"})
  /\ catalog' \in Entries \ {catalog}
  /\ UNCHANGED <<rq, client, pc, body, inference, err, raised, books, answer>>

-----------------------------------------------------------------------------
Init ==
  /\ rq \in Requests
  /\ catalog \in Entries
  /\ edits = 0
  /\ raced = FALSE
  /\ client = TRUE
  /\ pc = "auth"
  /\ model = NoModel
  /\ capped = FALSE
  /\ masked = FALSE
  /\ routed = FALSE
  /\ target = "primary"
  /\ runs = 0
  /\ ctx = "none"
  /\ keeper = "off"
  /\ hold = "none"
  /\ err = NoError
  /\ raised = NoError
  /\ outcomes = 0
  /\ ledger = <<>>
  /\ answer = "none"

Handle ==
  \/ Authenticate \/ checkGuestModel \/ capOutput \/ resolveModel \/ GetRouter \/ Route
  \/ ValidateRequest \/ maskBody \/ Reserve
  \/ Attempt \/ TryFallback \/ GiveUp
  \/ Settle \/ StopLease

\* The steps that wait for the provider.
Provider == ProviderFails \/ ProviderCompletes \/ StreamStarts \/ StreamEnds

Next == Handle \/ Provider \/ HoldLost \/ ClientLeaves \/ CatalogEdit

\* The request's goroutine runs, and its calls of Metering, the router and the
\* analyzer return: their clients have a timeout.  Of the provider nothing is
\* assumed: the error report of a failing stream is read without a guard
\* (SilenceGuard), Tinfoil's attestation takes no context, and a stream may go
\* on for as long as it speaks.  But a stream's reads end with the context they
\* run under.
Fairness == WF_vars(Handle) /\ WF_vars(StreamEnds /\ ctx = "lost")

Spec == Init /\ [][Next]_vars
FairSpec == Spec /\ Fairness

-----------------------------------------------------------------------------
(* Properties.                                                             *)

\* The credit promise: a provider runs only on held credit, at most twice, and
\* held credit is settled once at most, whatever fails in between.
Credit == INSTANCE CreditHold WITH
  MaxRuns <- 2,
  credit <- IF hold = "open" THEN "held" ELSE hold,
  runs <- runs

KeepsCredit == Credit!Spec
\* Each request is counted once, and Metering hears of it at most once: a
\* settlement of the hold when there is one, else at most one failure record.
AccountedOnce ==
  /\ Len(ledger) <= 1
  /\ outcomes = IF pc \in {"stopping", "done"} THEN 1 ELSE 0
  /\ pc = "done" /\ ctx # "none" =>
       Len(ledger) = 1 /\ ledger[1].kind \in {"success", "failure"}
  /\ ctx = "none" => \A i \in DOMAIN ledger : ledger[i].kind = "unheld"

\* What Metering is told agrees with what the client got: a body was settled
\* as a success, an error as that error, and no success hides an error.
SettledAsAnswered ==
  pc = "done" /\ ctx # "none" =>
    /\ answer = "body" => ledger[1].kind = "success"
    /\ answer = "error" => ledger[1].kind = "failure" /\ err # NoError
    /\ ledger[1].err = err

\* A client that hangs up once the provider runs still pays for the answer: a
\* held request is settled as the client's cancellation only when its stream
\* could not be relayed at all.  A provider call canceled because the hold was
\* lost looks like one, and is never blamed on the client.
HangUpStillCharged ==
  \A i \in DOMAIN ledger :
    ledger[i].kind = "failure" /\ ledger[i].err = ErrClientCanceled =>
      answer = "stream"

\* A guest holds credit only for chat, with its output within the guest limit,
\* and only for a model open to guests; nor does it make the router work, whose
\* calls cost money before any credit is checked.  Nothing but an edit that falls
\* between checkGuestModel's read and resolveModel's, which the code does not
\* look for, makes an exception: not one before, nor one after.  Other accounts'
\* limits are left as sent.  And no body reaches a provider unfiltered when the
\* filter is to fail closed.
RunsOnlyAsAllowed ==
  /\ rq.guest /\ hold # "none" =>
       /\ rq.endpoint = "chat" /\ (capped <=> rq.wants = "more")
       /\ model.guestAllowed \/ raced
  /\ rq.guest /\ routed => raced
  /\ ~rq.guest => ~capped
  /\ runs > 0 /\ rq.pii = "strict" => masked

\* Errors of the caller keep their meaning when the client has left: only
\* failures that are the gateway's own become a cancellation.  The gateway's
\* own failures are its 5xx errors.
CallerErrorsKeepMeaning ==
  raised # NoError /\ raised.status < 500 => err = raised

\* Every request ends, whoever leaves and whatever fails, unless its provider
\* keeps it: by a call that never returns, or by a stream that never ends.  A
\* stream whose hold is lost ends, however much the provider has to say.
EveryRequestEnds ==
  \/ <>(pc = "done")
  \/ <>[](pc = "calling")
  \/ <>[](pc = "streaming" /\ ctx = "live")

=============================================================================
