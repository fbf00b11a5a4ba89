----------------------------- MODULE ProxyProofs -----------------------------
(***************************************************************************)
(* Theorems about Proxy, for every set of provider statuses and any number *)
(* of catalog edits: the credit promise as a refinement, the books, and    *)
(* what a guest may use.                                                   *)
(***************************************************************************)
EXTENDS Proxy, TLAPS

-----------------------------------------------------------------------------
(* The inductive invariant.                                                *)

\* Before the hold, and while it is open.
Early == {"auth", "guest", "cap", "resolve", "router", "route", "validate",
          "mask", "reserve"}
Holding == {"attempt", "calling", "failed", "streaming", "settling"}

\* Past the hold: the request ended, or is about to, with what it was told.
Settling == pc \in {"settling", "stopping"} \/ (pc = "done" /\ ctx # "none")

\* The one entry of the ledger.
Told(kind, e) == <<[kind |-> kind, err |-> e]>>

TypeOK ==
  /\ rq \in Requests /\ catalog \in Entries /\ edits \in Nat
  /\ model \in Models \cup {NoModel}
  /\ raced \in BOOLEAN
  /\ client \in BOOLEAN /\ capped \in BOOLEAN /\ masked \in BOOLEAN /\ routed \in BOOLEAN
  /\ pc \in Early \cup Holding \cup {"stopping", "done"}
  /\ target \in {"primary", "fallback"} /\ runs \in Nat
  /\ ctx \in {"none", "live", "lost", "stopped"}
  /\ keeper \in {"off", "on", "stopped"}
  /\ hold \in {"none", "open", "settled"}
  /\ outcomes \in Nat
  /\ answer \in {"none", "body", "stream", "error"}

\* Where Proxy is tells what was held, counted and recorded.
Books ==
  /\ pc \in Early =>
       /\ hold = "none" /\ ctx = "none" /\ runs = 0 /\ target = "primary"
       /\ ledger = <<>> /\ outcomes = 0 /\ err = NoError
  /\ pc \in Holding =>
       hold = "open" /\ ctx \in {"live", "lost"} /\ ledger = <<>> /\ outcomes = 0
  /\ pc = "stopping" => ctx \in {"live", "lost"}
  /\ pc = "stopping" \/ (pc = "done" /\ ctx # "none") =>
       /\ hold = "settled" /\ outcomes = 1
       /\ ledger = Told(IF err = NoError THEN "success" ELSE "failure", err)
  /\ pc = "done" /\ ctx = "none" =>
       /\ hold = "none" /\ runs = 0 /\ outcomes = 1
       /\ ledger = <<>> \/ \E e : ledger = Told("unheld", e)

\* What the client is answered with agrees with the error in hand.  A canceled
\* call is the context's doing until GiveUp replaces it with the cause.
Answers ==
  /\ pc \in Early \cup {"attempt", "calling", "failed"} => answer = "none"
  /\ pc = "failed" => err # NoError /\ (err = ErrClientCanceled => ctx = "lost")
  /\ pc = "streaming" => answer = "stream"
  /\ Settling =>
       /\ answer = "body" => err = NoError
       /\ answer = "error" => err # NoError
       /\ err = ErrClientCanceled => answer = "stream"

\* Each target is called once at most.
Targets ==
  runs <= (IF target = "primary" THEN 0 ELSE 1)
            + (IF pc \in Early \cup {"attempt"} THEN 0 ELSE 1)

\* What is known of a guest's request, from step to step.
Guests ==
  /\ ~rq.guest => ~capped /\ pc \notin {"guest", "cap"}
  /\ rq.guest =>
       /\ pc \notin {"auth", "guest", "done"} \/ hold # "none" => rq.endpoint = "chat"
       /\ pc \notin {"auth", "guest", "cap", "done"} \/ hold # "none" =>
            (capped <=> rq.wants = "more")
       /\ pc \in {"cap", "resolve"} => OpenToGuests \/ raced
       /\ pc \in {"router", "route"} => raced
       /\ pc \in {"validate", "mask", "reserve"} \/ hold # "none" =>
            model.guestAllowed \/ raced
       /\ routed => raced

\* A strict filter has been applied once the hold is asked for.
Masks ==
  rq.pii = "strict" /\ (pc \in Holding \cup {"reserve", "stopping"} \/ hold # "none") =>
    masked

PInv == TypeOK /\ Books /\ Answers /\ Targets /\ Guests /\ Masks

-----------------------------------------------------------------------------
(* Facts about errors and the ledger.                                      *)

\* The ledger's one entry is its first and its last.
LEMMA ToldFact ==
  ASSUME NEW kind, NEW e
  PROVE  /\ Len(Told(kind, e)) = 1
         /\ DOMAIN Told(kind, e) = {1}
         /\ Told(kind, e)[1].kind = kind /\ Told(kind, e)[1].err = e
  BY DEF Told

\* A provider call fails with an error, and with the client's cancellation
\* only under a context that ended.
LEMMA ProviderErrorsFact ==
  ASSUME NEW live \in BOOLEAN, NEW e \in ProviderErrors(Statuses, live)
  PROVE  e # NoError /\ (e = ErrClientCanceled => ~live)
<1>0. \A code, status : Error(code, status).code = code
  BY DEF Error
<1>1. \A status \in Statuses :
        mapProviderError(status).code \notin {"none", "client_canceled"}
  <2> TAKE status \in Statuses
  <2>1. status \in Int
    BY StatusesAssumption
  <2>2. \/ mapProviderError(status) = ErrProviderConfiguration
        \/ mapProviderError(status) = ErrProviderRateLimited
        \/ mapProviderError(status) = ErrProviderUnavailable
        \/ mapProviderError(status) = ErrProviderTimeout
        \/ mapProviderError(status) = ErrProviderError(status)
        \/ mapProviderError(status) = ErrProviderRejected(status)
    BY <2>1 DEF mapProviderError
  <2> QED
    BY <1>0, <2>2 DEF ErrProviderConfiguration, ErrProviderRateLimited,
       ErrProviderUnavailable, ErrProviderTimeout, ErrProviderError, ErrProviderRejected
<1>2. \A f \in NetworkErrors \cup TypeSafeErrors(Statuses) \cup {ErrInternal} :
        f.code \notin {"none", "client_canceled"}
  BY <1>0 DEF NetworkErrors, TypeSafeErrors, ErrProviderTimeout, ErrProviderUnavailable,
     ErrProviderError, ErrInternal
<1>3. NoError.code = "none" /\ ErrClientCanceled.code = "client_canceled"
  BY <1>0 DEF NoError, ErrClientCanceled
<1> QED
  BY <1>1, <1>2, <1>3 DEF ProviderErrors

-----------------------------------------------------------------------------
(* What several steps have in common.                                      *)

\* A step before the hold that touches neither hold, books nor answer.
LEMMA StaysEarly ==
  ASSUME PInv, pc \in Early, pc' \in Early,
         UNCHANGED <<inference, err, books, answer>>
  PROVE  Books' /\ Answers' /\ Targets'
<1> USE DEF PInv, inference, books
<1>1. Books'
  BY DEF Books, Early, Holding
<1>2. Answers'
  BY DEF Answers, Early, Settling
<1>3. Targets'
  BY DEF Targets
<1> QED
  BY <1>1, <1>2, <1>3

\* A request that ends before the hold: counted once, recorded at most once,
\* and not as a settlement.
LEMMA EndsEarly ==
  ASSUME PInv, pc \in Early, pc' = "done",
         NEW record, ledger' = ledger \o record,
         record = <<>> \/ \E e : record = Told("unheld", e),
         outcomes' = outcomes + 1, answer' = "error",
         UNCHANGED <<rq, catalog, edits, raced, client, capped, inference>>,
         model' \in Models \cup {NoModel}, masked' \in BOOLEAN,
         routed' \in BOOLEAN, rq.guest /\ routed' => raced
  PROVE  PInv'
<1> USE DEF PInv, inference
<1>1. ledger' = <<>> \/ \E e : ledger' = Told("unheld", e)
  BY DEF Books, Told
<1>2. TypeOK'
  BY DEF TypeOK, Early
<1>3. Books'
  BY <1>1 DEF Books, Early, Holding
<1>4. Answers' /\ Targets'
  BY DEF Answers, Targets, Books, Settling, Early
<1>5. Guests' /\ Masks'
  BY DEF Guests, Masks, Books, Holding
<1> QED
  BY <1>2, <1>3, <1>4, <1>5

\* A step past the hold does not touch the request and its body.
LEMMA BodyKept ==
  ASSUME PInv, hold # "none", hold' # "none", pc' \notin Early,
         UNCHANGED <<rq, catalog, edits, raced, body>>
  PROVE  Guests' /\ Masks'
<1> USE DEF PInv, body
<1>1. Guests'
  BY DEF Guests, Early
<1>2. Masks'
  BY DEF Masks, Early
<1> QED
  BY <1>1, <1>2

\* EndEarly and EndEarlyGone are such ends.
LEMMA EndsEarlyWith ==
  ASSUME PInv, pc \in Early, NEW e, NEW record,
         record = <<>> \/ \E f : record = Told("unheld", f),
         EndEarly(e, record) \/ EndEarlyGone(e, record)
  PROVE  PInv'
<1>1. /\ pc' = "done" /\ ledger' = ledger \o record
      /\ outcomes' = outcomes + 1 /\ answer' = "error"
      /\ UNCHANGED <<world, body, inference>>
  BY DEF EndEarly, EndEarlyGone
<1>2. model' \in Models \cup {NoModel} /\ masked' \in BOOLEAN /\ routed' \in BOOLEAN
  BY <1>1 DEF PInv, TypeOK, body
<1>3. rq.guest /\ routed' => raced
  BY <1>1, Zenon DEF PInv, Guests, body
<1>4. UNCHANGED <<rq, catalog, edits, raced, client, capped, inference>>
  BY <1>1 DEF world, body
<1> QED
  BY <1>1, <1>2, <1>3, <1>4, EndsEarly

-----------------------------------------------------------------------------
(* Before the hold.                                                        *)

\* A request is the invariant's from its arrival.
LEMMA InitStep == Init => PInv
<1> SUFFICES ASSUME Init PROVE PInv
  OBVIOUS
<1> USE DEF Init
<1>1. TypeOK
  BY DEF TypeOK, Early
<1>2. Books /\ Targets
  BY DEF Books, Targets, Early, Holding
<1>3. Answers
  BY DEF Answers, Settling
<1>4. Guests /\ Masks
  BY DEF Guests, Masks, Holding
<1> QED
  BY <1>1, <1>2, <1>3, <1>4 DEF PInv

\* Authentication tells guests from the others.
LEMMA AuthenticateStep == ASSUME PInv, Authenticate PROVE PInv'
<1>1. pc \in Early /\ pc = "auth"
  BY DEF Authenticate, Early
<1>2. CASE /\ pc' = IF rq.guest THEN "guest" ELSE "resolve"
           /\ UNCHANGED <<world, body, inference, err, raised, books, answer>>
  <2> USE <1>1, <1>2 DEF PInv, world, body, Early
  <2>1. Books' /\ Answers' /\ Targets'
    BY StaysEarly
  <2>2. TypeOK'
    BY DEF TypeOK, inference, books
  <2>3. Guests' /\ Masks'
    BY DEF Guests, Masks, Books, Holding, inference, OpenToGuests
  <2> QED
    BY <2>1, <2>2, <2>3
<1>3. CASE \E e \in MeteringErrors("authenticate", Gone) : EndEarlyGone(e, <<>>)
  BY <1>1, <1>3, EndsEarlyWith
<1> QED
  BY <1>2, <1>3 DEF Authenticate

\* A guest goes on only for chat and a model that was open to guests.
LEMMA checkGuestModelStep == ASSUME PInv, checkGuestModel PROVE PInv'
<1>1. pc \in Early /\ pc = "guest"
  BY DEF checkGuestModel, Early
<1>2. CASE /\ rq.endpoint = "chat" /\ OpenToGuests
           /\ pc' = "cap"
           /\ UNCHANGED <<world, body, inference, err, raised, books, answer>>
  <2> USE <1>1, <1>2 DEF PInv, world, body, Early
  <2>1. Books' /\ Answers' /\ Targets'
    BY StaysEarly
  <2>2. TypeOK'
    BY DEF TypeOK, inference, books
  <2>3. Guests' /\ Masks'
    BY DEF Guests, Masks, Books, Holding, inference, OpenToGuests
  <2> QED
    BY <2>1, <2>2, <2>3
<1>3. CASE \E e : EndEarlyGone(e, <<>>)
  BY <1>1, <1>3, EndsEarlyWith
<1> QED
  BY <1>2, <1>3 DEF checkGuestModel

\* A guest's limit is the smaller of its own and the guest limit from here on.
LEMMA capOutputStep == ASSUME PInv, capOutput PROVE PInv'
<1>1. pc \in Early /\ pc = "cap"
  BY DEF capOutput, Early
<1>2. CASE /\ capped' = (rq.wants = "more")
           /\ pc' = "resolve"
           /\ UNCHANGED <<world, model, masked, routed, inference, err, raised,
                          books, answer>>
  <2> USE <1>1, <1>2 DEF PInv, world, Early
  <2>1. Books' /\ Answers' /\ Targets'
    BY StaysEarly
  <2>2. TypeOK'
    BY DEF TypeOK, inference, books
  <2>3. Guests' /\ Masks'
    BY DEF Guests, Masks, Books, Holding, inference, OpenToGuests
  <2> QED
    BY <2>1, <2>2, <2>3
<1>3. CASE \E e : EndEarlyGone(e, <<>>)
  BY <1>1, <1>3, EndsEarlyWith
<1> QED
  BY <1>2, <1>3 DEF capOutput

\* What resolveModel reads is what checkGuestModel read, or was edited since.
LEMMA resolveModelStep == ASSUME PInv, resolveModel PROVE PInv'
<1>1. pc \in Early /\ pc = "resolve"
  BY DEF resolveModel, Early
<1>2. CASE /\ catalog.kind = "model"
           /\ model' = catalog
           /\ pc' = "validate"
           /\ UNCHANGED <<world, capped, masked, routed, inference, err, raised,
                          books, answer>>
  <2> USE <1>1, <1>2 DEF PInv, world, Early
  <2>1. Books' /\ Answers' /\ Targets'
    BY StaysEarly
  <2>2. catalog \in Models
    BY DEF TypeOK, Entries, Absent, Router
  <2>3. TypeOK'
    BY <2>2 DEF TypeOK, inference, books
  <2>4. Guests' /\ Masks'
    BY DEF Guests, Masks, Books, Holding, inference, OpenToGuests
  <2> QED
    BY <2>1, <2>3, <2>4
<1>3. CASE /\ catalog.kind # "model" /\ rq.endpoint = "chat"
           /\ pc' = "router"
           /\ UNCHANGED <<world, body, inference, err, raised, books, answer>>
  <2> USE <1>1, <1>3 DEF PInv, world, body, Early
  <2>1. Books' /\ Answers' /\ Targets'
    BY StaysEarly
  <2>2. TypeOK'
    BY DEF TypeOK, inference, books
  <2>3. Guests' /\ Masks'
    BY DEF Guests, Masks, Books, Holding, inference, OpenToGuests
  <2> QED
    BY <2>1, <2>2, <2>3
<1>4. CASE \E e : EndEarlyGone(e, <<>>)
  BY <1>1, <1>4, EndsEarlyWith
<1> QED
  BY <1>2, <1>3, <1>4 DEF resolveModel

\* A guest comes this far only when its entry was edited in between.
LEMMA GetRouterStep == ASSUME PInv, GetRouter PROVE PInv'
<1>1. pc \in Early /\ pc = "router"
  BY DEF GetRouter, Early
<1>2. CASE /\ pc' = "route"
           /\ UNCHANGED <<world, body, inference, err, raised, books, answer>>
  <2> USE <1>1, <1>2 DEF PInv, world, body, Early
  <2>1. Books' /\ Answers' /\ Targets'
    BY StaysEarly
  <2>2. TypeOK'
    BY DEF TypeOK, inference, books
  <2>3. Guests' /\ Masks'
    BY DEF Guests, Masks, Books, Holding, inference, OpenToGuests
  <2> QED
    BY <2>1, <2>2, <2>3
<1>3. CASE \E e : EndEarlyGone(e, <<>>)
  BY <1>1, <1>3, EndsEarlyWith
<1> QED
  BY <1>2, <1>3 DEF GetRouter

\* The router is called, and may fail.
LEMMA RouteStep == ASSUME PInv, Route PROVE PInv'
<1>1. /\ pc \in Early /\ pc = "route" /\ routed' = TRUE
      /\ UNCHANGED <<world, capped, masked, inference>>
  BY DEF Route, Early
<1>2. rq.guest => raced
  BY <1>1 DEF PInv, Guests
<1>3. CASE /\ \E m \in Models : model' = m
           /\ pc' = "validate"
           /\ UNCHANGED <<err, raised, books, answer>>
  <2> USE <1>1, <1>3 DEF PInv, world, Early
  <2>1. Books' /\ Answers' /\ Targets'
    BY StaysEarly
  <2>2. TypeOK'
    BY DEF TypeOK, inference, books
  <2>3. Guests' /\ Masks'
    BY <1>2 DEF Guests, Masks, Books, Holding, inference, OpenToGuests
  <2> QED
    BY <2>1, <2>2, <2>3
<1>4. CASE /\ outcomes' = outcomes + 1
           /\ answer' = "error"
           /\ pc' = "done"
           /\ UNCHANGED <<model, ledger>>
  <2>1. ledger' = ledger \o <<>>
    BY <1>1, <1>4 DEF PInv, Books
  <2>2. model' \in Models \cup {NoModel} /\ masked' \in BOOLEAN /\ routed' \in BOOLEAN
    BY <1>1, <1>4 DEF PInv, TypeOK
  <2>3. UNCHANGED <<rq, catalog, edits, raced, client, capped, inference>>
    BY <1>1 DEF world
  <2> QED
    BY <1>1, <1>2, <1>4, <2>1, <2>2, <2>3, EndsEarly
<1> QED
  BY <1>3, <1>4 DEF Route

\* A request that is not valid for the model's provider is recorded, unheld.
LEMMA ValidateRequestStep == ASSUME PInv, ValidateRequest PROVE PInv'
<1>1. pc \in Early /\ pc = "validate"
  BY DEF ValidateRequest, Early
<1>2. CASE /\ pc' = "mask"
           /\ UNCHANGED <<world, body, inference, err, raised, books, answer>>
  <2> USE <1>1, <1>2 DEF PInv, world, body, Early
  <2>1. Books' /\ Answers' /\ Targets'
    BY StaysEarly
  <2>2. TypeOK'
    BY DEF TypeOK, inference, books
  <2>3. Guests' /\ Masks'
    BY DEF Guests, Masks, Books, Holding, inference, OpenToGuests
  <2> QED
    BY <2>1, <2>2, <2>3
<1>3. CASE EndEarly(ErrUnsupportedEndpoint, Unheld(ErrUnsupportedEndpoint))
  BY <1>1, <1>3, EndsEarlyWith DEF Unheld, Told
<1> QED
  BY <1>2, <1>3 DEF ValidateRequest

\* A strict filter lets nothing on that it did not mask.
LEMMA maskBodyStep == ASSUME PInv, maskBody PROVE PInv'
<1>1. pc \in Early /\ pc = "mask"
  BY DEF maskBody, Early
<1>2. CASE /\ masked' = (rq.pii # "off")
           /\ pc' = "reserve"
           /\ UNCHANGED <<world, model, capped, routed, inference, err, raised,
                          books, answer>>
  <2> USE <1>1, <1>2 DEF PInv, world, Early
  <2>1. Books' /\ Answers' /\ Targets'
    BY StaysEarly
  <2>2. TypeOK'
    BY DEF TypeOK, inference, books
  <2>3. Guests' /\ Masks'
    BY DEF Guests, Masks, Books, Holding, inference, OpenToGuests
  <2> QED
    BY <2>1, <2>2, <2>3
<1>3. CASE /\ rq.pii = "open"
           /\ pc' = "reserve"
           /\ UNCHANGED <<world, body, inference, err, raised, books, answer>>
  <2> USE <1>1, <1>3 DEF PInv, world, body, Early
  <2>1. Books' /\ Answers' /\ Targets'
    BY StaysEarly
  <2>2. TypeOK'
    BY DEF TypeOK, inference, books
  <2>3. Guests' /\ Masks'
    BY DEF Guests, Masks, Books, Holding, inference, OpenToGuests
  <2> QED
    BY <2>1, <2>2, <2>3
<1>4. CASE \E e, f : EndEarlyGone(e, Unheld(f))
  BY <1>1, <1>4, EndsEarlyWith DEF Unheld, Told
<1> QED
  BY <1>2, <1>3, <1>4 DEF maskBody

\* Credit is held for a request that passed every check.
LEMMA ReserveStep == ASSUME PInv, Reserve PROVE PInv'
<1>1. pc \in Early /\ pc = "reserve"
  BY DEF Reserve, Early
<1>2. CASE /\ hold' = "open"
           /\ ctx' = "live"
           /\ keeper' \in {"on", "off"}
           /\ pc' = "attempt"
           /\ UNCHANGED <<world, body, target, runs, err, raised, books, answer>>
  <2> USE <1>1, <1>2 DEF PInv, world, body, books
  <2>1. TypeOK'
    BY DEF TypeOK, Holding
  <2>2. Books'
    BY DEF Books, Early, Holding
  <2>3. Answers' /\ Targets'
    BY DEF Answers, Targets, Settling
  <2>4. Guests' /\ Masks'
    BY DEF Guests, Masks, Holding
  <2> QED
    BY <2>1, <2>2, <2>3, <2>4
<1>3. CASE \E e : EndEarlyGone(e, <<>>)
  BY <1>1, <1>3, EndsEarlyWith
<1> QED
  BY <1>2, <1>3 DEF Reserve

-----------------------------------------------------------------------------
(* With the hold open.                                                     *)

\* A target is called, or fails before it is.
LEMMA AttemptStep == ASSUME PInv, Attempt PROVE PInv'
<1> USE DEF PInv
<1>1. /\ pc = "attempt" /\ hold = "open" /\ pc' \in {"calling", "failed"}
      /\ UNCHANGED <<world, body, target, ctx, keeper, hold, raised, books, answer>>
  BY DEF Attempt, Books, Holding
<1>2. runs' \in Nat /\ runs' <= runs + 1
  BY DEF Attempt, TypeOK
<1>3. pc' = "failed" => err' # NoError /\ (err' = ErrClientCanceled => ctx = "lost")
  <2>1. pc' = "failed" =>
          \E e \in {ErrUnsupportedEndpoint, ErrNotRegistered, ErrClientCanceled} :
            (e = ErrClientCanceled => ctx = "lost") /\ err' = e
    BY DEF Attempt
  <2>2. NoError \notin {ErrUnsupportedEndpoint, ErrNotRegistered, ErrClientCanceled}
    <3>1. NoError.code = "none" /\ ErrUnsupportedEndpoint.code = "unsupported_endpoint"
          /\ ErrNotRegistered.code = "provider_unavailable"
          /\ ErrClientCanceled.code = "client_canceled"
      BY DEF NoError, ErrUnsupportedEndpoint, ErrNotRegistered, ErrProviderUnavailable,
         ErrClientCanceled, Error
    <3> QED
      BY <3>1
  <2> QED
    BY <2>1, <2>2
<1> USE DEF world, books
<1>4. TypeOK'
  BY <1>1, <1>2 DEF TypeOK, Holding, body
<1>5. Books'
  BY <1>1 DEF Books, Holding, Early
<1>6. Answers'
  BY <1>1, <1>3 DEF Answers, Settling, Early
<1>7. Targets'
  BY <1>1, <1>2 DEF Targets, Early, TypeOK
<1>8. Guests' /\ Masks'
  BY <1>1, BodyKept DEF Early
<1> QED
  BY <1>4, <1>5, <1>6, <1>7, <1>8

\* The call fails with an error that says whose doing it was.
LEMMA ProviderFailsStep == ASSUME PInv, ProviderFails PROVE PInv'
<1> USE DEF PInv
<1>1. /\ pc = "calling" /\ hold = "open" /\ pc' = "failed" /\ ctx \in {"live", "lost"}
      /\ UNCHANGED <<world, body, inference, raised, books, answer>>
  BY DEF ProviderFails, Books, Holding
<1>2. err' # NoError /\ (err' = ErrClientCanceled => ctx = "lost")
  <2>1. err' \in ProviderErrors(Statuses, ctx = "live")
    BY DEF ProviderFails
  <2> QED
    BY <1>1, <2>1, ProviderErrorsFact
<1> USE DEF world, books, inference
<1>3. TypeOK'
  BY <1>1 DEF TypeOK, Holding, body
<1>4. Books'
  BY <1>1 DEF Books, Holding, Early
<1>5. Answers' /\ Targets'
  BY <1>1, <1>2 DEF Answers, Targets, Settling, Early
<1>6. Guests' /\ Masks'
  BY <1>1, BodyKept DEF Early
<1> QED
  BY <1>3, <1>4, <1>5, <1>6

\* A complete answer is no error.
LEMMA ProviderCompletesStep == ASSUME PInv, ProviderCompletes PROVE PInv'
<1> USE DEF PInv
<1>1. /\ pc = "calling" /\ hold = "open" /\ pc' = "settling"
      /\ err' = NoError /\ answer' = "body"
      /\ UNCHANGED <<world, body, inference, raised, books>>
  BY DEF ProviderCompletes, Books, Holding
<1>2. NoError # ErrClientCanceled
  BY DEF NoError, ErrClientCanceled, Error
<1> USE DEF world, books, inference
<1>3. TypeOK'
  BY <1>1 DEF TypeOK, Holding, body
<1>4. Books'
  BY <1>1 DEF Books, Holding, Early
<1>5. Answers' /\ Targets'
  BY <1>1, <1>2 DEF Answers, Targets, Settling, Early
<1>6. Guests' /\ Masks'
  BY <1>1, BodyKept DEF Early
<1> QED
  BY <1>3, <1>4, <1>5, <1>6

\* A primed stream is the client's answer, whatever becomes of it.
LEMMA StreamStartsStep == ASSUME PInv, StreamStarts PROVE PInv'
<1> USE DEF PInv
<1>1. /\ pc = "calling" /\ hold = "open" /\ pc' = "streaming"
      /\ err' = NoError /\ answer' = "stream"
      /\ UNCHANGED <<world, body, inference, raised, books>>
  BY DEF StreamStarts, Books, Holding
<1> USE DEF world, books, inference
<1>2. TypeOK'
  BY <1>1 DEF TypeOK, Holding, body
<1>3. Books'
  BY <1>1 DEF Books, Holding, Early
<1>4. Answers' /\ Targets'
  BY <1>1 DEF Answers, Targets, Settling, Early
<1>5. Guests' /\ Masks'
  BY <1>1, BodyKept DEF Early
<1> QED
  BY <1>2, <1>3, <1>4, <1>5

\* A stream may end with any error, the client's cancellation included.
LEMMA StreamEndsStep == ASSUME PInv, StreamEnds PROVE PInv'
<1> USE DEF PInv
<1>1. /\ pc = "streaming" /\ hold = "open" /\ pc' = "settling"
      /\ answer = "stream"
      /\ UNCHANGED <<world, body, inference, raised, books, answer>>
  BY DEF StreamEnds, Books, Holding, Answers
<1> USE DEF world, books, inference
<1>2. TypeOK'
  BY <1>1 DEF TypeOK, Holding, body
<1>3. Books'
  BY <1>1 DEF Books, Holding, Early
<1>4. Answers' /\ Targets'
  BY <1>1 DEF Answers, Targets, Settling, Early
<1>5. Guests' /\ Masks'
  BY <1>1, BodyKept DEF Early
<1> QED
  BY <1>2, <1>3, <1>4, <1>5

\* The fallback takes the primary's place, once.
LEMMA TryFallbackStep == ASSUME PInv, TryFallback PROVE PInv'
<1> USE DEF PInv
<1>1. /\ pc = "failed" /\ hold = "open" /\ pc' = "attempt"
      /\ target = "primary" /\ target' = "fallback"
      /\ UNCHANGED <<world, body, runs, ctx, keeper, hold, raised, books, answer>>
  BY DEF TryFallback, shouldTryFallback, Books, Holding
<1> USE DEF world, books
<1>2. TypeOK'
  BY <1>1 DEF TypeOK, Holding, body
<1>3. Books'
  BY <1>1 DEF Books, Holding, Early
<1>4. Answers' /\ Targets'
  BY <1>1 DEF Answers, Targets, Settling, Early
<1>5. Guests' /\ Masks'
  BY <1>1, BodyKept DEF Early
<1> QED
  BY <1>2, <1>3, <1>4, <1>5

\* A canceled call under a lost hold is settled as the gateway's failure.
LEMMA GiveUpStep == ASSUME PInv, GiveUp PROVE PInv'
<1> USE DEF PInv
<1>1. /\ pc = "failed" /\ hold = "open" /\ pc' = "settling" /\ answer' = "error"
      /\ err' = IF ctx = "lost" THEN ErrInternal ELSE err
      /\ UNCHANGED <<world, body, inference, raised, books>>
  BY DEF GiveUp, Books, Holding
<1>2. err' # NoError /\ err' # ErrClientCanceled
  <2>1. ErrInternal # NoError /\ ErrInternal # ErrClientCanceled
    <3>1. NoError.code = "none" /\ ErrInternal.code = "internal_error"
          /\ ErrClientCanceled.code = "client_canceled"
      BY DEF NoError, ErrInternal, ErrClientCanceled, Error
    <3> QED
      BY <3>1
  <2>2. err # NoError /\ (err = ErrClientCanceled => ctx = "lost")
    BY <1>1 DEF Answers
  <2> QED
    BY <1>1, <2>1, <2>2
<1> USE DEF world, books, inference
<1>3. TypeOK'
  BY <1>1 DEF TypeOK, Holding, body
<1>4. Books'
  BY <1>1 DEF Books, Holding, Early
<1>5. Answers' /\ Targets'
  BY <1>1, <1>2 DEF Answers, Targets, Settling, Early
<1>6. Guests' /\ Masks'
  BY <1>1, BodyKept DEF Early
<1> QED
  BY <1>3, <1>4, <1>5, <1>6

-----------------------------------------------------------------------------
(* Settlement, and the world around.                                       *)

\* The one entry is written when the hold is settled.
LEMMA SettleStep == ASSUME PInv, Settle PROVE PInv'
<1> USE DEF PInv
<1>1. /\ pc = "settling" /\ hold = "open" /\ pc' = "stopping" /\ hold' = "settled"
      /\ ledger = <<>> /\ outcomes = 0 /\ ctx \in {"live", "lost"}
      /\ outcomes' = outcomes + 1
      /\ UNCHANGED <<world, body, target, runs, ctx, keeper, err, raised, answer>>
  BY DEF Settle, Books, Holding
<1>2. ledger' = Told(IF err = NoError THEN "success" ELSE "failure", err)
  BY <1>1 DEF Settle, Told
<1> USE DEF world
<1>3. TypeOK'
  BY <1>1 DEF TypeOK, body
<1>4. Books'
  BY <1>1, <1>2 DEF Books, Holding, Early
<1>5. Answers' /\ Targets'
  BY <1>1 DEF Answers, Targets, Settling, Early
<1>6. Guests' /\ Masks'
  BY <1>1, BodyKept DEF Early
<1> QED
  BY <1>3, <1>4, <1>5, <1>6

\* Stopping the keeper leaves the books alone.
LEMMA StopLeaseStep == ASSUME PInv, StopLease PROVE PInv'
<1> USE DEF PInv
<1>1. /\ pc = "stopping" /\ hold = "settled" /\ pc' = "done"
      /\ ctx \in {"live", "lost"} /\ ctx' \in {"stopped", "lost"}
      /\ UNCHANGED <<world, body, target, runs, hold, err, raised, books, answer>>
  BY DEF StopLease, Books
<1>2. keeper' \in {"off", "on", "stopped"}
  BY DEF StopLease, TypeOK
<1> USE DEF world, books
<1>3. TypeOK'
  BY <1>1, <1>2 DEF TypeOK, body
<1>4. Books'
  BY <1>1 DEF Books, Holding, Early
<1>5. Answers' /\ Targets'
  BY <1>1 DEF Answers, Targets, Settling, Early
<1>6. Guests' /\ Masks'
  BY <1>1, BodyKept DEF Early
<1> QED
  BY <1>3, <1>4, <1>5, <1>6

\* A hold is lost only while there is one.
LEMMA HoldLostStep == ASSUME PInv, HoldLost PROVE PInv'
<1> USE DEF PInv
<1>1. /\ ctx = "live" /\ ctx' = "lost"
      /\ UNCHANGED <<world, pc, body, target, runs, keeper, hold, err, raised,
                     books, answer>>
  BY DEF HoldLost
<1> USE DEF world, body, books
<1>2. TypeOK'
  BY <1>1 DEF TypeOK
<1>3. Books'
  BY <1>1 DEF Books
<1>4. Answers' /\ Targets'
  BY <1>1 DEF Answers, Targets, Settling
<1>5. Guests' /\ Masks'
  BY <1>1 DEF Guests, Masks, OpenToGuests
<1> QED
  BY <1>2, <1>3, <1>4, <1>5

\* A client that leaves changes nothing by itself.
LEMMA ClientLeavesStep == ASSUME PInv, ClientLeaves PROVE PInv'
<1> USE DEF PInv
<1>0. client' \in BOOLEAN
  BY Zenon DEF ClientLeaves
<1>1. UNCHANGED <<rq, catalog, edits, raced, pc, body, inference, err, raised, books,
                  answer>>
  BY DEF ClientLeaves
<1> USE DEF body, inference, books
<1>2. TypeOK'
  BY <1>0, <1>1 DEF TypeOK
<1>3. Books'
  BY <1>1 DEF Books
<1>4. Answers' /\ Targets'
  BY <1>1 DEF Answers, Targets, Settling
<1>5. Guests' /\ Masks'
  BY <1>1 DEF Guests, Masks, OpenToGuests
<1> QED
  BY <1>2, <1>3, <1>4, <1>5

\* An edit between the two reads of a guest's entry is noted; any other comes
\* before the first, or after the entry was read for the last time.
LEMMA CatalogEditStep == ASSUME PInv, CatalogEdit PROVE PInv'
<1> USE DEF PInv
<1>1. /\ edits' = edits + 1 /\ catalog' \in Entries
      /\ raced' = (raced \/ pc \in {"cap", "resolve"})
      /\ UNCHANGED <<rq, client, pc, body, inference, err, raised, books, answer>>
  BY DEF CatalogEdit
<1>2. edits' \in Nat
  BY <1>1 DEF TypeOK
<1>0. /\ raced' \in BOOLEAN /\ (raced => raced')
      /\ pc \in {"cap", "resolve"} => raced'
  BY Zenon DEF CatalogEdit
<1> USE DEF body, inference, books
<1>3. TypeOK'
  BY <1>0, <1>1, <1>2 DEF TypeOK
<1>4. Books'
  BY <1>1 DEF Books
<1>5. Answers' /\ Targets'
  BY <1>1 DEF Answers, Targets, Settling
<1>6. Guests' /\ Masks'
  BY <1>0, <1>1, <1>2 DEF Guests, Masks
<1> QED
  BY <1>3, <1>4, <1>5, <1>6

-----------------------------------------------------------------------------
(* The theorems.                                                           *)

\* Every step of the request and of the world around it preserves the invariant.
LEMMA NextStep == PInv /\ [Next]_vars => PInv'
<1> SUFFICES ASSUME PInv, [Next]_vars PROVE PInv'
  OBVIOUS
<1>1. CASE Handle
  BY <1>1, AuthenticateStep, checkGuestModelStep, capOutputStep, resolveModelStep,
     GetRouterStep, RouteStep, ValidateRequestStep, maskBodyStep, ReserveStep,
     AttemptStep, TryFallbackStep, GiveUpStep, SettleStep, StopLeaseStep DEF Handle
<1>3. CASE Provider
  BY <1>3, ProviderFailsStep, ProviderCompletesStep, StreamStartsStep, StreamEndsStep
     DEF Provider
<1>2. CASE UNCHANGED vars
  BY <1>2 DEF vars, PInv, TypeOK, Books, Answers, Targets, Guests, Masks, Settling,
     OpenToGuests
<1> QED
  BY <1>1, <1>2, <1>3, HoldLostStep, ClientLeavesStep, CatalogEditStep DEF Next

\* The invariant holds of every request, whatever fails and whoever leaves.
THEOREM Invariance == Spec => []PInv
  BY InitStep, NextStep, PTL DEF Spec

\* Proxy's variables keep their types.
THEOREM TypeCorrect == Spec => []TypeOK
<1>1. PInv => TypeOK
  BY DEF PInv
<1> QED
  BY Invariance, <1>1, PTL

\* Each request is counted once and recorded with Metering at most once: a held
\* one exactly once, as a success or a failure.
THEOREM CountedOnce == Spec => []AccountedOnce
<1>1. PInv => AccountedOnce
  <2> SUFFICES ASSUME PInv PROVE AccountedOnce
    OBVIOUS
  <2> USE DEF PInv
  <2>1. \/ ledger = <<>>
        \/ \E kind, e : ledger = Told(kind, e)
    BY DEF Books, TypeOK
  <2>2. Len(ledger) <= 1
    BY <2>1, ToldFact
  <2>3. outcomes = IF pc \in {"stopping", "done"} THEN 1 ELSE 0
    BY DEF Books, TypeOK, Early, Holding
  <2>4. pc = "done" /\ ctx # "none" =>
          Len(ledger) = 1 /\ ledger[1].kind \in {"success", "failure"}
    BY ToldFact DEF Books
  <2>5. ctx = "none" => \A i \in DOMAIN ledger : ledger[i].kind = "unheld"
    BY ToldFact DEF Books, TypeOK, Early, Holding
  <2> QED
    BY <2>2, <2>3, <2>4, <2>5 DEF AccountedOnce
<1> QED
  BY Invariance, <1>1, PTL

\* Metering is told what the client was answered with.
THEOREM BooksAgree == Spec => []SettledAsAnswered
<1>1. PInv => SettledAsAnswered
  <2> SUFFICES ASSUME PInv, pc = "done" /\ ctx # "none"
               PROVE  /\ answer = "body" => ledger[1].kind = "success"
                      /\ answer = "error" => ledger[1].kind = "failure" /\ err # NoError
                      /\ ledger[1].err = err
    BY DEF SettledAsAnswered
  <2>1. /\ ledger[1].kind = IF err = NoError THEN "success" ELSE "failure"
        /\ ledger[1].err = err
    BY ToldFact DEF PInv, Books
  <2> QED
    BY <2>1 DEF PInv, Answers, Settling
<1> QED
  BY Invariance, <1>1, PTL

\* No client pays nothing because it hung up: only a stream that could not be
\* relayed is settled as the client's cancellation.
THEOREM HangUpsAreCharged == Spec => []HangUpStillCharged
<1>1. PInv => HangUpStillCharged
  <2> SUFFICES ASSUME PInv, NEW i \in DOMAIN ledger, ledger[i].kind = "failure",
                      ledger[i].err = ErrClientCanceled
               PROVE  answer = "stream"
    BY DEF HangUpStillCharged
  <2>1. ledger # <<>>
    OBVIOUS
  <2>2. CASE \E e : ledger = Told("unheld", e)
    BY <2>2, ToldFact
  <2>3. CASE /\ pc = "stopping" \/ (pc = "done" /\ ctx # "none")
             /\ ledger = Told(IF err = NoError THEN "success" ELSE "failure", err)
    <3>1. err = ErrClientCanceled
      BY <2>3, ToldFact
    <3> QED
      BY <2>3, <3>1 DEF PInv, Answers, Settling
  <2> QED
    BY <2>1, <2>2, <2>3 DEF PInv, Books, TypeOK
<1> QED
  BY Invariance, <1>1, PTL

\* Guests hold credit only for chat within the guest limit and for models open
\* to them, edits or not, unless one falls between checkGuestModel's read and
\* resolveModel's; and a strict filter fails closed.
THEOREM OnlyAsAllowed == Spec => []RunsOnlyAsAllowed
<1>1. PInv => RunsOnlyAsAllowed
  <2> SUFFICES ASSUME PInv PROVE RunsOnlyAsAllowed
    OBVIOUS
  <2>1. runs > 0 => hold # "none"
    BY DEF PInv, Books, TypeOK, Holding
  <2> QED
    BY <2>1 DEF PInv, Guests, Masks, RunsOnlyAsAllowed
<1> QED
  BY Invariance, <1>1, PTL

\* The credit promise: Proxy implements CreditHold.  Reserve is its Hold, a call
\* that leaves for a provider its Run, Settle its Settle; every other step
\* leaves hold and runs alone.
THEOREM Implementation == Spec => KeepsCredit
<1>1. Init => Credit!Init
  BY DEF Init, Credit!Init
<1>2. PInv /\ [Next]_vars => [Credit!Next]_(Credit!vars)
  <2> SUFFICES ASSUME PInv, [Next]_vars PROVE [Credit!Next]_(Credit!vars)
    OBVIOUS
  <2> USE DEF Credit!Next, Credit!vars
  <2>1. CASE UNCHANGED <<hold, runs>>
    BY <2>1
  <2>2. CASE Reserve
    <3>1. hold = "none"
      BY <2>2 DEF PInv, Books, Reserve, Early
    <3> QED
      BY <2>1, <2>2, <3>1 DEF Reserve, EndEarlyGone, inference, Credit!Hold
  <2>3. CASE Attempt
    <3>1. hold = "open" /\ runs < 2 /\ UNCHANGED hold
      BY <2>3 DEF PInv, Books, Targets, TypeOK, Attempt, Holding, Early
    <3>2. UNCHANGED runs \/ runs' = runs + 1
      BY <2>3 DEF Attempt
    <3> QED
      BY <2>1, <3>1, <3>2 DEF Credit!Run
  <2>4. CASE Settle
    <3>1. hold = "open"
      BY <2>4 DEF PInv, Books, Settle, Holding
    <3> QED
      BY <2>4, <3>1 DEF Settle, Credit!Settle
  <2>5. CASE Provider \/ (Handle /\ ~Reserve /\ ~Attempt /\ ~Settle)
    BY <2>1, <2>5 DEF Handle, Provider, Authenticate, checkGuestModel, capOutput, resolveModel,
       GetRouter, Route, ValidateRequest, maskBody, ProviderFails, ProviderCompletes,
       StreamStarts, StreamEnds, TryFallback, GiveUp, StopLease, EndEarly,
       EndEarlyGone, inference
  <2>6. CASE HoldLost \/ ClientLeaves \/ CatalogEdit \/ UNCHANGED vars
    BY <2>1, <2>6 DEF HoldLost, ClientLeaves, CatalogEdit, inference, vars
  <2> QED
    BY <2>2, <2>3, <2>4, <2>5, <2>6 DEF Next
<1> QED
  BY Invariance, <1>1, <1>2, PTL DEF Spec, KeepsCredit, Credit!Spec

=============================================================================
