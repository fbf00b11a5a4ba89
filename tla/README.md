# Nexus gateway: a TLA+ model

The Nexus gateway serves an OpenAI-compatible inference API. For each request it
authenticates an API key, resolves a model (or asks a router to choose one),
masks personal data, holds credit with the Metering service, calls a provider,
relays the answer and settles the hold with the usage the provider reported. It
keeps no database: its state is what one request carries, a few caches, and the
goroutines that run beside a request. This directory models the parts in which
money, ordering and concurrency meet, checks them with TLC on small instances,
and proves all of the safety properties with TLAPS for all values of the
constants.

`PROJECT.json` maps every definition to the lines it translates. Paths below are
relative to `src/apps/gateway/internal/` unless they start with `pkg/`, `cmd/`
or `apps/`.

## The system

| Part | State | Operations | What is hard |
|---|---|---|---|
| Inference request: `application/services/proxy.go`, `generate_service.go`, `guest_models.go`, `output_limit.go` | one request's progress, the inference context, the hold | `Proxy`: authenticate, guest checks, `resolveModel`, `validateRequest`, `maskBody`, `Reserve`, `attempt`, fallback, `finishProxy`, `stopLease` | the client leaves at any step; a hold is lost while the provider runs; the catalog changes between two reads; each step can fail and the hold must still be settled once |
| Provider stream: `proxy.go` (`ProxyStream`), `adapters/http/handlers/chat_completions_handler.go` | lines read, text held back by the unmasker, pending lines, outcome | `prime`, `observe`, `keep`, `Next`, `Close`, `relay` | fallback only before output; several choices interleaved; the end is reached in two ways; the client leaves; keep-alives from another goroutine |
| Credit hold: `adapters/metering/reservation_lease.go`, `client.go` | lease, timer, the call in progress | `Reserve`, `KeepReservation`, renewals, `RecordSuccess`, `RecordFailure`, `stop` | retries against a service that may have acted; late and lost answers; a renewal racing the settlement; stop waiting for a goroutine |
| Errors: `pkg/domain/error.go`, `error_class.go`, and the mapping functions of each client | none | `FaultOf`, `clientGone`, `shouldTryFallback`, `mapProviderError`, ... | one table decides what the client is told, whether a fallback runs and who is blamed |
| Confidential endpoint: `adapters/http/handlers/confidential_chat_completions_handler.go` | replay cache: map, per-account counters, expiry list | freshness check, `checkAndStore`, EHBP frame validation | concurrent copies of one envelope; two clocks; limits; restart |
| Metering runtime client: `adapters/metering/runtime_client.go` | none | authenticate, catalog reads, proofs, response validation | answers of another service are validated field by field |
| Provider adapters: `adapters/providers/openai`, `tinfoil`, `typesafe`, `stream` | retry budgets, idle timer | `Complete`, `Stream`, same-body retries, idle and header timeouts | retries of a call that may have run; a stale timer callback |
| PII: `application/services/pii.go`, `pkg/domain/pii.go`, `adapters/pii/presidio` | mapping of placeholders | masking, unmasking across chunk borders | a placeholder split over several events |
| Client I/O: `adapters/http/middleware/read_timeout.go`, `write_timeout.go`, `adapters/http/sse`, and the confidential endpoint's `validatedEHBPBody` | the connection's deadlines, the bytes of a frame still to come | each read, each write, the frame checks | a deadline outlives the read it was set for; reads, frames and buffers are split independently; a client stalls or stops inside a frame |
| Model list, exchange rates: `list_models_service.go`, `pkg/fx` | two caches with an expiry, the shared call | list, convert | misses that join, or just miss, a call in progress; the call ends with its first client; an edit between the two lists |
| Relays: `cmd/nexus-vsock-forwarder`, the TLS bridge in `enclave/network/network_nitro.go` | connections, the limit's channel, two copies each | accept, dial, copy, half-close, close | one direction ends before the other; a connection breaks; a slot must come back however a connection ends |
| Attestation, enclave bootstrap, bundle tools | start-up state | bootstrap, attestation, verification | mostly I/O and cryptography |

What makes each part correct, in a sentence:

- request: a provider runs only on held credit, and the hold is settled once, as
  what the client got;
- stream: what the provider sent reaches the client once, in order and framed, and
  is metered whoever leaves;
- hold: the gateway never counts on a lease that Metering has ended, and never
  gives up one that lives;
- errors: a code's fault is the same wherever it decides something;
- confidential endpoint: no envelope is processed twice, and a full cache refuses;
- adapters: what may have run is not repeated, silence and only silence ends a
  wait, and everything opened is closed;
- request body: the limit the credit was held for is the one enforced;
- PII: nothing leaves unmasked under a strict filter, and every placeholder comes
  back as its value, wherever the stream is cut;
- client I/O: what is handed to a handler is what the client sent, whole and
  within the limits; a stalled client is given up on, any other is not;
- model list: Metering is asked once per window, and what is served is
  no older than the window and the calls that filled it;
- relays: nobody is told that its data is over before it has it, unless the
  connection it came from broke; no slot is lost, and a connection whose ends are
  through gives its slot back.

How they interact: the chat and System One handlers call `Proxy`; `Proxy` calls
Metering (through the metering client), the router, the PII analyzer and a
provider; `KeepReservation` runs a goroutine that cancels the inference through
a callback; `Proxy` hands a `ProxyStream` to the handler, whose end calls back
into `finishProxy`. The confidential handler decrypts an envelope, checks it and
calls the chat handler. The middleware wraps every request's body and answer in
deadlines. In an enclave each connection passes the forwarder's ingress, and the
connections to Tinfoil the TLS bridge.

## Modules

| Module | Models | Role |
|---|---|---|
| `HoldKeeper` | `Reserve`, `requestJSON`, `KeepReservation`, settlement, stop; Metering and the network as environment | specification |
| `HoldKeeperProofs` | | theorems on `HoldKeeper` |
| `ProxyStream` | `ProxyStream`, the unmasker's buffers, `relay` | specification |
| `GatewayErrors` | errors, faults, and the decisions that read them | operators |
| `CreditHold` | what the gateway promises about credit | abstract specification |
| `Proxy` | `GenerateService.Proxy` end to end | specification; implements `CreditHold` |
| `ProxyProofs` | | theorems on `Proxy`, the refinement included |
| `ReplayCache` | freshness check and replay cache of the confidential endpoint | specification |
| `ReplayCacheProofs` | | theorems on `ReplayCache` |
| `SilenceGuard` | one exchange with a provider: `DoWithHeaderTimeout`, `idleBody`, and the clients that use them | specification |
| `ProviderCall` | one call of a provider adapter: credential, request, same-body retries, error mapping | specification |
| `RequestBody` | the output limit from the client's JSON to the hold and to each provider's JSON | specification |
| `ProviderProofs` | | theorems on `ProviderCall`, `RequestBody` and `SilenceGuard` |
| `PIIRestore` | placeholders, masking, restoring, the stream's buffer | specification |
| `PIIProofs` | | theorems on `PIIRestore` |
| `ClientIO` | a body on its way in (deadlines, EHBP frames, limits) and an answer on its way out | specification |
| `ClientIOProofs` | | theorems on `ClientIO` |
| `ModelList` | `ListModelsService`, its singleflight, the exchange-rate cache | specification |
| `ModelListProofs` | | theorems on `ModelList` |
| `VsockRelay` | the forwarder's ingress and the enclave's TLS bridge | specification |
| `RelayProofs` | | theorems on `ProxyStream` and `VsockRelay` |
| `MC*` | | instances for TLC |

How they compose: `Proxy` and `ProviderCall` both extend `GatewayErrors`;
`Proxy`'s provider call fails with the errors of `ProviderErrors`, and
`ProviderCall` shows that its adapters return no others (`RepeatsAreSafe`).
`Proxy` implements `CreditHold` by a refinement mapping. The free choices of one
module are the results of another: the loss of a hold (`HoldKeeper`), the end of
a stream (`ProxyStream`), the end of an exchange (`SilenceGuard`), the held suffix
of a text (`PIIRestore`), a client that leaves or a body that is accepted
(`ClientIO`). `RequestBody`, `SilenceGuard` and `VsockRelay` name their
specifications apart (`BodySpec`, `GuardSpec`, `ConnSpec`), because a proof module
extends each of them beside another one.

### HoldKeeper

Time is a tick counter; only durations cross the wire, so one clock is enough.
`hold` is Metering's record, `held` the keeper's lease. A call in progress is
`call[g]` for each of the two goroutines; a call the gateway gave up on becomes
an orphan that can still reach Metering later. Metering is external and is
modelled from what the client relies on: a lease counts from the instant Metering
processes the call; a repeated `gateway_request_id` is answered with the hold
that exists; a settled or expired hold rejects renewals. `sent` is read once in
`Reserve` (client.go:64) before the retries, which is what `LeaseNeverOutlasts`
depends on. Actions follow the statements of `KeepReservation`'s loop: expiry
check, timer, cancellation, late timer, renewal, its three outcomes.

### ProxyStream

An upstream line is reduced to what the code reads: its kind, its choice, whether
it has a role, text, a finish reason, usage or an error (`keep` looks at the
`error` field alone, `failure` also at `base_resp`, and a null error is none). The
text of line `n` is the piece `n`; the unmasker may hold back any suffix of what
it was fed (which suffix depends on placeholder syntax, so it is a free choice),
and must release all of it when the choice finishes, at `[DONE]` and at the end of
the body. A chunk carries at most one choice. Writes to a client that left fail
and are ignored, as in the code. The properties speak of positions rather than of
filtered or flattened sequences: the lines with a source are ascending and their
sources are the lines read that are not hidden; the pieces of a choice, over the
lines delivered and then the held text, are ascending and are the text read; the
end is a `[DONE]` with no data behind it. That is the same as comparing the
filtered sequences, and can be proved for streams of any length. `EndMarked` names
the two things a client may meet at the end all the same, which the code does (5
and 6 below): a `stream_interrupted` event after the provider's `[DONE]` when the
body broke behind it, and a `[DONE]` inside the last event when the body stopped
in it.

### Proxy and GatewayErrors

One request from `auth` to `done`, one action per step of `Proxy`. The request,
the account and the catalog entry are chosen initially from all combinations the
code tells apart. `CatalogEdit` and `ClientLeaves` may happen between any two
steps, `HoldLost` while the keeper runs. `raced` remembers that an edit fell
between the two reads of the catalog, `checkGuestModel`'s and `resolveModel`'s:
only such an edit excuses a guest on a model that is closed to guests. A stream is
only its end here; `ProxyStream` models the rest. A `Reserve` that fails may leave
a hold behind in Metering whose id the gateway never learned: its lease ends it
(`HoldKeeper`), and this module does not count it as held. Errors keep code, HTTP
status and the `fault` metadata, because those are what `clientGone` and
`shouldTryFallback` read.

### ReplayCache

Handlers run concurrently: a freshness check on the wall clock, then the locked
`checkAndStore`, which samples the monotonic clock again. `MaxStall` bounds the
time between the two, `MaxStep` the difference between the clocks. The assumption
`MaxAge + FutureSkew + MaxStep + MaxStall < TTL` is what the constants of the code
(2 min, 30 s, 3 min) leave 30 s of slack for. A restart empties the cache and
changes the key pair, so that envelopes of the old process cannot be opened: the
key pair is made in the process and stored nowhere.

### SilenceGuard

Four kinds of exchange in two variants: the client's own transport or one wrapped
by `DoWithHeaderTimeout` (Tinfoil), streamed or not, with a failing status or not.
Each timer is the ticks left on it; its callback is a separate goroutine, several
of which may wait for the mutex at once (`Callbacks`), because `Read` sets the
timer anew without waiting for one that has fired. A section under the mutex is
one step; the callback's `Close` comes after it, as in the code. `closed` and
`expired` are idleBody's flags. The net/http transport's own
`ResponseHeaderTimeout` is external.

### ProviderCall

One call through `proxy` of the OpenAI-compatible adapter, or through the TypeSafe
or Tinfoil adapter. A refusal is its status and what its text says, as far as
`maybeBuildNovitaSameBodyRetry` reads it. `ran` counts the requests the provider
may have run: those it answered with success or a 5xx, or did not answer at all.

### RequestBody

A body keeps the two names of the output limit, each as documented and in other
letters (`MAX_TOKENS`), with which of the two came last, `include_usage` and the
size of the prompt; a field is absent, null or a number. The mapper decodes into a
struct, so that encoding/json takes either spelling and the later one wins
(`decoded`); `capOutput` and `tokenLimit` look up the exact names. The hold's
limit, the cap for guests, the clamp to the model's maximum and the renaming for a
provider are separate operators, because each looks the limit up in an order of
its own. Which names a provider enforces is taken from the comments in the code.
`FoundAlike` are the requests in which all of them find the limit in the same
place, and the properties of the run are about these; `CapIsEnforced`, about every
guest's, does not hold (1 below).

### PIIRestore

A text is a sequence of symbols of the kinds the code tells apart; numbers are
unary, so that the first placeholder is the start of the second, as `EMAIL_1` is
of `EMAIL_10`. The provider either echoes the masked text or writes anything of
up to `MaxAnswer` symbols; either is cut into events in every way. `restored` are
the spans replaced, so that streams can be compared with `Unmask` of the whole
text. A loop that walks over a text, `ApplyMask`'s over the spans or `Unmask`'s over
the symbols, is a function from each position to where the loop goes on from it
(`MaskScan`, `UnmaskScan`); the positions it comes to are its `Stops`. Several
choices and fields at once are `ProxyStream`'s.

### ClientIO

A byte is its position in the body, so that "the right bytes in the right order"
is a matter of counting: `hand` records whether a byte is handed on anywhere but
in its place. What a prefix declares is chosen when it is whole. A read of the
connection returns any number of the bytes that are there, with or without the
end; it returns before time goes on, while the handler may let time pass between
two reads. Three reads are told apart: a plain handler's, limited to what
`LimitReader` lets through; the next prefix, which `io.ReadFull` may collect in
several reads, each under a deadline of its own; and the rest of a frame. The
decryption between the validator and the handler is the EHBP library's: the
handler may stop reading at any point of the frames (`ReachLimit`). `WatchFails`
is net/http's background read, which starts when a body is read to its end and
takes an expired deadline for a client that left: that is why the deadline must go
with the end of the body. Answers are counted in chunks of `maxTransferChunk`.
net/http starts its background read of the connection inside the `Read` that
reaches the end of the body, just before `readTimeoutBody` clears the deadline;
`DataReturns` is both in one step. Its own draining of a body that was refused
early is outside the model.

### ModelList

The catalog is a version number, which makes the age of a listing a question of
when each version was replaced. A call in progress is `flight`: its leader, its
step, when the step began and what Metering has read for it; the reading
(`MeteringReads`) is a step of its own, because the reply may come any time later
within the call's timeout (`MaxCall`). The second look into the cache is a step of
its own, too, because a caller may reach it after the call it missed has landed. A
listing is served for `TTL` after it was stored, and is up to three calls older
than that for the models, two for the routers. Once the leader's client has left,
the calls of the flight can only fail, and everybody who waits gets that failure:
this is what the code does, since `refresh` runs under the context of the first
caller. The rate is where it came from: fresh, the last one fetched, or the
configured one.

### VsockRelay

A connection has two ways, each with the pieces written into it and the pieces
that came out, and whether its writer has finished or its connection broke, its
reader is gone, its copy has ended and its reader was told so. `copyHalf` throws
io.Copy's error away and half-closes the other end all the same, so a broken
connection (`Resets`) looks to the other end like the orderly end of the data;
`NothingCutShort` says that this is the only way to lose some. `forward` waits for
both copies and passes each end on (`CloseWrite`); `bridgeTinfoilTLS` waits for
one copy and closes both ends, and therefore may lose what is on its way; TLS
tells the ends whether they have everything, so `NothingCutShort` is about
forwards. What is asked of a bridge is that it ends once either end is through
(`SlotsReturned`): it passes no end on, so that waiting for both copies would keep
it.

## Runs

| Run | Instance | Shows |
|---|---|---|
| `hold` | leases of 10 ticks, one-tick second, 2 tries, clock to 11 | `LeaseNeverOutlasts`, `LostMeansDead`, `ReleasedUnlessExhausted`; liveness `StopAlwaysReturns`, `DeadHoldIsNoticed` |
| `stream_relay` | two choices, streams of 4 lines | `RelayFaithful`, `TextInOrder` |
| `stream_end` | one choice, 4 lines, one keep-alive | `ReadToTheEnd`, `EndMarked`, `FramingKept`; liveness `AlwaysMetered` |
| `request` | all requests and catalog entries, one edit, a status of each kind | `KeepsCredit` (implements `CreditHold`), `AccountedOnce`, `SettledAsAnswered`, `HangUpStillCharged`, `RunsOnlyAsAllowed`; liveness `EveryRequestEnds` |
| `replay` | 2 handlers, 1 account, 3 ids, 2 entries, TTL 3, clock to 3, one restart, 3 requests accepted | `NoReplay`, `CacheConsistent`, `EntriesLiveTheirTime` |
| `silence` | all exchanges, timeout of 2 ticks, 2 callbacks | `OnlySilenceExpires`, `TimeoutIsTold`, `HeaderTimerSpares`, `NothingLeftOpen`; liveness `SilenceEnds` |
| `provider_call` | all adapters, a status of each kind, the code's budgets | `RepeatsAreSafe` |
| `request_body` | limits around zero and the guest limit, nulls and other spellings, a model maximum and none, every provider pair | `HeldIsEnforced`, `GuestsAreLimited` |
| `pii` | eight texts with repeated, overlapping and adjacent values, two of them not plain (a value in brackets, a placeholder the client wrote itself); answers of up to 5 symbols | `RoundTrip`, `SplitsRestored` |
| `client_io` | bodies of up to two frames of 2 or 3 bytes (limit 13), empty and oversized frames, buffers of 1, 3 and 5, a window of 2 ticks | `BytesInOrder`, `BodyBounded`, `CleanEndIsWhole`, `CutOnlyWhenSilent`; liveness `StalledClientEnds` |
| `model_list` | 3 callers, TTL 2, rate TTL 3, calls of up to one tick, one edit, clock to 7 | `ServedIsFresh`, `RefreshOnlyWhenDue` |
| `vsock_relay` | 2 connections and one slot, or one bridge; one piece each way | `NothingCutShort`, `SlotsCounted`; liveness `SlotsReturned` |

`MCReplayCache.cfg` and `MCReplayLimits.cfg` (`MCReplayCache`) are two larger
instances of the replay cache, one with a past and a future skew, one with three
accounts, to be run by hand.

Bounds. A lease of 10 ticks gives the keeper several renewals and a floor of one
tick, and the clock runs past its end; two tries are enough for a retry to be
answered with an earlier try's hold. Four lines let two choices be open at once
with text held on both when a finish or `[DONE]` arrives, or a hidden usage event
with its blank line follow another event. A request makes at most two provider
calls by itself. Three ids and two entries fill the cache with one request left to
refuse; the clock reaches the end of an entry that was stored at once, and three
accepted requests are one more than fit. Two ticks of timeout and two callbacks
let a stale callback wait while the next one fires. Five symbols are the longest
placeholder, `[p11]`; every cut of it is tried. Two
frames fit the body's limit only when one of them is the smaller, so that the
second is refused or accepted by what the first has left; a buffer of one byte
splits a prefix into four, one of five takes it whole. Seven ticks are more than
two windows of the model list and two of the rate. One slot for two connections is
the limit reached; one piece each way is data under way when the other direction
ends. Every finite run stops, so deadlock is not checked: a request, a stream, an
exchange, a connection and a call end, and the clocks are bounded.

Fairness. The keeper and `stop` are weakly fair: they are goroutines that are
runnable. Nothing is assumed of Metering, because a renewal's context has the
lease's end as its deadline. The relay is weakly fair, and so is the upstream's
end: the idle timeout closes a body that stays silent. In `Proxy` the request's
own goroutine is weakly fair where it runs or waits for Metering, the router or
the analyzer, whose clients have timeouts. Of the provider nothing is assumed: the
error report of a failing stream is read without a guard (4 below), Tinfoil's
verification takes no context (tinfoil/adapter.go:207), and a stream may speak for
ever; `EveryRequestEnds` says that a request ends unless its provider keeps it,
and that a stream whose context was canceled ends even then. In `SilenceGuard`
time, timers and runnable goroutines are fair, the provider never. In `ClientIO`
the handler and time are fair, the client never. In `VsockRelay` only the relay's
goroutines are fair. Of the ends nothing is assumed: a copy has no deadline, and
`http.Server` closes idle connections only (apps/gateway/main.go:150-157). What
`SlotsReturned` needs of them is its hypothesis: they read what is sent to them
(`EndsRead`), and, of a forward, an end that is told that its data is over
finishes at last (`EndsAnswerEnd`); without either a connection keeps its slot.
The client, the operator and the loss of a hold are never fair.

## Where the code and its comments disagree

Each has its property and a configuration that shows it, to be run by hand
(`tlc -config <cfg> <module>`). Two are wrong results for a customer:

1. `MCNullLimit.cfg` and `MCSpelledLimit.cfg` (`MCRequestBody`, `CapIsEnforced`):
   `capOutput`'s comment says "Metering holds credit for that limit and the
   provider enforces it" (output_limit.go:19). With a guest's `max_tokens: null`
   beside `max_completion_tokens: n` the mapper and the provider read `n`, but
   `capOutput` finds the key `max_tokens` and writes the guest's limit there, so
   that the provider enforces `n` while Metering holds credit for less
   (output_limit.go:36, adapters/providers/openai/proxy.go:115). And with
   `MAX_TOKENS: n` the mapper reads `n` and Metering holds credit for it
   (adapters/http/mapper/chat_to_domain.go:61), but `tokenLimit` finds no limit
   and the provider is told none; this is so of other accounts, too.
2. `MCBrackets.cfg` (`MCPIIRestore`, `EchoRestored`): `Unmask` "replaces every
   `[TYPE_N]` placeholder" (pkg/domain/pii.go:233), but takes everything from an
   open bracket to the next closing one as a token (pkg/domain/pii.go:248). A
   placeholder inside brackets, such as a link's text or an element of a JSON
   array in a tool call, stays masked in the client's answer.

The others are smaller:

3. `MCProxyMeaning.cfg` (`MCProxy`, `CallerErrorsKeepMeaning`): `clientGone` is
   documented to leave caller errors alone (generate_service.go:296), but the
   fault table does not name `guest_model_not_allowed` and
   `daily_token_limit_exceeded`, so these two become `client_canceled` when the
   client has left.
4. `MCSilenceReport.cfg` (`MCSilenceGuard`, `ReportEnds`): `src/README.md:95`
   says the silence timeout ends a request when the provider sends nothing. The
   error report of a failing stream is read before the guard is in place
   (adapters/providers/openai/client.go:104, tinfoil/adapter.go:115) under a
   context without a deadline.
5. `MCStreamInterrupted.cfg` (`MCProxyStream`, `InterruptedMeansFailed`): a
   response with a finish reason and `[DONE]` whose connection then breaks is
   charged as complete (proxy.go:622), but the client gets a
   `stream_interrupted` event after its `[DONE]`.
6. `MCStreamEndSeen.cfg` (`MCProxyStream`, `EndSeen`): `relay` adds a `[DONE]` "so
   every client sees an end" (chat_completions_handler.go:66), but it is not
   preceded by a blank line when the body stopped right after a data line, and
   becomes part of that event.
7. `MCWords.cfg` (`MCPIIRestore`, `WordsIntact`): a bare placeholder inside a
   longer word is not restored in a whole text (the test of `Unmask` in
   pkg/domain/pii_test.go), but is in a stream that cuts the word right before
   it, because the start of the buffer counts as a boundary.
8. `MCLimitName.cfg` (`MCRequestBody`, `LimitIsNamed`): `PrepareProxyBody`'s
   comment says Novita gets `max_tokens`; `policyForProvider` renames the limit
   for DeepSeek only.
9. Without a configuration: `CacheTTL` "bounds how stale a cached rate may be"
   (pkg/fx/frankfurter.go:16), but when a fetch fails `Rate` returns the last rate
   of any age (line 71). The comment there says so; `ModelList` follows the code.

## Proofs

`HoldKeeperProofs` proves, for every set of lease lengths, every number of tries
and every clock bound: `TypeCorrect`, `LeaseSafety`, `LostSafety`,
`ReleaseSafety`, `SpacedRenewals` (renewals are at least the floor apart) and
`StopIsFinal` (after stop the keeper does nothing); three of them state properties
that the run `hold` checks. None of them is inductive alone. The invariant `IInv`
adds what is in flight: which goroutine has which call, that an answer to a
reservation names the hold as it was opened and that the hold was opened no
earlier than `sent`, that a lease about to be adopted ends no later than
Metering's, that only the request's settlement settles the hold, and that an
armed timer waits for the floor or for the lease's end. The assumptions are those
on the constants (leases and the second are positive, bounds are natural
numbers).

`ReplayCacheProofs` proves, for every set of handlers, accounts and ids and for
all limits: `TypeCorrect`, `ReplaySafety`, `Consistency`, `Limits` and
`EntryLifetime`: the properties of `replay`, and that neither limit is ever
exceeded (`WithinLimits`). The invariant `RInv` adds three facts to the checked ones.
`InOrder`: the expiry list is sorted and no entry outlives now plus the TTL, so
that popping from its head until the first live entry removes exactly the expired
ones. `HandlersFresh`: a handler between its two steps carries an envelope that
was fresh at most `MaxStall` ago. `LogCovered`: an envelope accepted in this
process either is still in the cache, or its entry's end has passed, after which
no copy of it can be fresh (`FreshBeforeExpiry`, the one place where the
assumption on the constants is used). `KeyCount`, `DropFirst` and `AddLast` are
about lists without duplicates and how many of their elements belong to an
account; they carry the counters. The only assumption is `ReplayAssumption`.

`ClientIOProofs` proves, for every limit, window, set of frame lengths and set of
buffer sizes: `Invariance`, `BytesArriveInOrder`, `BodyStaysBounded`, `CleanEnds`
and `NoActiveClientCut`, the safety properties of `client_io`. The invariant
`IOInv` adds two facts to them. `Reading`: a read is under way only in an open
upload, and wants no more than the rest of its prefix or of its frame, so that
what it returns belongs to that prefix or frame. `Clocks`: while a read waits for
the client, its deadline and the client's silence add up to a window or more, and
so do a write's, so that a deadline that ran out is a window of silence; and a
body that was read to its end left no deadline behind, so that the server's watch
of the connection fails only with the connection. The only assumption is
`IOAssumption`: lengths and limits are natural numbers, the window, the buffers
and the writes positive ones.

`ProxyProofs` proves, for every set of provider statuses and any number of catalog
edits: `CountedOnce`, `BooksAgree`, `HangUpsAreCharged`, `OnlyAsAllowed` and
`Implementation` (`Spec => KeepsCredit`), which are all the properties of the run
`request` but liveness. The invariant `PInv` ties the place where `Proxy` is to
the rest of the state. `Books`: what is held, counted and recorded at each step;
without it a second settlement could not be excluded. `Answers`: the answer agrees
with the error in hand, and a cancellation is in hand only while the context is
lost, or for a stream. `Targets`: each target is called once at most. `Guests`:
what each check has established of a guest's request, unless the catalog was
edited between the guest check's read of it and `resolveModel`'s (`raced`); an
edit at any other time changes nothing. `Masks`: a strict filter has been applied
when the hold is asked for. The refinement follows step by step: `Reserve` is
`CreditHold`'s hold, a call that leaves for a provider its run, `Settle` its
settlement, and every other step a stutter. The only assumption is
`StatusesAssumption`.

`ModelListProofs` proves, for every number of callers and edits, every TTL and
every bound on a call: `ServedFresh`, `RefreshesAreDue` and `NobodyIsStranded`
(whoever waits waits for a call under way, whose leader is among them). What a
listing is worth is when its version was current: `FlightFresh` says so of what
Metering has read for the call and of each part of the listing under way (`ReadFact`:
a reply is at most one call old), `CacheFresh` of the one kept, relative to its
expiry. `FlightDue`: a call past its second look found nothing valid, and nothing
is stored before it lands; this is why the second look makes a late caller
harmless. The only assumption is `ListAssumption`.

`ProviderProofs` proves `RepeatsSafe` on `ProviderCall`, for all budgets and
statuses, from `Budgeted` (each request but the first was paid for), `NotRunYet`
(a failure that may be repeated is a refusal) and `Canceled`; and `LimitsKept` on
`RequestBody`, for all limits, model maxima, prompts and pairs of providers: the
limit that is enforced is covered by what was held (`HeldIsEnforced`), and a
guest's is within the guest limit (`GuestsAreLimited`). Both are about the
requests in which mapper, `capOutput` and `tokenLimit` find the limit in the same
place (`FoundAlike`): it is spelled as documented, and a guest has no null
`max_tokens` beside it. Both are needed: `MCSpelledLimit.cfg` and
`MCNullLimit.cfg` are the counterexamples (1 above). The invariant follows the
limit through the steps: read from the body under one name (`ReadAsSent`), held as
it was read (`HeldAsRead`), capped (`GuestCapped`), and sent under the name that
the provider enforces (`SentAsRead`). The assumptions are `CallAssumption` and
`BodyAssumption`.

On `SilenceGuard` the module proves, for every timeout and any set of waiting
callbacks: `GuardTypeCorrect`, `ExpiryNeedsSilence`, `TimeoutsAreTold`,
`HeaderTimerIsDone`, `GuardAlwaysStands` and `AllIsReleased`. The inductive
invariant conjoins the checked ones with what relates the two timers to the
callbacks: the deadline measures the silence since the last delivered byte
(`DeadlineIsSilence`), a body is marked as expired before anybody closes it
(`MarkedFirst`), the header timer runs only between the sending of the request and
the check of its answer (`Bracketed`), and the request's context is canceled only
by its parent, the header timer or the end (`CanceledBy`), and what `client.Do` or
the inner `Read` returned says who ended it (`SilenceTold`), so that a body the
callback closed is reported as a timeout, and a timeout is reported only after a
silent one. `GuardStands`, that a guarded body always has a running timer or a
callback on its way, is the safety half of `SilenceEnds`. The only assumption is
`GuardAssumption`.

`RelayProofs` proves every invariant of `ProxyStream`'s two runs, for streams of
any length, any set of choices and any number of keep-alives: `ReadsToTheEnd`,
`RelaysFaithfully`, `TextArrivesInOrder`, `EndIsMarked`, `EventsStayApart`, and
`MeteredOnce`, the safety half of `AlwaysMetered`. All are about the lines
delivered, sent and pending together, which only three kinds of step change: a
line is scanned, `Next` or `relay` adds lines at the end, or a keep-alive adds two
in the middle (`StepShapes`). Each theorem has its own invariant besides the types
and `Ended` (when the stream is metered, and that nothing is left then).
`Faithful` adds that `skipBlank` is set exactly after a hidden event. `DoneSeen`
relates `sawDone` to the lines read, and `DoneCloses` says that after a `[DONE]`
that is the last data read nothing is held and no data is delivered until the
relay ends, so that the end stays the end. `Framing` is stronger than
`FramingKept`: an event is open for the client, that is, not yet ended by a blank
line, only while it is open for the gateway and not hidden, so that whatever is
added follows a closed event. `TextKept` is about the pieces of each choice in the
lines and in the held text: feeding a line adds the greatest piece at the end
(`TextFed`), and cutting the held text moves a prefix of it into a line
(`TextSplit`), whichever cut the unmasker chooses. On `VsockRelay` the module
proves `NothingIsCutShort` and `SlotsAreCounted`, for any number of connections: a
copy of a forward that has ended has copied all that will ever be written, unless
its reader is gone or the connection it copied from broke (`Copied`), and the
limit channel holds one element for each forward that is dialing or open, at most
`--max-connections` (`SlotsCounted`), which is the safety half of `SlotsReturned`.
The assumptions are `LinesAssumption` and `RelayAssumption`.

`PIIProofs` proves, for all requests, all symbols and answers of any length, cut
into events anywhere: `SplitsAreRestored`, `EchoRoundTrips` and `BufferIsTail`.

- Induction. The loops and the recursive definitions are about texts of any length,
  and the library's induction theorems cannot be used with the installed provers,
  because they take an operator as a parameter. `LeastNat` rests on the first-order
  fact that a set of natural numbers has a least element; each induction is then
  an argument about the least (`Upwards`) or the greatest (`Downwards`) position
  that lacks something. That is how `StopsRule` shows what the stops of a scan are,
  and `ReplacedRule` that the recursive function behind `Replaced` exists.
- Splits. The invariant is `Buffered` (the buffer is the end of the answer that was
  not handed on) and `Settled`. `SplitsRestored` speaks of the answer when it is
  complete, but a piece is let go before it is known how the answer goes on, so
  `Settled` quantifies over every continuation: what `Unmask` would restore of it
  behind the buffer ends there, and has been restored. `CutKeeps` and `PieceKeeps`
  carry it over a step of `feedPIIStreamBuffer`: whatever follows, no placeholder
  reaches over the cut, and one that `Unmask` finds in the whole answer it also
  finds in the piece. Nothing is assumed of the answer.
- Round trip. `Echoed` says that only placeholders written by `ApplyMask` are
  restored of an echo, and that no open bracket is let go without what follows it.
  Together with `SplitsRestored` the spans restored are exactly the placeholders of
  the masked text. That text is taken apart at the stops of `MaskScan` (`BlockIs`,
  `BlockAt`): each block is an uncovered symbol or the placeholder of a value, and
  `UnmaskMasked` puts the values back block by block. `AssignedIs` shows that the
  numbers `Token` hands out and the distinct values correspond one to one, which is
  what makes the values come back in their places.
- `RoundTrip` is about requests that are `Plain`: outside the values that are
  masked, the text has no open bracket and no `p` followed by a `1`, that is,
  nothing that could itself be taken for the start of a placeholder. Values may
  contain anything, may overlap, touch and repeat, and closing brackets may stand
  anywhere. It is needed: `EchoRestored` (`MCBrackets.cfg`) has a counterexample
  with an open bracket (2 in the list above), and a text that spells `p1` itself
  gets a value in its place that was never there. The run `pii` has both kinds of
  text.

The only assumption is `RestoreAssumption`: texts are sequences of symbols and
entities lie within their text.

Only model-checked: the liveness properties (`StopAlwaysReturns`,
`DeadHoldIsNoticed`, `AlwaysMetered`, `EveryRequestEnds`, `SilenceEnds`,
`StalledClientEnds`, `SlotsReturned`), because fairness and `ENABLED` are beyond
the prover. The safety halves of `AlwaysMetered`, `SilenceEnds` and `SlotsReturned`
are proved (`MeteredOnce`, `GuardAlwaysStands`, `SlotsAreCounted`).

## Not modelled

Wire formats, header and body parsing, logging and metrics are left out of every
module. `RequestBody` does not have the edits of roles, tool calls and the service
tier, nor the validation of messages and tools. `PIIRestore` takes a placeholder
in one spelling: the rewrites with other separators, another case or a shorter
type name are recognised by tables that the control does not depend on.
`ClientIO` leaves out the deadlines around a body's `Close` and the reading of
headers, which the server bounds by itself. The fields that are checked in
Metering's answers are not told apart: a bad answer is one failure of the call.

Not modelled at all: the attestation semaphore (one try-acquire and its release
around a device call), the enclave's bootstrap (it runs once, before anything is
served, and exits on the first failure), its DNS server and address tables, and
the process's shutdown: `Serve` returns as soon as `Shutdown` is called and main
returns with it (apps/gateway/main.go:190), so that a request under way ends like
one whose settlement failed at every try; its hold runs out with its lease. The
attestation verifier and bundle tools are offline programs made of cryptographic
checks and are out of scope.

## Plan

Done in this order, because credit is what must not go wrong: `HoldKeeper` and
its proofs; `ProxyStream`; `GatewayErrors`, `CreditHold`, `Proxy` with the
refinement; `ReplayCache` and its proofs; `SilenceGuard` and its proofs;
`ProviderCall`; `RequestBody`; `PIIRestore`; `ClientIO` and its proofs;
`ModelList`; `VsockRelay`; then the proofs on `Proxy`, `ModelList`,
`ProviderCall` and `RequestBody`, `ProxyStream` and `VsockRelay`, `PIIRestore`.
Next:

1. Action properties of the stream and of the replay cache that the invariants
   already imply: lines sent are never taken back, and a settled outcome does not
   change.
2. A weaker hypothesis than `Plain`: an open bracket whose closing one comes before
   the next value should do no harm.
