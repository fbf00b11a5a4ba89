------------------------------ MODULE ModelList ------------------------------
(***************************************************************************)
(* GET /v1/models: ListModelsService's cache, the flight that concurrent   *)
(* misses share, and the exchange-rate cache it asks last.                 *)
(*                                                                         *)
(* The catalog is a version number that an operator's edit raises; models  *)
(* and routers are listed by two calls, which may see different versions.  *)
(* The flight runs under the context of the caller that started it, its    *)
(* leader: once the leader's client left, the remaining calls fail.        *)
(***************************************************************************)
EXTENDS Integers

CONSTANTS
  Callers,     \* requests served at once
  TTL,         \* CatalogCacheTTL
  RateTTL,     \* fx.CacheTTL
  MaxCall,     \* the longest a remote call takes, retries included
  MaxTime,     \* bound on the clock
  MaxEdits     \* bound on the operator's edits

ASSUME ListAssumption ==
  {TTL, RateTTL, MaxCall, MaxTime, MaxEdits} \subseteq Nat

VARIABLES
  now,
  catalog,     \* the version Metering's catalog is at
  superseded,  \* history: when each earlier version was replaced
  cached,      \* the listing kept, or None
  expiresAt,
  fx,          \* when the cached rate was fetched, or Never
  flight,      \* the singleflight call in progress, or None
  caller,      \* each request: idle, missed or waiting, and its last answer
  present      \* the request's client is still connected

vars == <<now, catalog, superseded, cached, expiresAt, fx, flight, caller,
          present>>

-----------------------------------------------------------------------------

None == [kind |-> "none"]
Failure == [kind |-> "error"]
Never == -1

\* A listing: the versions its two parts were read at, and where its rate
\* came from.
Rates == {"fresh", "stale", "fallback"}
Listing == [kind : {"listing"}, models : Nat, routers : Nat, rate : Rates]

Steps == {"check", "models", "routers", "rate"}
Call(leader) ==
  [kind |-> "call", leader |-> leader, step |-> "check", since |-> now,
   read |-> Never, models |-> 0, routers |-> 0]

\* The flight goes on to its next call, which Metering has not read for yet.
Proceed(step) == [flight EXCEPT !.step = step, !.since = now, !.read = Never]

\* Mutant of valid: a listing does not expire.
validForever == cached # None

\* fromCache: there is a listing and it has not expired.
valid == cached # None /\ now < expiresAt

-----------------------------------------------------------------------------
(* Execute.                                                                *)

\* The request arrives and looks in the cache.
Request(c) ==
  /\ caller[c].pc = "idle"
  /\ present' = [present EXCEPT ![c] = TRUE]
  /\ caller' = [caller EXCEPT ![c] = IF valid
                                     THEN [pc |-> "idle", answer |-> cached]
                                     ELSE [pc |-> "missed", answer |-> None]]
  /\ UNCHANGED <<now, catalog, superseded, cached, expiresAt, fx, flight>>

\* singleflight.Do: the first one in runs the call, the others wait for it.
Join(c) ==
  /\ caller[c].pc = "missed"
  /\ caller' = [caller EXCEPT ![c].pc = "waiting"]
  /\ flight' = IF flight = None THEN Call(c) ELSE flight
  /\ UNCHANGED <<now, catalog, superseded, cached, expiresAt, fx, present>>

\* The call returns: everyone who waits for it gets what it returned.
Land(result) ==
  /\ flight' = None
  /\ caller' = [c \in Callers |-> IF caller[c].pc = "waiting"
                                  THEN [pc |-> "idle", answer |-> result]
                                  ELSE caller[c]]

\* Mutant of CheckAgain: the flight does not look in the cache.
CheckAgainSkipped ==
  /\ flight # None /\ flight.step = "check"
  /\ flight' = Proceed("models")
  /\ UNCHANGED <<now, catalog, superseded, cached, expiresAt, fx, caller,
                 present>>

\* The flight looks in the cache again: a call that just landed may have
\* filled it after this caller missed.
CheckAgain ==
  /\ flight # None /\ flight.step = "check"
  /\ \/ valid /\ Land(cached)
     \/ ~valid /\ flight' = Proceed("models") /\ UNCHANGED caller
  /\ UNCHANGED <<now, catalog, superseded, cached, expiresAt, fx, present>>

-----------------------------------------------------------------------------
(* refresh.                                                                *)

LeaderPresent == present[flight.leader]

\* Metering's side of a call: it reads its catalog, again when the call is
\* retried.  What it read reaches the gateway only when the call returns.
MeteringReads ==
  /\ flight # None /\ flight.step \in {"models", "routers"}
  /\ flight' = [flight EXCEPT !.read = catalog]
  /\ UNCHANGED <<now, catalog, superseded, cached, expiresAt, fx, caller,
                 present>>

\* ListPublicModels returns what Metering read, or fails: a reply that is no
\* array, holds an invalid model or a duplicate is a failure too.
ListPublicModels ==
  /\ flight # None /\ flight.step = "models"
  /\ \/ /\ LeaderPresent /\ flight.read # Never
        /\ flight' = [Proceed("routers") EXCEPT !.models = flight.read]
        /\ UNCHANGED caller
     \/ Land(Failure)
  /\ UNCHANGED <<now, catalog, superseded, cached, expiresAt, fx, present>>

ListRouters ==
  /\ flight # None /\ flight.step = "routers"
  /\ \/ /\ LeaderPresent /\ flight.read # Never
        /\ flight' = [Proceed("rate") EXCEPT !.routers = flight.read]
        /\ UNCHANGED caller
     \/ Land(Failure)
  /\ UNCHANGED <<now, catalog, superseded, cached, expiresAt, fx, present>>

\* Rate falls back to the last rate it fetched, of any age; without one the
\* service uses its configured rate.
rateAfterFailure == IF fx = Never THEN "fallback" ELSE "stale"

\* The new listing is stored, and handed to everyone who waits.
Store(rate) ==
  LET listing == [kind |-> "listing", models |-> flight.models,
                  routers |-> flight.routers, rate |-> rate]
  IN /\ cached' = listing
     /\ expiresAt' = now + TTL
     /\ Land(listing)

\* EURToUSD and the end of refresh.  A failed rate fails nothing.
EURToUSD ==
  /\ flight # None /\ flight.step = "rate"
  /\ \/ /\ fx # Never /\ now - fx < RateTTL
        /\ Store("fresh")
        /\ UNCHANGED fx
     \/ /\ fx = Never \/ now - fx >= RateTTL
        /\ LeaderPresent
        /\ fx' = now
        /\ Store("fresh")
     \/ /\ fx = Never \/ now - fx >= RateTTL
        /\ Store(rateAfterFailure)
        /\ UNCHANGED fx
  /\ UNCHANGED <<now, catalog, superseded, present>>

-----------------------------------------------------------------------------
(* The environment.                                                        *)

\* The context ends; nobody stops waiting for that, but the leader's calls
\* fail.
ClientLeaves(c) ==
  /\ caller[c].pc # "idle" /\ present[c]
  /\ present' = [present EXCEPT ![c] = FALSE]
  /\ UNCHANGED <<now, catalog, superseded, cached, expiresAt, fx, flight,
                 caller>>

Edit ==
  /\ catalog < MaxEdits
  /\ catalog' = catalog + 1
  /\ superseded' = [superseded EXCEPT ![catalog] = now]
  /\ UNCHANGED <<now, cached, expiresAt, fx, flight, caller, present>>

\* A call of the flight ends within MaxCall: the clients have timeouts.  The
\* cache check waits for nothing.
Tick ==
  /\ now < MaxTime
  /\ flight # None => flight.step # "check" /\ now < flight.since + MaxCall
  /\ now' = now + 1
  /\ UNCHANGED <<catalog, superseded, cached, expiresAt, fx, flight, caller,
                 present>>

-----------------------------------------------------------------------------
Init ==
  /\ now = 0
  /\ catalog = 0
  /\ superseded = [v \in 0 .. MaxEdits |-> Never]
  /\ cached = None
  /\ expiresAt = 0
  /\ fx = Never
  /\ flight = None
  /\ caller = [c \in Callers |-> [pc |-> "idle", answer |-> None]]
  /\ present = [c \in Callers |-> FALSE]

Flight == CheckAgain \/ ListPublicModels \/ ListRouters \/ EURToUSD

Next ==
  \/ \E c \in Callers : Request(c) \/ Join(c) \/ ClientLeaves(c)
  \/ Flight
  \/ MeteringReads
  \/ Edit
  \/ Tick

Spec == Init /\ [][Next]_vars

-----------------------------------------------------------------------------
(* Properties.                                                             *)

\* Every variable holds a value of its kind.
TypeOK ==
  /\ {now, catalog, expiresAt} \subseteq Nat
  /\ superseded \in [0 .. MaxEdits -> Nat \cup {Never}]
  /\ cached \in Listing \cup {None}
  /\ fx \in Nat \cup {Never}
  /\ flight \in [kind : {"call"}, leader : Callers, step : Steps, since : Nat,
                 read : Nat \cup {Never}, models : Nat, routers : Nat]
                \cup {None}
  /\ caller \in [Callers -> [pc : {"idle", "missed", "waiting"},
                             answer : Listing \cup {None, Failure}]]
  /\ present \in [Callers -> BOOLEAN]

\* The catalog is asked only when no listing is valid, however callers that
\* missed at different moments interleave with a call that lands: this is "one
\* DB hit per window" and "concurrent misses are coalesced".  And once a rate
\* was fetched the configured one is never shown again.
RefreshOnlyWhenDue ==
  [][/\ flight' # None /\ flight'.step # "check" => now >= expiresAt
     /\ fx # Never /\ cached' # cached => cached'.rate # "fallback"]_vars

\* How long ago version v was replaced: 0 when it is the current one.
Age(v) == IF v = catalog THEN 0 ELSE now - superseded[v]

\* A listing that fromCache still serves is younger than TTL and the calls
\* between Metering's reading and the store: three for the models, two for the
\* routers, each no longer than MaxCall.  A flight joined when it was nearly
\* done, a reply that comes long after Metering read, or an edit between the
\* two lists never add to that.
ServedIsFresh ==
  valid => /\ Age(cached.models) < TTL + 3 * MaxCall
           /\ Age(cached.routers) < TTL + 2 * MaxCall

=============================================================================
