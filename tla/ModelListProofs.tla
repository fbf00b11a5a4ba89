--------------------------- MODULE ModelListProofs ---------------------------
(***************************************************************************)
(* Theorems about ModelList, for every number of callers, every TTL, every *)
(* bound on a call's length and any number of edits.                       *)
(***************************************************************************)
EXTENDS ModelList, TLAPS

-----------------------------------------------------------------------------
(* The inductive invariant.                                                *)

\* Version v was the catalog's at instant t, or came after it.
CurrentAt(v, t) ==
  v \in 0 .. catalog /\ (v # catalog => superseded[v] \in Nat /\ superseded[v] >= t)

Versions == catalog \in 0 .. MaxEdits

\* No call takes longer than MaxCall, what Metering read for it was current when
\* the call began or later, and each part of the listing under way was current
\* when the call that listed it began.
FlightFresh ==
  flight # None =>
    /\ flight.since <= now /\ now <= flight.since + MaxCall
    /\ flight.step \in {"models", "routers"} /\ flight.read # Never =>
         CurrentAt(flight.read, flight.since)
    /\ flight.step = "routers" => CurrentAt(flight.models, flight.since - MaxCall)
    /\ flight.step = "rate" =>
         /\ CurrentAt(flight.models, flight.since - 2 * MaxCall)
         /\ CurrentAt(flight.routers, flight.since - MaxCall)

\* The listing kept was current when it was read, TTL and its calls before it
\* expires.
CacheFresh ==
  /\ expiresAt <= now + TTL
  /\ cached = None => expiresAt = 0
  /\ cached # None =>
       /\ CurrentAt(cached.models, expiresAt - TTL - 3 * MaxCall)
       /\ CurrentAt(cached.routers, expiresAt - TTL - 2 * MaxCall)

\* A flight past its check found no valid listing, and none is stored before it
\* lands.
FlightDue == flight # None /\ flight.step # "check" => now >= expiresAt

\* Singleflight: whoever waits waits for a flight, and its leader is one of them.
NobodyStranded ==
  /\ \A c \in Callers : caller[c].pc = "waiting" => flight # None
  /\ flight # None => caller[flight.leader].pc = "waiting"

LInv ==
  TypeOK /\ Versions /\ FlightFresh /\ CacheFresh /\ FlightDue /\ NobodyStranded

-----------------------------------------------------------------------------
(* Facts about versions and flights.                                       *)

\* A version current at an instant was current before it.
LEMMA CurrentBefore ==
  ASSUME NEW v, NEW t \in Int, NEW u \in Int, u <= t, CurrentAt(v, t)
  PROVE  CurrentAt(v, u)
  BY DEF CurrentAt

\* An edit replaces the catalog's version now, and no earlier one again.
LEMMA CurrentKept ==
  ASSUME LInv, Edit, NEW v, NEW t \in Int, t <= now, CurrentAt(v, t)
  PROVE  CurrentAt(v, t)'
<1>1. catalog \in Nat /\ now \in Nat /\ catalog \in 0 .. MaxEdits
      /\ superseded \in [0 .. MaxEdits -> Nat \cup {Never}]
  BY DEF LInv, TypeOK, Versions
<1>2. catalog' = catalog + 1 /\ superseded' = [superseded EXCEPT ![catalog] = now]
  BY DEF Edit
<1>3. v \in 0 .. catalog /\ (v # catalog => superseded[v] \in Nat /\ superseded[v] >= t)
  BY DEF CurrentAt
<1>4. v \in 0 .. MaxEdits /\ MaxEdits \in Nat
  BY <1>1, <1>3, ListAssumption
<1>5. superseded'[v] = IF v = catalog THEN now ELSE superseded[v]
  BY <1>1, <1>2, <1>4
<1> QED
  BY <1>1, <1>2, <1>3, <1>5 DEF CurrentAt

\* A flight is a record of its kind.
LEMMA FlightFact ==
  ASSUME TypeOK, flight # None
  PROVE  /\ flight \in [kind : {"call"}, leader : Callers, step : Steps, since : Nat,
                        read : Nat \cup {Never}, models : Nat, routers : Nat]
         /\ flight.leader \in Callers /\ flight.since \in Nat
  BY DEF TypeOK

\* When a call returns everyone who waited has its result, and nobody waits.
LEMMA LandFact ==
  ASSUME TypeOK, NEW result \in Listing \cup {None, Failure}, Land(result)
  PROVE  /\ flight' = None
         /\ caller' \in [Callers -> [pc : {"idle", "missed", "waiting"},
                                     answer : Listing \cup {None, Failure}]]
         /\ \A c \in Callers : caller'[c].pc # "waiting"
<1>1. flight' = None
  BY DEF Land
<1>2. ASSUME NEW c \in Callers
      PROVE  /\ caller'[c] \in [pc : {"idle", "missed", "waiting"},
                                answer : Listing \cup {None, Failure}]
             /\ caller'[c].pc # "waiting"
  BY DEF Land, TypeOK
<1>3. caller' \in [Callers -> [pc : {"idle", "missed", "waiting"},
                               answer : Listing \cup {None, Failure}]]
  BY <1>2 DEF Land
<1> QED
  BY <1>1, <1>2, <1>3

-----------------------------------------------------------------------------
(* Every step preserves the invariant.                                     *)

\* An empty cache and no flight.
LEMMA InitStep == Init => LInv
<1> SUFFICES ASSUME Init PROVE LInv
  OBVIOUS
<1> USE ListAssumption DEF Init
<1>1. TypeOK /\ Versions
  BY DEF TypeOK, Versions, Never
<1>2. FlightFresh /\ CacheFresh /\ FlightDue /\ NobodyStranded
  BY DEF FlightFresh, CacheFresh, FlightDue, NobodyStranded
<1> QED
  BY <1>1, <1>2 DEF LInv

\* A request looks in the cache and starts nothing.
LEMMA RequestStep == ASSUME LInv, NEW c \in Callers, Request(c) PROVE LInv'
<1> USE DEF LInv
<1>1. caller' = [caller EXCEPT ![c] = IF valid
                                      THEN [pc |-> "idle", answer |-> cached]
                                      ELSE [pc |-> "missed", answer |-> None]]
  BY DEF Request
<1>2. caller[c].pc = "idle" /\ present' = [present EXCEPT ![c] = TRUE]
      /\ UNCHANGED <<now, catalog, superseded, cached, expiresAt, fx, flight>>
  BY DEF Request
<1>3. TypeOK'
  BY <1>1, <1>2 DEF TypeOK
<1>4. FlightFresh' /\ CacheFresh' /\ FlightDue' /\ Versions'
  BY <1>2 DEF FlightFresh, CacheFresh, FlightDue, Versions, CurrentAt
<1>5. NobodyStranded'
  <2>1. \A d \in Callers : caller'[d].pc = IF d = c THEN caller'[c].pc ELSE caller[d].pc
    BY <1>1 DEF TypeOK
  <2>2. caller'[c].pc # "waiting"
    BY <1>1 DEF TypeOK
  <2>3. flight # None => flight.leader \in Callers
    BY FlightFact
  <2> QED
    BY <1>2, <2>1, <2>2, <2>3 DEF NobodyStranded
<1> QED
  BY <1>3, <1>4, <1>5

\* A miss joins the flight, or starts one that begins with its check.
LEMMA JoinStep == ASSUME LInv, NEW c \in Callers, Join(c) PROVE LInv'
<1> USE DEF LInv
<1>1. /\ caller[c].pc = "missed"
      /\ caller' = [caller EXCEPT ![c].pc = "waiting"]
      /\ flight' = IF flight = None THEN Call(c) ELSE flight
      /\ UNCHANGED <<now, catalog, superseded, cached, expiresAt, fx, present>>
  BY DEF Join
<1>2. Call(c) # None /\ Call(c).step = "check" /\ Call(c).since = now
      /\ Call(c).leader = c
  BY DEF Call, None
<1>3. Call(c) \in [kind : {"call"}, leader : Callers, step : Steps, since : Nat,
                   read : Nat \cup {Never}, models : Nat, routers : Nat]
  BY DEF Call, Steps, TypeOK
<1>4. TypeOK'
  BY <1>1, <1>3 DEF TypeOK
<1>5. CacheFresh' /\ Versions'
  BY <1>1 DEF CacheFresh, Versions, CurrentAt
<1>6. CASE flight = None
  <2>1. flight' # None /\ flight'.step = "check" /\ flight'.since = now
        /\ flight'.leader = c
    BY <1>1, <1>2, <1>6
  <2>2. FlightFresh' /\ FlightDue'
    BY <1>1, <2>1, ListAssumption DEF FlightFresh, FlightDue, TypeOK
  <2>3. NobodyStranded'
    BY <1>1, <2>1 DEF NobodyStranded, TypeOK
  <2> QED
    BY <1>4, <1>5, <2>2, <2>3
<1>7. CASE flight # None
  <2>1. flight' = flight
    BY <1>1, <1>7
  <2>2. FlightFresh' /\ FlightDue'
    BY <1>1, <2>1 DEF FlightFresh, FlightDue, CurrentAt
  <2>3. NobodyStranded'
    BY <1>1, <1>7, <2>1, FlightFact DEF NobodyStranded, TypeOK
  <2> QED
    BY <1>4, <1>5, <2>2, <2>3
<1> QED
  BY <1>6, <1>7

\* A flight that lands without storing anything.
LEMMA LandStep ==
  ASSUME LInv, NEW result \in Listing \cup {None, Failure}, Land(result),
         UNCHANGED <<now, catalog, superseded, cached, expiresAt, fx, present>>
  PROVE  LInv'
<1> USE DEF LInv
<1>1. /\ flight' = None
      /\ caller' \in [Callers -> [pc : {"idle", "missed", "waiting"},
                                  answer : Listing \cup {None, Failure}]]
      /\ \A c \in Callers : caller'[c].pc # "waiting"
  BY LandFact
<1>2. TypeOK'
  BY <1>1 DEF TypeOK
<1>3. Versions' /\ CacheFresh'
  BY DEF Versions, CacheFresh, CurrentAt
<1>4. FlightFresh' /\ FlightDue' /\ NobodyStranded'
  BY <1>1 DEF FlightFresh, FlightDue, NobodyStranded
<1> QED
  BY <1>2, <1>3, <1>4

\* A flight that goes on to its next call.
LEMMA ProceedStep ==
  ASSUME LInv, flight # None, NEW step \in Steps \ {"check"},
         NEW m \in Nat, NEW r \in Nat,
         flight' = [flight EXCEPT !.step = step, !.since = now, !.models = m,
                                  !.routers = r, !.read = Never],
         step = "routers" => CurrentAt(m, now - MaxCall),
         step = "rate" => CurrentAt(m, now - 2 * MaxCall) /\ CurrentAt(r, now - MaxCall),
         now >= expiresAt,
         UNCHANGED <<now, catalog, superseded, cached, expiresAt, fx, caller, present>>
  PROVE  LInv'
<1> USE DEF LInv
<1>1. /\ flight' \in [kind : {"call"}, leader : Callers, step : Steps, since : Nat,
                      read : Nat \cup {Never}, models : Nat, routers : Nat]
      /\ flight' # None /\ flight'.read = Never /\ flight'.step = step /\ flight'.since = now
      /\ flight'.models = m /\ flight'.routers = r /\ flight'.leader = flight.leader
  <2>1. now \in Nat
    BY DEF TypeOK
  <2>2. flight' \in [kind : {"call"}, leader : Callers, step : Steps, since : Nat,
                     read : Nat \cup {Never}, models : Nat, routers : Nat]
    BY <2>1, FlightFact
  <2>3. flight'.read = Never /\ flight'.step = step /\ flight'.since = now /\ flight'.models = m
        /\ flight'.routers = r /\ flight'.leader = flight.leader
    BY FlightFact
  <2>4. flight' # None
    BY <2>2 DEF None
  <2> QED
    BY <2>2, <2>3, <2>4
<1>2. TypeOK'
  BY <1>1 DEF TypeOK
<1>3. Versions' /\ CacheFresh'
  BY DEF Versions, CacheFresh, CurrentAt
<1>4. FlightFresh'
  BY <1>1, ListAssumption DEF FlightFresh, CurrentAt, TypeOK
<1>5. FlightDue' /\ NobodyStranded'
  BY <1>1 DEF FlightDue, NobodyStranded
<1> QED
  BY <1>2, <1>3, <1>4, <1>5

\* The second look in the cache: the flight goes on only when a listing is due.
LEMMA CheckAgainStep == ASSUME LInv, CheckAgain PROVE LInv'
<1> USE DEF LInv
<1>1. /\ flight # None
      /\ UNCHANGED <<now, catalog, superseded, cached, expiresAt, fx, present>>
  BY DEF CheckAgain
<1>2. CASE valid /\ Land(cached)
  <2>1. cached \in Listing \cup {None, Failure}
    BY DEF TypeOK
  <2> QED
    BY <1>1, <1>2, <2>1, LandStep
<1>3. CASE ~valid /\ flight' = Proceed("models") /\ UNCHANGED caller
  <2>1. now >= expiresAt
    BY <1>3 DEF valid, CacheFresh, TypeOK
  <2>2. flight' = [flight EXCEPT !.step = "models", !.since = now,
                                 !.models = flight.models, !.routers = flight.routers,
                                 !.read = Never]
    BY <1>1, <1>3, FlightFact DEF Proceed
  <2>3. flight.models \in Nat /\ flight.routers \in Nat /\ "models" \in Steps \ {"check"}
    BY <1>1, FlightFact DEF Steps
  <2>4. UNCHANGED <<now, catalog, superseded, cached, expiresAt, fx, caller, present>>
    BY <1>1, <1>3
  <2>5. "models" # "routers" /\ "models" # "rate"
    OBVIOUS
  <2> QED
    BY <1>1, <2>1, <2>2, <2>3, <2>4, <2>5, ProceedStep, ZenonT(30)
<1> QED
  BY <1>2, <1>3 DEF CheckAgain

\* Metering reads its catalog's version of the moment, within the call.
LEMMA MeteringReadsStep == ASSUME LInv, MeteringReads PROVE LInv'
<1> USE DEF LInv
<1>1. /\ flight # None /\ flight.step \in {"models", "routers"}
      /\ flight' = [flight EXCEPT !.read = catalog]
      /\ UNCHANGED <<now, catalog, superseded, cached, expiresAt, fx, caller, present>>
  BY DEF MeteringReads
<1>2. catalog \in Nat
  BY DEF TypeOK
<1>3. /\ flight' \in [kind : {"call"}, leader : Callers, step : Steps, since : Nat,
                      read : Nat \cup {Never}, models : Nat, routers : Nat]
      /\ flight' # None
  BY <1>1, <1>2, FlightFact DEF None
<1>4. /\ flight'.read = catalog /\ flight'.step = flight.step
      /\ flight'.since = flight.since /\ flight'.models = flight.models
      /\ flight'.routers = flight.routers /\ flight'.leader = flight.leader
  BY <1>1, FlightFact
<1>5. TypeOK'
  BY <1>1, <1>3 DEF TypeOK
<1>6. Versions' /\ CacheFresh'
  BY <1>1 DEF Versions, CacheFresh, CurrentAt
<1>7. FlightFresh'
  <2>1. CurrentAt(catalog, flight.since)
    BY <1>2 DEF CurrentAt
  <2> QED
    BY <1>1, <1>3, <1>4, <2>1 DEF FlightFresh, CurrentAt
<1>8. FlightDue' /\ NobodyStranded'
  BY <1>1, <1>3, <1>4 DEF FlightDue, NobodyStranded
<1> QED
  BY <1>5, <1>6, <1>7, <1>8

\* What Metering read for a call that returns is at most one call old.
LEMMA ReadFact ==
  ASSUME LInv, flight # None, flight.step \in {"models", "routers"},
         flight.read # Never
  PROVE  flight.read \in Nat /\ CurrentAt(flight.read, now - MaxCall)
<1> USE DEF LInv
<1>1. CurrentAt(flight.read, flight.since) /\ now <= flight.since + MaxCall
  BY DEF FlightFresh
<1>2. flight.since \in Int /\ now \in Int /\ MaxCall \in Int
  BY FlightFact, ListAssumption DEF TypeOK
<1>3. CurrentAt(flight.read, now - MaxCall)
  BY <1>1, <1>2, CurrentBefore
<1> QED
  BY <1>3, FlightFact

\* The models listed are what Metering read.
LEMMA ListPublicModelsStep == ASSUME LInv, ListPublicModels PROVE LInv'
<1> USE DEF LInv
<1>1. /\ flight # None /\ flight.step = "models"
      /\ UNCHANGED <<now, catalog, superseded, cached, expiresAt, fx, present>>
  BY DEF ListPublicModels
<1>2. CASE Land(Failure)
  BY <1>1, <1>2, LandStep
<1>3. CASE /\ flight.read # Never
           /\ flight' = [Proceed("routers") EXCEPT !.models = flight.read]
           /\ UNCHANGED caller
  <2>1. now >= expiresAt
    BY <1>1 DEF FlightDue
  <2>2. flight' = [flight EXCEPT !.step = "routers", !.since = now,
                                 !.models = flight.read, !.routers = flight.routers,
                                 !.read = Never]
    BY <1>1, <1>3, FlightFact DEF Proceed
  <2>3. flight.routers \in Nat /\ "routers" \in Steps \ {"check"}
    BY <1>1, FlightFact DEF Steps
  <2>4. flight.read \in Nat /\ CurrentAt(flight.read, now - MaxCall)
    BY <1>1, <1>3, ReadFact
  <2> QED
    BY <1>1, <1>3, <2>1, <2>2, <2>3, <2>4, ProceedStep
<1> QED
  BY <1>2, <1>3 DEF ListPublicModels

\* So are the routers; the models were listed one call earlier.
LEMMA ListRoutersStep == ASSUME LInv, ListRouters PROVE LInv'
<1> USE DEF LInv
<1>1. /\ flight # None /\ flight.step = "routers"
      /\ UNCHANGED <<now, catalog, superseded, cached, expiresAt, fx, present>>
  BY DEF ListRouters
<1>2. CASE Land(Failure)
  BY <1>1, <1>2, LandStep
<1>3. CASE /\ flight.read # Never
           /\ flight' = [Proceed("rate") EXCEPT !.routers = flight.read]
           /\ UNCHANGED caller
  <2>1. now >= expiresAt
    BY <1>1 DEF FlightDue
  <2>2. flight' = [flight EXCEPT !.step = "rate", !.since = now,
                                 !.models = flight.models, !.routers = flight.read,
                                 !.read = Never]
    BY <1>1, <1>3, FlightFact DEF Proceed
  <2>3. flight.models \in Nat /\ "rate" \in Steps \ {"check"}
    BY <1>1, FlightFact DEF Steps
  <2>4. flight.read \in Nat /\ CurrentAt(flight.read, now - MaxCall)
    BY <1>1, <1>3, ReadFact
  <2>5. CurrentAt(flight.models, now - 2 * MaxCall)
    <3>1. CurrentAt(flight.models, flight.since - MaxCall) /\ now <= flight.since + MaxCall
      BY <1>1 DEF FlightFresh
    <3>2. flight.since \in Int /\ now \in Int /\ MaxCall \in Int
      BY <1>1, FlightFact, ListAssumption DEF TypeOK
    <3> QED
      BY <3>1, <3>2, CurrentBefore
  <2>6. UNCHANGED <<now, catalog, superseded, cached, expiresAt, fx, caller, present>>
    BY <1>1, <1>3
  <2>7. "rate" # "routers"
    OBVIOUS
  <2> QED
    BY <1>1, <2>1, <2>2, <2>3, <2>4, <2>5, <2>6, <2>7, ProceedStep, ZenonT(30)
<1> QED
  BY <1>2, <1>3 DEF ListRouters

\* The listing is stored: its routers are at most two calls old, its
\* models three.
LEMMA StoreStep ==
  ASSUME LInv, flight # None, flight.step = "rate", NEW rate \in Rates, Store(rate),
         fx' \in Nat \cup {Never}, UNCHANGED <<now, catalog, superseded, present>>
  PROVE  LInv'
<1> DEFINE listing == [kind |-> "listing", models |-> flight.models,
                       routers |-> flight.routers, rate |-> rate]
<1> USE DEF LInv
<1>1. cached' = listing /\ expiresAt' = now + TTL /\ Land(listing)
  BY DEF Store
<1>2. listing \in Listing
  BY FlightFact DEF Listing
<1>3. /\ flight' = None
      /\ caller' \in [Callers -> [pc : {"idle", "missed", "waiting"},
                                  answer : Listing \cup {None, Failure}]]
      /\ \A c \in Callers : caller'[c].pc # "waiting"
  BY <1>1, <1>2, LandFact
<1>4. TypeOK'
  BY <1>1, <1>2, <1>3, ListAssumption DEF TypeOK
<1>5. Versions' /\ FlightFresh' /\ FlightDue' /\ NobodyStranded'
  BY <1>3 DEF Versions, FlightFresh, FlightDue, NobodyStranded
<1>6. CacheFresh'
  <2>1. now \in Int /\ flight.since \in Int /\ TTL \in Nat /\ MaxCall \in Nat
    BY FlightFact, ListAssumption DEF TypeOK
  <2>2. /\ now <= flight.since + MaxCall
        /\ CurrentAt(flight.models, flight.since - 2 * MaxCall)
        /\ CurrentAt(flight.routers, flight.since - MaxCall)
    BY DEF FlightFresh
  <2>3. /\ CurrentAt(flight.models, now - 3 * MaxCall)
        /\ CurrentAt(flight.routers, now - 2 * MaxCall)
    BY <2>1, <2>2, CurrentBefore
  <2>4. /\ cached' # None /\ cached'.models = flight.models
        /\ cached'.routers = flight.routers
    BY <1>1 DEF None
  <2>5. /\ expiresAt' - TTL - 3 * MaxCall = now - 3 * MaxCall
        /\ expiresAt' - TTL - 2 * MaxCall = now - 2 * MaxCall
        /\ expiresAt' <= now + TTL
    BY <1>1, <2>1
  <2> QED
    BY <2>3, <2>4, <2>5 DEF CacheFresh, CurrentAt
<1> QED
  BY <1>4, <1>5, <1>6

\* The rate fails nothing: whatever it is, the listing is stored.
LEMMA EURToUSDStep == ASSUME LInv, EURToUSD PROVE LInv'
<1>1. /\ flight # None /\ flight.step = "rate"
      /\ UNCHANGED <<now, catalog, superseded, present>>
  BY DEF EURToUSD
<1>2. fx' \in Nat \cup {Never}
  BY DEF EURToUSD, LInv, TypeOK
<1>3. Store("fresh") \/ Store(rateAfterFailure)
  BY DEF EURToUSD
<1>4. "fresh" \in Rates /\ rateAfterFailure \in Rates
  BY DEF Rates, rateAfterFailure
<1> QED
  BY <1>1, <1>2, <1>3, <1>4, StoreStep

\* A client that leaves changes nothing by itself.
LEMMA ClientLeavesStep == ASSUME LInv, NEW c \in Callers, ClientLeaves(c) PROVE LInv'
<1> USE DEF LInv, ClientLeaves
<1>1. TypeOK'
  BY DEF TypeOK
<1>2. Versions' /\ FlightFresh' /\ CacheFresh'
  BY DEF Versions, FlightFresh, CacheFresh, CurrentAt
<1>3. FlightDue' /\ NobodyStranded'
  BY DEF FlightDue, NobodyStranded
<1> QED
  BY <1>1, <1>2, <1>3

\* An edit replaces the current version now: what was read before was current.
LEMMA EditStep == ASSUME LInv, Edit PROVE LInv'
<1> USE DEF LInv
<1>1. /\ catalog < MaxEdits /\ catalog' = catalog + 1
      /\ superseded' = [superseded EXCEPT ![catalog] = now]
      /\ UNCHANGED <<now, cached, expiresAt, fx, flight, caller, present>>
  BY DEF Edit
<1>2. now \in Nat /\ expiresAt \in Nat /\ {TTL, MaxCall, MaxEdits} \subseteq Nat
  BY ListAssumption DEF TypeOK
<1>3. TypeOK'
  BY <1>1, <1>2 DEF TypeOK
<1>4. Versions'
  BY <1>1, <1>2 DEF Versions, TypeOK
<1>5. FlightFresh'
  <2> SUFFICES ASSUME flight # None
               PROVE  /\ flight.since <= now /\ now <= flight.since + MaxCall
                      /\ flight.step \in {"models", "routers"} /\ flight.read # Never =>
                           CurrentAt(flight.read, flight.since)'
                      /\ flight.step = "routers" =>
                           CurrentAt(flight.models, flight.since - MaxCall)'
                      /\ flight.step = "rate" =>
                           /\ CurrentAt(flight.models, flight.since - 2 * MaxCall)'
                           /\ CurrentAt(flight.routers, flight.since - MaxCall)'
    BY <1>1 DEF FlightFresh, CurrentAt
  <2>1. flight.since \in Nat /\ flight.since <= now /\ now <= flight.since + MaxCall
    BY FlightFact DEF FlightFresh
  <2>2. ASSUME NEW v,
               NEW t \in {flight.since, flight.since - MaxCall, flight.since - 2 * MaxCall},
               CurrentAt(v, t)
        PROVE  v \in 0 .. catalog' /\ (v # catalog' => superseded'[v] \in Nat
                                                       /\ superseded'[v] >= t)
    <3>1. t \in Int /\ t <= now
      BY <1>2, <2>1
    <3>2. CurrentAt(v, t)'
      BY <2>2, <3>1, CurrentKept
    <3> QED
      BY <3>2 DEF CurrentAt
  <2> QED
    BY <1>1, <2>1, <2>2 DEF FlightFresh, CurrentAt
<1>6. CacheFresh'
  <2>1. expiresAt <= now + TTL /\ (cached = None => expiresAt = 0)
    BY DEF CacheFresh
  <2>2. ASSUME NEW v, NEW t \in {expiresAt - TTL - 3 * MaxCall, expiresAt - TTL - 2 * MaxCall},
               CurrentAt(v, t)
        PROVE  v \in 0 .. catalog' /\ (v # catalog' => superseded'[v] \in Nat
                                                       /\ superseded'[v] >= t)
    <3>1. t \in Int /\ t <= now
      BY <1>2, <2>1
    <3>2. CurrentAt(v, t)'
      BY <2>2, <3>1, CurrentKept
    <3> QED
      BY <3>2 DEF CurrentAt
  <2> QED
    BY <1>1, <2>1, <2>2 DEF CacheFresh, CurrentAt
<1>7. FlightDue' /\ NobodyStranded'
  BY <1>1 DEF FlightDue, NobodyStranded
<1> QED
  BY <1>3, <1>4, <1>5, <1>6, <1>7

\* Time passes only while the flight's call is within its bound.
LEMMA TickStep == ASSUME LInv, Tick PROVE LInv'
<1> USE DEF LInv
<1>1. /\ flight # None => now < flight.since + MaxCall
      /\ now' = now + 1
      /\ UNCHANGED <<catalog, superseded, cached, expiresAt, fx, flight, caller, present>>
  BY DEF Tick
<1>2. now \in Nat /\ expiresAt \in Nat /\ {TTL, MaxCall} \subseteq Nat
  BY ListAssumption DEF TypeOK
<1>3. TypeOK'
  BY <1>1, <1>2 DEF TypeOK
<1>4. Versions' /\ NobodyStranded'
  BY <1>1 DEF Versions, NobodyStranded
<1>5. FlightFresh'
  BY <1>1, <1>2, FlightFact DEF FlightFresh, CurrentAt
<1>6. CacheFresh' /\ FlightDue'
  BY <1>1, <1>2 DEF CacheFresh, FlightDue, CurrentAt
<1> QED
  BY <1>3, <1>4, <1>5, <1>6

-----------------------------------------------------------------------------
(* The theorems.                                                           *)

\* Every step of a caller, of the flight and of the world preserves the
\* invariant.
LEMMA NextStep == LInv /\ [Next]_vars => LInv'
<1> SUFFICES ASSUME LInv, [Next]_vars PROVE LInv'
  OBVIOUS
<1>1. CASE UNCHANGED vars
  BY <1>1 DEF vars, LInv, TypeOK, Versions, FlightFresh, CacheFresh, FlightDue,
     NobodyStranded, CurrentAt
<1>2. CASE Flight
  BY <1>2, CheckAgainStep, ListPublicModelsStep, ListRoutersStep, EURToUSDStep
     DEF Flight
<1> QED
  BY <1>1, <1>2, MeteringReadsStep, RequestStep, JoinStep, ClientLeavesStep, EditStep, TickStep DEF Next

\* The invariant holds of the service for as long as it runs.
THEOREM Invariance == Spec => []LInv
  BY InitStep, NextStep, PTL DEF Spec

\* The service's variables keep their types.
THEOREM TypeCorrect == Spec => []TypeOK
<1>1. LInv => TypeOK
  BY DEF LInv
<1> QED
  BY Invariance, <1>1, PTL

\* A listing served from the cache is younger than the TTL and the calls from
\* Metering's reading to the store, for every TTL and every length of a call.
THEOREM ServedFresh == Spec => []ServedIsFresh
<1>1. LInv => ServedIsFresh
  <2> SUFFICES ASSUME LInv, valid
               PROVE  /\ Age(cached.models) < TTL + 3 * MaxCall
                      /\ Age(cached.routers) < TTL + 2 * MaxCall
    BY DEF ServedIsFresh
  <2>1. now \in Nat /\ expiresAt \in Nat /\ {TTL, MaxCall} \subseteq Nat
        /\ now < expiresAt
    BY ListAssumption DEF LInv, TypeOK, valid
  <2>2. /\ CurrentAt(cached.models, expiresAt - TTL - 3 * MaxCall)
        /\ CurrentAt(cached.routers, expiresAt - TTL - 2 * MaxCall)
    BY DEF LInv, CacheFresh, valid
  <2>3. 0 < TTL
    BY <2>1 DEF LInv, CacheFresh
  <2> QED
    BY <2>1, <2>2, <2>3 DEF CurrentAt, Age
<1> QED
  BY Invariance, <1>1, PTL

\* The catalog is asked only when no listing is valid, however many callers
\* miss at once; and a rate that was fetched is never given up for the
\* configured one.
THEOREM RefreshesAreDue == Spec => RefreshOnlyWhenDue
<1> DEFINE Due == /\ flight' # None /\ flight'.step # "check" => now >= expiresAt
                  /\ fx # Never /\ cached' # cached => cached'.rate # "fallback"
<1>1. LInv /\ LInv' /\ [Next]_vars => [Due]_vars
  <2> SUFFICES ASSUME LInv, LInv', Next PROVE Due
    OBVIOUS
  <2>1. flight' # None /\ flight'.step # "check" => now >= expiresAt
    <3> SUFFICES ASSUME flight' # None, flight'.step # "check" PROVE now >= expiresAt
      OBVIOUS
    <3>1. now' >= expiresAt'
      BY DEF LInv, FlightDue
    <3>2. CASE UNCHANGED <<now, expiresAt>>
      BY <3>1, <3>2
    <3>3. CASE EURToUSD
      BY <3>3 DEF EURToUSD, Store, Land
    <3>4. CASE Tick
      BY <3>4 DEF Tick, LInv, FlightDue
    <3> QED
      BY <3>2, <3>3, <3>4 DEF Next, Flight, Request, Join, ClientLeaves, CheckAgain,
         ListPublicModels, ListRouters, MeteringReads, Edit
  <2>2. fx # Never /\ cached' # cached => cached'.rate # "fallback"
    <3> SUFFICES ASSUME fx # Never, cached' # cached PROVE cached'.rate # "fallback"
      OBVIOUS
    <3>1. EURToUSD
      BY DEF Next, Flight, Request, Join, ClientLeaves, CheckAgain, ListPublicModels,
         ListRouters, MeteringReads, Edit, Tick
    <3>2. PICK rate \in {"fresh", "stale"} : Store(rate)
      BY <3>1 DEF EURToUSD, rateAfterFailure
    <3>3. cached'.rate = rate
      BY <3>2 DEF Store
    <3> QED
      BY <3>3
  <2> QED
    BY <2>1, <2>2
<1> QED
  BY Invariance, <1>1, PTL DEF Spec, RefreshOnlyWhenDue

\* Singleflight: nobody waits for a call that is not under way, and a call under
\* way has someone, its leader included, who waits for it.
THEOREM NobodyIsStranded == Spec => []NobodyStranded
<1>1. LInv => NobodyStranded
  BY DEF LInv
<1> QED
  BY Invariance, <1>1, PTL

=============================================================================
