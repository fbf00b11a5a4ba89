----------------------------- MODULE ReplayCache -----------------------------
(***************************************************************************)
(* Replay protection of the confidential endpoint: the freshness check of  *)
(* handleDecrypted, the replay cache it stores request ids in, and the     *)
(* requests it lets through to the chat handler.                           *)
(*                                                                         *)
(* A message is an encrypted envelope.  It can reach the gateway any       *)
(* number of times, on several connections at once.  Handlers run          *)
(* concurrently: each reads the clock for freshness, and later takes the   *)
(* cache's lock, where the clock is read again.  The cache runs on the     *)
(* monotonic clock; freshness compares wall-clock time, which may be       *)
(* stepped.  A restart empties the cache and makes a new key pair, so      *)
(* envelopes for the old key can no longer be opened.                      *)
(***************************************************************************)
EXTENDS Integers, Sequences, FiniteSets

CONSTANTS
  Handlers,       \* requests served at once
  Accounts, Ids,  \* accounts and request ids
  MaxAge,         \* confidentialMaxAge
  FutureSkew,     \* confidentialFutureSkew
  TTL,            \* confidentialReplayTTL
  Capacity,       \* confidentialReplayCapacity
  AccountLimit,   \* confidentialReplayAccountCapacity
  MaxStall,       \* longest time from the freshness check to the lock
  MaxStep,        \* how far the wall clock may be from the monotonic one
  MaxTime,        \* bound on the clock
  MaxEpoch        \* bound on restarts

\* The TTL outlasts the longest time in which one envelope stays fresh.
ASSUME ReplayAssumption ==
  /\ {MaxAge, FutureSkew, TTL, Capacity, AccountLimit, MaxStall, MaxStep,
      MaxTime, MaxEpoch} \subseteq Nat
  /\ MaxAge + FutureSkew + MaxStep + MaxStall < TTL

VARIABLES
  now,          \* the monotonic clock
  step,         \* the wall clock is now + step
  epoch,        \* the gateway process, and its key pair
  handler,      \* each handler: idle, or past the freshness check
  entries,      \* keys of the cache
  accounts,     \* keys per account
  expirations,  \* entries in the order they expire
  log           \* history: the requests let through

vars == <<now, step, epoch, handler, entries, accounts, expirations, log>>

-----------------------------------------------------------------------------

Wall == now + step

\* An envelope: its request id, its timestamp (the client's clock) and the
\* key pair it was encrypted for.
Messages == [id : Ids, issued : Int, epoch : Nat]

Idle == [pc |-> "idle"]
Checked(account, msg) ==
  [pc |-> "checked", account |-> account, msg |-> msg, at |-> now]

Key(account, msg) == <<account, msg.id>>

accountCapacity == IF Capacity <= AccountLimit THEN Capacity ELSE AccountLimit

-----------------------------------------------------------------------------
(* The handler.                                                            *)

stale(msg) == msg.issued < Wall - MaxAge
inFuture(msg) == msg.issued > Wall + FutureSkew

\* A delivered envelope is opened, authenticated and fresh.  One for another
\* key, a stale one or one from the future is rejected and changes nothing.
CheckFreshness(h, account, msg) ==
  /\ handler[h] = Idle
  /\ msg.epoch = epoch
  /\ ~stale(msg) /\ ~inFuture(msg)
  /\ handler' = [handler EXCEPT ![h] = Checked(account, msg)]
  /\ UNCHANGED <<now, step, epoch, entries, accounts, expirations, log>>

\* Mutant of Expired: a full cache gives up its oldest entry.
ExpiredOrEvicted(k) ==
  /\ k \in 0 .. Len(expirations)
  /\ \A i \in 1 .. k : expirations[i].expiresAt <= now \/ Len(expirations) = Capacity
  /\ k < Len(expirations) => now < expirations[k + 1].expiresAt

\* The first k entries have expired; a live one, or the list's end, follows.
Expired(k) ==
  /\ k \in 0 .. Len(expirations)
  /\ \A i \in 1 .. k : expirations[i].expiresAt <= now
  /\ k < Len(expirations) => now < expirations[k + 1].expiresAt

ExpiredKeys(k) == {expirations[i].key : i \in 1 .. k}

\* What the loop leaves when it removes k entries.
LiveEntries(k) == entries \ ExpiredKeys(k)

\* Mutant of LiveAccounts: the counter is not decremented.
AccountsKept(k) == accounts

LiveAccounts(k) ==
  [a \in Accounts |->
     accounts[a] - Cardinality({key \in ExpiredKeys(k) : key[1] = a})]
LiveExpirations(k) == SubSeq(expirations, k + 1, Len(expirations))

\* A duplicate, an account at its limit, or a full cache.
refused(h, k) ==
  \/ Key(handler[h].account, handler[h].msg) \in LiveEntries(k)
  \/ LiveAccounts(k)[handler[h].account] >= accountCapacity
  \/ Cardinality(LiveEntries(k)) >= Capacity

\* Mutant of entryOf: the entry lives as long as the envelope's past.
entryOfMaxAge(h) ==
  [key |-> Key(handler[h].account, handler[h].msg), expiresAt |-> now + MaxAge]

\* Mutant of entryOf: the clock was read before the lock was taken.
entryOfEarly(h) ==
  [key |-> Key(handler[h].account, handler[h].msg),
   expiresAt |-> handler[h].at + TTL]

\* The clock is sampled under the lock.
entryOf(h) ==
  [key |-> Key(handler[h].account, handler[h].msg), expiresAt |-> now + TTL]

\* checkAndStore, and the request let through when it is accepted.
CheckAndStore(h) ==
  /\ handler[h].pc = "checked"
  /\ \E k \in 0 .. Len(expirations) :
       /\ Expired(k)
       /\ \/ /\ refused(h, k)
             /\ entries' = LiveEntries(k)
             /\ accounts' = LiveAccounts(k)
             /\ expirations' = LiveExpirations(k)
             /\ UNCHANGED log
          \/ /\ ~refused(h, k)
             /\ entries' = LiveEntries(k) \cup {entryOf(h).key}
             /\ accounts' = [LiveAccounts(k) EXCEPT ![handler[h].account] = @ + 1]
             /\ expirations' = Append(LiveExpirations(k), entryOf(h))
             /\ log' = Append(log, [account |-> handler[h].account,
                                    msg |-> handler[h].msg, at |-> now])
  /\ handler' = [handler EXCEPT ![h] = Idle]
  /\ UNCHANGED <<now, step, epoch>>

-----------------------------------------------------------------------------
(* Time and restarts.                                                      *)

\* A handler past its freshness check is at the lock within MaxStall: nothing
\* between the two waits but the lock, which is held for no I/O.
Tick ==
  /\ now < MaxTime
  /\ \A h \in Handlers :
       handler[h].pc = "checked" => now < handler[h].at + MaxStall
  /\ now' = now + 1
  /\ UNCHANGED <<step, epoch, handler, entries, accounts, expirations, log>>

StepClock ==
  /\ step' \in (0 .. MaxStep) \ {step}
  /\ UNCHANGED <<now, epoch, handler, entries, accounts, expirations, log>>

\* A new process: an empty cache, a new key pair, no handlers.
Restart ==
  /\ epoch < MaxEpoch
  /\ epoch' = epoch + 1
  /\ handler' = [h \in Handlers |-> Idle]
  /\ entries' = {}
  /\ accounts' = [a \in Accounts |-> 0]
  /\ expirations' = <<>>
  /\ UNCHANGED <<now, step, log>>

-----------------------------------------------------------------------------
Init ==
  /\ now = 0
  /\ step \in 0 .. MaxStep
  /\ epoch = 0
  /\ handler = [h \in Handlers |-> Idle]
  /\ entries = {}
  /\ accounts = [a \in Accounts |-> 0]
  /\ expirations = <<>>
  /\ log = <<>>

\* The timestamps a fresh envelope can carry.
FreshTimes == Wall - MaxAge .. Wall + FutureSkew

Next ==
  \/ \E h \in Handlers, account \in Accounts, id \in Ids, issued \in FreshTimes :
       CheckFreshness(h, account, [id |-> id, issued |-> issued, epoch |-> epoch])
  \/ \E h \in Handlers : CheckAndStore(h)
  \/ Tick
  \/ StepClock
  \/ Restart

Spec == Init /\ [][Next]_vars

-----------------------------------------------------------------------------
(* Properties.                                                             *)

\* Every variable holds a value of its kind; the counts are never negative.
TypeOK ==
  /\ now \in Nat
  /\ step \in 0 .. MaxStep
  /\ epoch \in Nat
  /\ handler \in [Handlers -> {Idle} \cup
                    [pc : {"checked"}, account : Accounts, msg : Messages,
                     at : Nat]]
  /\ entries \subseteq Accounts \X Ids
  /\ accounts \in [Accounts -> Nat]
  /\ expirations \in Seq([key : Accounts \X Ids, expiresAt : Nat])
  /\ log \in Seq([account : Accounts, msg : Messages, at : Nat])

\* An envelope is let through to the chat handler at most once for an account:
\* not by duplicates checked at the same moment, not after its entry expired,
\* not by a cache at its limits, a stepped clock or a restart.
NoReplay ==
  \A i, j \in DOMAIN log :
    i # j => ~(log[i].account = log[j].account /\ log[i].msg = log[j].msg)

\* The map, the per-account counters and the expiry list agree: no entry is
\* lost, doubled or counted against the wrong account.
CacheConsistent ==
  /\ entries = {expirations[i].key : i \in DOMAIN expirations}
  /\ \A i, j \in DOMAIN expirations :
       i # j => expirations[i].key # expirations[j].key
  /\ \A a \in Accounts : accounts[a] = Cardinality({k \in entries : k[1] = a})

\* The cache stays within its capacity, and one account within its share.
WithinLimits ==
  /\ Len(expirations) <= Capacity
  /\ \A a \in Accounts : accounts[a] <= accountCapacity

\* An entry stays exactly as long as it protects.  A running process removes
\* only expired entries: a full cache refuses and never evicts.  And a check
\* leaves no expired one behind: sampling the clock under the lock keeps the
\* list in expiry order, so the loop never stops early.
EntriesLiveTheirTime ==
  [][/\ \A i \in DOMAIN expirations :
          epoch' = epoch /\ expirations[i].key \notin entries' =>
            expirations[i].expiresAt <= now
     /\ \A h \in Handlers :
          handler[h] # Idle /\ handler'[h] = Idle =>
            \A i \in DOMAIN expirations' : expirations'[i].expiresAt > now]_vars

=============================================================================
