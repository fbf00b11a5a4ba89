-------------------------- MODULE ReplayCacheProofs --------------------------
(***************************************************************************)
(* Proofs about ReplayCache, for any number of handlers, accounts and      *)
(* request ids, any limits, and any times that satisfy ReplayAssumption.   *)
(***************************************************************************)
EXTENDS ReplayCache, FiniteSetTheorems, SequenceTheorems, TLAPS

-----------------------------------------------------------------------------
(* Expiry lists.                                                           *)

Entry == [key : Accounts \X Ids, expiresAt : Nat]

Keys(s) == {s[i].key : i \in DOMAIN s}

Distinct(s) == \A i, j \in DOMAIN s : i # j => s[i].key # s[j].key

Ordered(s) ==
  \A i, j \in DOMAIN s : i <= j => s[i].expiresAt <= s[j].expiresAt

\* The keys of one account.
Of(S, a) == {key \in S : key[1] = a}

\* A list without repeated keys has as many keys as entries.
LEMMA KeyCount ==
  ASSUME NEW s \in Seq(Entry), Distinct(s)
  PROVE  IsFiniteSet(Keys(s)) /\ Cardinality(Keys(s)) = Len(s)
<1> DEFINE f == [i \in 1 .. Len(s) |-> s[i].key]
<1>1. Len(s) \in Nat /\ DOMAIN s = 1 .. Len(s)
  BY LenProperties
<1>2. f \in Bijection(1 .. Len(s), Keys(s))
  <2>1. f \in [1 .. Len(s) -> Keys(s)]
    BY <1>1 DEF Keys
  <2>2. \A i, j \in 1 .. Len(s) : f[i] = f[j] => i = j
    BY <1>1 DEF Distinct
  <2>3. \A key \in Keys(s) : \E i \in 1 .. Len(s) : f[i] = key
    BY <1>1 DEF Keys
  <2> HIDE DEF f
  <2> QED
    BY <2>1, <2>2, <2>3 DEF Bijection, Injection, Surjection, IsInjective
<1>3. ExistsBijection(1 .. Len(s), Keys(s))
  BY <1>2 DEF ExistsBijection
<1>4. IsFiniteSet(1 .. Len(s)) /\ Cardinality(1 .. Len(s)) = Len(s)
  <2>1. 1 \in Int /\ Len(s) \in Int
    BY <1>1
  <2> QED
    BY <1>1, <2>1, FS_Interval
<1> QED
  BY <1>3, <1>4, FS_Bijection

\* How many elements a list has behind its first k.
LEMMA LeftOver ==
  \A n, k \in Nat :
    k <= n => (IF k + 1 <= n THEN n - (k + 1) + 1 ELSE 0) = n - k
OBVIOUS

\* Dropping the first k entries removes exactly their keys.
LEMMA DropFirst ==
  ASSUME NEW s \in Seq(Entry), Distinct(s), NEW k \in 0 .. Len(s)
  PROVE  /\ SubSeq(s, k + 1, Len(s)) \in Seq(Entry)
         /\ Len(SubSeq(s, k + 1, Len(s))) = Len(s) - k
         /\ \A i \in 1 .. Len(s) - k : SubSeq(s, k + 1, Len(s))[i] = s[k + i]
         /\ Distinct(SubSeq(s, k + 1, Len(s)))
         /\ Keys(SubSeq(s, k + 1, Len(s))) = Keys(s) \ {s[i].key : i \in 1 .. k}
<1> DEFINE t == SubSeq(s, k + 1, Len(s))
<1>1. Len(s) \in Nat /\ DOMAIN s = 1 .. Len(s) /\ k \in Nat /\ k <= Len(s)
  BY LenProperties
<1>2. \A i \in k + 1 .. Len(s) : s[i] \in Entry
  BY <1>1, ElementOfSeq
<1>3. /\ t \in Seq(Entry)
      /\ Len(t) = IF k + 1 <= Len(s) THEN Len(s) - (k + 1) + 1 ELSE 0
      /\ \A i \in 1 .. Len(s) - (k + 1) + 1 : t[i] = s[k + 1 + i - 1]
  <2>1. k + 1 \in Int /\ Len(s) \in Int
    BY <1>1
  <2> QED
    BY <1>2, <2>1, SubSeqProperties
<1> HIDE DEF t
<1>4. Len(t) = Len(s) - k /\ \A i \in 1 .. Len(s) - k : t[i] = s[k + i]
  <2>1. Len(t) = Len(s) - k
    <3>1. Len(t) = IF k + 1 <= Len(s) THEN Len(s) - (k + 1) + 1 ELSE 0
      BY <1>3
    <3> QED
      BY <1>1, <3>1, LeftOver
  <2>2. ASSUME NEW i \in 1 .. Len(s) - k PROVE t[i] = s[k + i]
    <3>1. i \in 1 .. Len(s) - (k + 1) + 1 /\ k + 1 + i - 1 = k + i
      BY <1>1
    <3> QED
      BY <1>3, <3>1
  <2> QED
    BY <2>1, <2>2
<1>5. DOMAIN t = 1 .. Len(s) - k
  BY <1>3, <1>4, LenProperties
<1>6. Distinct(t)
  <2>1. SUFFICES ASSUME NEW i \in DOMAIN t, NEW j \in DOMAIN t, i # j
                 PROVE  t[i].key # t[j].key
    BY DEF Distinct
  <2>2. t[i] = s[k + i] /\ t[j] = s[k + j]
    BY <1>4, <1>5
  <2>3. k + i \in DOMAIN s /\ k + j \in DOMAIN s /\ k + i # k + j
    BY <1>1, <1>5, <2>1
  <2> QED
    BY <2>2, <2>3 DEF Distinct
<1>7. Keys(t) = Keys(s) \ {s[i].key : i \in 1 .. k}
  <2>1. ASSUME NEW i \in DOMAIN t PROVE t[i].key \in Keys(s) \ {s[j].key : j \in 1 .. k}
    <3>1. t[i] = s[k + i] /\ k + i \in DOMAIN s /\ \A j \in 1 .. k : j # k + i /\ j \in DOMAIN s
      BY <1>1, <1>4, <1>5
    <3> QED
      BY <3>1 DEF Keys, Distinct
  <2>2. ASSUME NEW i \in DOMAIN s, s[i].key \notin {s[j].key : j \in 1 .. k}
        PROVE  s[i].key \in Keys(t)
    <3>1. i \notin 1 .. k
      BY <2>2
    <3>2. i - k \in DOMAIN t /\ t[i - k] = s[i]
      BY <1>1, <1>4, <1>5, <3>1
    <3> QED
      BY <3>2 DEF Keys
  <2> QED
    BY <2>1, <2>2 DEF Keys
<1> QED
  BY <1>3, <1>4, <1>6, <1>7 DEF t

\* Appending an entry with a new key.
LEMMA AddLast ==
  ASSUME NEW s \in Seq(Entry), Distinct(s), NEW e \in Entry, e.key \notin Keys(s)
  PROVE  /\ Append(s, e) \in Seq(Entry)
         /\ Len(Append(s, e)) = Len(s) + 1
         /\ \A i \in 1 .. Len(s) : Append(s, e)[i] = s[i]
         /\ Append(s, e)[Len(s) + 1] = e
         /\ Distinct(Append(s, e))
         /\ Keys(Append(s, e)) = Keys(s) \cup {e.key}
<1> DEFINE t == Append(s, e)
<1>1. /\ t \in Seq(Entry)
      /\ Len(t) = Len(s) + 1
      /\ \A i \in 1 .. Len(s) : t[i] = s[i]
      /\ t[Len(s) + 1] = e
  BY AppendProperties
<1>2. Len(s) \in Nat /\ DOMAIN s = 1 .. Len(s) /\ DOMAIN t = 1 .. Len(s) + 1
  BY <1>1, LenProperties
<1> HIDE DEF t
<1>3. \A i \in DOMAIN t : \/ i \in DOMAIN s /\ t[i] = s[i]
                          \/ i = Len(s) + 1 /\ t[i] = e
  <2>1. SUFFICES ASSUME NEW i \in DOMAIN t
                 PROVE  \/ i \in DOMAIN s /\ t[i] = s[i]
                        \/ i = Len(s) + 1 /\ t[i] = e
    OBVIOUS
  <2>2. i \in 1 .. Len(s) \/ i = Len(s) + 1
    BY <1>2
  <2>3. i \in 1 .. Len(s) => i \in DOMAIN s /\ t[i] = s[i]
    BY <1>1, <1>2
  <2>4. i = Len(s) + 1 => t[i] = e
    BY <1>1
  <2> QED
    BY <2>2, <2>3, <2>4
<1>4. Distinct(t)
  BY <1>3 DEF Distinct, Keys
<1>5. Keys(t) = Keys(s) \cup {e.key}
  <2>1. \A i \in DOMAIN s : i \in DOMAIN t /\ t[i] = s[i]
    BY <1>1, <1>2
  <2>2. Len(s) + 1 \in DOMAIN t
    BY <1>2
  <2> QED
    BY <1>1, <1>3, <2>1, <2>2 DEF Keys
<1> QED
  BY <1>1, <1>4, <1>5 DEF t

-----------------------------------------------------------------------------
(* The inductive invariant.                                                *)

\* Entries are in the order they expire, and none was stored in the future.
InOrder ==
  /\ Ordered(expirations)
  /\ \A i \in DOMAIN expirations : expirations[i].expiresAt <= now + TTL

\* A handler at the lock has an envelope for this process that was fresh at
\* most MaxStall ago.
HandlersFresh ==
  \A h \in Handlers :
    handler[h].pc = "checked" =>
      /\ handler[h].msg.epoch = epoch
      /\ handler[h].at <= now /\ now <= handler[h].at + MaxStall
      /\ handler[h].at - MaxAge <= handler[h].msg.issued
      /\ handler[h].msg.issued <= handler[h].at + MaxStep + FutureSkew

\* The entry that protects a request let through at time at.
Protects(e, r) ==
  e.key = Key(r.account, r.msg) /\ e.expiresAt = r.at + TTL

\* A request let through for this process is protected by its entry until the
\* entry has expired.
LogCovered ==
  \A i \in DOMAIN log :
    /\ log[i].at <= now
    /\ log[i].msg.epoch <= epoch
    /\ log[i].msg.issued <= log[i].at + MaxStep + FutureSkew
    /\ log[i].msg.epoch = epoch =>
         \/ log[i].at + TTL <= now
         \/ \E j \in DOMAIN expirations : Protects(expirations[j], log[i])

RInv ==
  /\ TypeOK
  /\ CacheConsistent
  /\ WithinLimits
  /\ InOrder
  /\ HandlersFresh
  /\ LogCovered
  /\ NoReplay

\* The cache's own part of the invariant, as facts on lists.
LEMMA CacheFacts ==
  ASSUME TypeOK, CacheConsistent, InOrder
  PROVE  /\ expirations \in Seq(Entry) /\ Len(expirations) \in Nat
         /\ DOMAIN expirations = 1 .. Len(expirations)
         /\ entries = Keys(expirations) /\ Distinct(expirations)
         /\ Ordered(expirations)
         /\ \A i \in DOMAIN expirations : expirations[i] \in Entry
<1>1. expirations \in Seq(Entry)
  BY DEF TypeOK, Entry
<1>2. /\ Len(expirations) \in Nat
      /\ expirations \in [1 .. Len(expirations) -> Entry]
      /\ DOMAIN expirations = 1 .. Len(expirations)
  BY <1>1, LenProperties
<1>3. entries = Keys(expirations) /\ Distinct(expirations)
  BY DEF CacheConsistent, Keys, Distinct
<1> QED
  BY <1>1, <1>2, <1>3 DEF InOrder

\* What ReplayAssumption says of the constants.
LEMMA ConstantsNat ==
  /\ MaxAge \in Nat /\ FutureSkew \in Nat /\ TTL \in Nat /\ Capacity \in Nat
  /\ AccountLimit \in Nat /\ MaxStall \in Nat /\ MaxStep \in Nat
  /\ MaxTime \in Nat /\ MaxEpoch \in Nat
  /\ MaxAge + FutureSkew + MaxStep + MaxStall < TTL
BY ReplayAssumption

\* An entry's end is a natural number.
LEMMA EntryEnd == TypeOK => now + TTL \in Nat
BY ConstantsNat DEF TypeOK

\* What checkAndStore's loop leaves: exactly the entries that are still live.
LEMMA AfterExpiry ==
  ASSUME TypeOK, CacheConsistent, InOrder,
         NEW k \in 0 .. Len(expirations), Expired(k)
  PROVE  /\ LiveExpirations(k) \in Seq(Entry)
         /\ Len(LiveExpirations(k)) = Len(expirations) - k
         /\ DOMAIN LiveExpirations(k) = 1 .. Len(expirations) - k
         /\ \A i \in 1 .. Len(expirations) - k :
              LiveExpirations(k)[i] = expirations[k + i]
         /\ Distinct(LiveExpirations(k))
         /\ LiveEntries(k) = Keys(LiveExpirations(k))
         /\ Ordered(LiveExpirations(k))
         /\ \A i \in 1 .. Len(expirations) - k :
              /\ LiveExpirations(k)[i].expiresAt > now
              /\ LiveExpirations(k)[i].expiresAt <= now + TTL
<1> DEFINE t == LiveExpirations(k)
           n == Len(expirations)
<1>1. /\ expirations \in Seq(Entry) /\ n \in Nat
      /\ DOMAIN expirations = 1 .. n
      /\ entries = Keys(expirations) /\ Distinct(expirations)
      /\ Ordered(expirations)
      /\ \A i \in DOMAIN expirations : expirations[i] \in Entry
  BY CacheFacts
<1>2. /\ t \in Seq(Entry)
      /\ Len(t) = n - k
      /\ \A i \in 1 .. n - k : t[i] = expirations[k + i]
      /\ Distinct(t)
      /\ Keys(t) = Keys(expirations) \ {expirations[i].key : i \in 1 .. k}
  BY <1>1, DropFirst DEF LiveExpirations
<1>3. DOMAIN t = 1 .. n - k
  BY <1>2, LenProperties
<1>4. LiveEntries(k) = Keys(t)
  BY <1>1, <1>2 DEF LiveEntries, ExpiredKeys
<1> HIDE DEF t, n
<1>5. k \in Nat /\ k <= n
  BY <1>1 DEF n
<1>6. \A i \in 1 .. n - k : k + i \in DOMAIN expirations /\ k + 1 \in DOMAIN expirations /\ k + 1 <= k + i
  BY <1>1, <1>5
<1>7. Ordered(t)
  <2>1. SUFFICES ASSUME NEW i \in DOMAIN t, NEW j \in DOMAIN t, i <= j
                 PROVE  t[i].expiresAt <= t[j].expiresAt
    BY DEF Ordered
  <2>2. i \in 1 .. n - k /\ j \in 1 .. n - k /\ k + i <= k + j
    BY <1>1, <1>3, <1>5, <2>1
  <2> QED
    BY <1>1, <1>2, <1>6, <2>2 DEF Ordered
<1>8. ASSUME NEW i \in 1 .. n - k
      PROVE  t[i].expiresAt > now /\ t[i].expiresAt <= now + TTL
  <2>1. t[i] = expirations[k + i]
    BY <1>2
  <2>2. k + i \in DOMAIN expirations /\ k + 1 \in DOMAIN expirations /\ k + 1 <= k + i
    BY <1>6
  <2>3. now < expirations[k + 1].expiresAt
    <3>1. k < n
      BY <1>1, <1>5
    <3> QED
      BY <3>1 DEF Expired, n
  <2>4. expirations[k + 1].expiresAt <= expirations[k + i].expiresAt
    BY <1>1, <2>2 DEF Ordered
  <2>5. expirations[k + i].expiresAt <= now + TTL
    BY <2>2 DEF InOrder
  <2>6. /\ expirations[k + 1].expiresAt \in Nat
        /\ expirations[k + i].expiresAt \in Nat
        /\ now \in Nat
    BY <1>1, <2>2 DEF Entry, TypeOK
  <2> QED
    BY <2>1, <2>3, <2>4, <2>5, <2>6
<1> QED
  BY <1>2, <1>3, <1>4, <1>7, <1>8 DEF t, n

\* The counters after the loop count what is left.
LEMMA CountsAfterExpiry ==
  ASSUME TypeOK, CacheConsistent, InOrder,
         NEW k \in 0 .. Len(expirations), Expired(k)
  PROVE  /\ IsFiniteSet(LiveEntries(k))
         /\ Cardinality(LiveEntries(k)) = Len(expirations) - k
         /\ LiveAccounts(k) \in [Accounts -> Nat]
         /\ \A a \in Accounts :
              /\ LiveAccounts(k)[a] = Cardinality(Of(LiveEntries(k), a))
              /\ LiveAccounts(k)[a] <= accounts[a]
<1>1. /\ expirations \in Seq(Entry) /\ Len(expirations) \in Nat
      /\ DOMAIN expirations = 1 .. Len(expirations)
      /\ entries = Keys(expirations) /\ Distinct(expirations)
  BY CacheFacts
<1>2. /\ LiveExpirations(k) \in Seq(Entry)
      /\ Len(LiveExpirations(k)) = Len(expirations) - k
      /\ Distinct(LiveExpirations(k))
      /\ LiveEntries(k) = Keys(LiveExpirations(k))
  BY AfterExpiry
<1>3. IsFiniteSet(LiveEntries(k)) /\ Cardinality(LiveEntries(k)) = Len(expirations) - k
  BY <1>2, KeyCount
<1>4. IsFiniteSet(entries)
  BY <1>1, KeyCount
<1>5. ASSUME NEW a \in Accounts
      PROVE  /\ LiveAccounts(k)[a] = Cardinality(Of(LiveEntries(k), a))
             /\ LiveAccounts(k)[a] \in Nat
             /\ LiveAccounts(k)[a] <= accounts[a]
  <2> DEFINE S == Of(entries, a)
             T == Of(ExpiredKeys(k), a)
  <2>1. accounts[a] = Cardinality(S)
    BY DEF CacheConsistent, Of
  <2>2. LiveAccounts(k)[a] = Cardinality(S) - Cardinality(T)
    BY <2>1 DEF LiveAccounts, Of
  <2>3. T \subseteq S
    <3>1. ExpiredKeys(k) \subseteq entries
      <4>1. \A i \in 1 .. k : i \in DOMAIN expirations
        BY <1>1
      <4> QED
        BY <1>1, <4>1 DEF ExpiredKeys, Keys
    <3> QED
      BY <3>1 DEF Of
  <2>4. Of(LiveEntries(k), a) = S \ T
    BY DEF Of, LiveEntries
  <2>5. IsFiniteSet(S)
    <3>1. S \in SUBSET entries
      BY DEF Of
    <3> QED
      BY <1>4, <3>1, FS_Subset
  <2> HIDE DEF S, T
  <2>6. S \cap T = T
    BY <2>3
  <2>7. Cardinality(S \ T) = Cardinality(S) - Cardinality(T) /\ IsFiniteSet(S \ T)
    BY <2>5, <2>6, FS_Difference
  <2>8. Cardinality(S \ T) <= Cardinality(S)
    <3>1. S \ T \in SUBSET S
      OBVIOUS
    <3> QED
      BY <2>5, <3>1, FS_Subset
  <2>9. Cardinality(S \ T) \in Nat
    BY <2>7, FS_CardinalityType
  <2> QED
    BY <2>1, <2>2, <2>4, <2>7, <2>8, <2>9
<1>6. LiveAccounts(k) \in [Accounts -> Nat]
  <2>1. LiveAccounts(k) = [a \in Accounts |-> LiveAccounts(k)[a]]
    BY DEF LiveAccounts
  <2> QED
    BY <1>5, <2>1
<1> QED
  BY <1>3, <1>5, <1>6

-----------------------------------------------------------------------------
(* checkAndStore preserves the invariant.                                  *)

\* A handler at the lock, as a record.
LEMMA HandlerFacts ==
  ASSUME TypeOK, HandlersFresh, NEW h \in Handlers, handler[h].pc = "checked"
  PROVE  /\ handler[h].account \in Accounts
         /\ handler[h].msg \in Messages
         /\ handler[h].msg.id \in Ids /\ handler[h].msg.issued \in Int
         /\ handler[h].at \in Nat /\ now \in Nat /\ epoch \in Nat
         /\ Key(handler[h].account, handler[h].msg) \in Accounts \X Ids
         /\ entryOf(h) \in Entry
         /\ handler[h].msg.epoch = epoch
         /\ handler[h].at <= now /\ now <= handler[h].at + MaxStall
         /\ handler[h].at - MaxAge <= handler[h].msg.issued
         /\ handler[h].msg.issued <= handler[h].at + MaxStep + FutureSkew
<1>1. handler[h] \in {Idle} \cup [pc : {"checked"}, account : Accounts,
                                msg : Messages, at : Nat]
  BY DEF TypeOK
<1>2. handler[h] # Idle
  BY DEF Idle
<1>3. /\ handler[h].account \in Accounts /\ handler[h].msg \in Messages
      /\ handler[h].at \in Nat
  BY <1>1, <1>2
<1>4. handler[h].msg.id \in Ids /\ handler[h].msg.issued \in Int
  BY <1>3 DEF Messages
<1>5. Key(handler[h].account, handler[h].msg) \in Accounts \X Ids
  BY <1>3, <1>4 DEF Key
<1>6. now \in Nat /\ epoch \in Nat /\ now + TTL \in Nat
  BY ConstantsNat DEF TypeOK
<1>7. entryOf(h) \in Entry
  BY <1>5, <1>6 DEF entryOf, Entry
<1> QED
  BY <1>3, <1>4, <1>5, <1>6, <1>7 DEF HandlersFresh

\* The history, as records.
LEMMA LogFacts ==
  ASSUME TypeOK
  PROVE  /\ Len(log) \in Nat /\ DOMAIN log = 1 .. Len(log)
         /\ \A i \in DOMAIN log :
              /\ log[i] \in [account : Accounts, msg : Messages, at : Nat]
              /\ log[i].at \in Nat /\ log[i].msg.issued \in Int
              /\ log[i].msg.epoch \in Nat
<1>1. log \in Seq([account : Accounts, msg : Messages, at : Nat])
  BY DEF TypeOK
<1>2. /\ Len(log) \in Nat /\ DOMAIN log = 1 .. Len(log)
      /\ log \in [1 .. Len(log) -> [account : Accounts, msg : Messages, at : Nat]]
  BY <1>1, LenProperties
<1> QED
  BY <1>2 DEF Messages

\* The arithmetic of the protection: an envelope that was fresh when it was let
\* through at time at, and is fresh at ha, reaches the lock before its entry
\* expires.
LEMMA FreshBeforeExpiry ==
  \A n, ha, at \in Nat, issued \in Int :
    /\ n <= ha + MaxStall
    /\ ha - MaxAge <= issued
    /\ issued <= at + MaxStep + FutureSkew
    => n < at + TTL
BY ConstantsNat

\* An envelope that was not from the future when it was checked is not from it
\* later.
LEMMA NotFromLater ==
  \A n, ha \in Nat, issued \in Int :
    ha <= n /\ issued <= ha + MaxStep + FutureSkew =>
      issued <= n + MaxStep + FutureSkew
BY ConstantsNat

\* An envelope that was let through, and is fresh again, is still protected:
\* checkAndStore finds its key and refuses it.
LEMMA CopyIsRefused ==
  ASSUME TypeOK, CacheConsistent, InOrder, HandlersFresh, LogCovered,
         NEW h \in Handlers, handler[h].pc = "checked",
         NEW k \in 0 .. Len(expirations), Expired(k),
         NEW i \in DOMAIN log,
         log[i].account = handler[h].account, log[i].msg = handler[h].msg
  PROVE  refused(h, k)
<1> DEFINE at == log[i].at
           key == Key(handler[h].account, handler[h].msg)
<1>1. /\ handler[h].at \in Nat /\ now \in Nat /\ handler[h].msg.issued \in Int
      /\ handler[h].msg.epoch = epoch
      /\ now <= handler[h].at + MaxStall
      /\ handler[h].at - MaxAge <= handler[h].msg.issued
  BY HandlerFacts
<1>2. at \in Nat
  BY LogFacts
<1>3. handler[h].msg.issued <= at + MaxStep + FutureSkew
  BY DEF LogCovered
<1>4. \/ at + TTL <= now
      \/ \E j \in DOMAIN expirations : Protects(expirations[j], log[i])
  BY <1>1 DEF LogCovered
<1> HIDE DEF at
<1>5. now < at + TTL
  BY <1>1, <1>2, <1>3, FreshBeforeExpiry
<1>6. PICK j \in DOMAIN expirations : Protects(expirations[j], log[i])
  BY <1>1, <1>2, <1>4, <1>5, ConstantsNat
<1>7. expirations[j].key = key /\ expirations[j].expiresAt > now
  BY <1>1, <1>2, <1>5, <1>6, ConstantsNat DEF Protects, at
<1>8. key \in entries
  BY <1>7 DEF CacheConsistent
<1>9. key \notin ExpiredKeys(k)
  <2>1. SUFFICES ASSUME NEW m \in 1 .. k, expirations[m].key = key PROVE FALSE
    BY DEF ExpiredKeys
  <2>2. m \in DOMAIN expirations
    <3>1. Len(expirations) \in Nat /\ DOMAIN expirations = 1 .. Len(expirations)
      BY CacheFacts
    <3> QED
      BY <3>1
  <2>3. m = j
    BY <1>7, <2>1, <2>2 DEF CacheConsistent
  <2>4. expirations[m].expiresAt <= now
    BY DEF Expired
  <2>5. expirations[j].expiresAt \in Nat
    BY CacheFacts DEF Entry
  <2> QED
    BY <1>1, <1>7, <2>3, <2>4, <2>5
<1> QED
  BY <1>8, <1>9 DEF refused, LiveEntries

\* Protection outlives the loop.
LEMMA ProtectionStays ==
  ASSUME TypeOK, CacheConsistent, InOrder, LogCovered,
         NEW k \in 0 .. Len(expirations), Expired(k),
         NEW i \in DOMAIN log, log[i].msg.epoch = epoch
  PROVE  \/ log[i].at + TTL <= now
         \/ \E j \in DOMAIN LiveExpirations(k) :
              Protects(LiveExpirations(k)[j], log[i])
<1>1. SUFFICES ASSUME ~(log[i].at + TTL <= now)
               PROVE  \E j \in DOMAIN LiveExpirations(k) :
                        Protects(LiveExpirations(k)[j], log[i])
  OBVIOUS
<1>2. PICK j \in DOMAIN expirations : Protects(expirations[j], log[i])
  BY <1>1 DEF LogCovered
<1>3. ~(expirations[j].expiresAt <= now)
  BY <1>1, <1>2 DEF Protects
<1>4. j \notin 1 .. k
  BY <1>3 DEF Expired
<1>5. Len(expirations) \in Nat /\ DOMAIN expirations = 1 .. Len(expirations)
  BY CacheFacts
<1>6. j - k \in 1 .. Len(expirations) - k /\ k + (j - k) = j
  BY <1>4, <1>5
<1>7. /\ DOMAIN LiveExpirations(k) = 1 .. Len(expirations) - k
      /\ \A m \in 1 .. Len(expirations) - k :
           LiveExpirations(k)[m] = expirations[k + m]
  BY AfterExpiry
<1>8. LiveExpirations(k)[j - k] = expirations[j]
  BY <1>6, <1>7
<1> QED
  BY <1>2, <1>6, <1>7, <1>8

\* A refused request leaves the expired entries out and changes nothing else.
LEMMA RefusalPreserves ==
  ASSUME RInv, NEW h \in Handlers, handler[h].pc = "checked",
         NEW k \in 0 .. Len(expirations), Expired(k),
         entries' = LiveEntries(k), accounts' = LiveAccounts(k),
         expirations' = LiveExpirations(k), log' = log,
         handler' = [handler EXCEPT ![h] = Idle],
         UNCHANGED <<now, step, epoch>>
  PROVE  RInv'
<1> USE DEF RInv
<1>1. /\ expirations' \in Seq(Entry)
      /\ Len(expirations') = Len(expirations) - k
      /\ DOMAIN expirations' = 1 .. Len(expirations) - k
      /\ Distinct(expirations')
      /\ entries' = Keys(expirations')
      /\ Ordered(expirations')
      /\ \A i \in DOMAIN expirations' : expirations'[i].expiresAt <= now + TTL
  BY AfterExpiry
<1>2. /\ accounts' \in [Accounts -> Nat]
      /\ \A a \in Accounts :
           /\ accounts'[a] = Cardinality(Of(entries', a))
           /\ accounts'[a] <= accounts[a]
  BY CountsAfterExpiry
<1>3. TypeOK'
  <2>1. handler' \in [Handlers -> {Idle} \cup
                    [pc : {"checked"}, account : Accounts, msg : Messages,
                     at : Nat]]
    BY DEF TypeOK
  <2>2. entries' \subseteq Accounts \X Ids
    BY DEF LiveEntries, TypeOK
  <2> QED
    BY <1>1, <1>2, <2>1, <2>2 DEF TypeOK, Entry
<1>4. CacheConsistent'
  BY <1>1, <1>2 DEF CacheConsistent, Keys, Distinct, Of
<1>5. WithinLimits'
  <2>1. Len(expirations) \in Nat /\ Len(expirations) - k <= Len(expirations)
    BY CacheFacts
  <2>2. Len(expirations') <= Capacity
    BY <1>1, <2>1, ConstantsNat DEF WithinLimits
  <2>3. accountCapacity \in Nat
    BY ConstantsNat DEF accountCapacity
  <2>4. \A a \in Accounts : accounts'[a] <= accountCapacity
    <3>1. \A a \in Accounts : accounts[a] \in Nat /\ accounts[a] <= accountCapacity
      BY DEF WithinLimits, TypeOK
    <3> QED
      BY <1>2, <2>3, <3>1
  <2> QED
    BY <2>2, <2>4 DEF WithinLimits, accountCapacity
<1>6. InOrder'
  BY <1>1 DEF InOrder
<1>7. HandlersFresh'
  <2>1. \A g \in Handlers : handler'[g] = handler[g] \/ handler'[g] = Idle
    BY DEF TypeOK
  <2>2. Idle.pc # "checked"
    BY DEF Idle
  <2> QED
    BY <2>1, <2>2 DEF HandlersFresh
<1>8. LogCovered'
  BY ProtectionStays DEF LogCovered
<1>9. NoReplay'
  BY DEF NoReplay
<1> QED
  BY <1>3, <1>4, <1>5, <1>6, <1>7, <1>8, <1>9

\* An accepted request adds one entry, which protects it.
LEMMA AcceptancePreserves ==
  ASSUME RInv, NEW h \in Handlers, handler[h].pc = "checked",
         NEW k \in 0 .. Len(expirations), Expired(k), ~refused(h, k),
         entries' = LiveEntries(k) \cup {entryOf(h).key},
         accounts' = [LiveAccounts(k) EXCEPT ![handler[h].account] = @ + 1],
         expirations' = Append(LiveExpirations(k), entryOf(h)),
         log' = Append(log, [account |-> handler[h].account,
                             msg |-> handler[h].msg, at |-> now]),
         handler' = [handler EXCEPT ![h] = Idle],
         UNCHANGED <<now, step, epoch>>
  PROVE  RInv'
<1> USE DEF RInv
<1> DEFINE t == LiveExpirations(k)
           n == Len(t)
           e == entryOf(h)
           r == [account |-> handler[h].account, msg |-> handler[h].msg, at |-> now]
<1>1. /\ t \in Seq(Entry) /\ n = Len(expirations) - k /\ n \in Nat
      /\ DOMAIN t = 1 .. n
      /\ Distinct(t) /\ LiveEntries(k) = Keys(t) /\ Ordered(t)
      /\ \A i \in 1 .. n : t[i].expiresAt <= now + TTL /\ t[i].expiresAt \in Nat
  <2>1. /\ t \in Seq(Entry) /\ n = Len(expirations) - k
        /\ DOMAIN t = 1 .. Len(expirations) - k
        /\ Distinct(t) /\ LiveEntries(k) = Keys(t) /\ Ordered(t)
        /\ \A i \in 1 .. Len(expirations) - k : t[i].expiresAt <= now + TTL
    BY AfterExpiry
  <2>2. n \in Nat /\ t \in [1 .. n -> Entry]
    BY <2>1, LenProperties
  <2>3. \A i \in 1 .. n : t[i].expiresAt \in Nat
    BY <2>2 DEF Entry
  <2> QED
    BY <2>1, <2>2, <2>3
<1>2. /\ handler[h].account \in Accounts /\ handler[h].msg \in Messages
      /\ handler[h].msg.id \in Ids /\ handler[h].msg.issued \in Int
      /\ handler[h].at \in Nat /\ now \in Nat /\ epoch \in Nat
      /\ e \in Entry /\ handler[h].msg.epoch = epoch /\ handler[h].at <= now
      /\ handler[h].msg.issued <= handler[h].at + MaxStep + FutureSkew
  BY HandlerFacts
<1>3. /\ e.key = Key(handler[h].account, handler[h].msg)
      /\ e.expiresAt = now + TTL /\ e.key \in Accounts \X Ids
      /\ e.key[1] = handler[h].account
  BY <1>2 DEF entryOf, Key
<1>4. /\ e.key \notin LiveEntries(k)
      /\ ~(LiveAccounts(k)[handler[h].account] >= accountCapacity)
      /\ ~(Cardinality(LiveEntries(k)) >= Capacity)
  BY <1>3 DEF refused
<1>5. /\ expirations' \in Seq(Entry)
      /\ Len(expirations') = n + 1
      /\ \A i \in 1 .. n : expirations'[i] = t[i]
      /\ expirations'[n + 1] = e
      /\ Distinct(expirations')
      /\ Keys(expirations') = Keys(t) \cup {e.key}
  BY <1>1, <1>2, <1>4, AddLast
<1>6. /\ IsFiniteSet(LiveEntries(k)) /\ Cardinality(LiveEntries(k)) = n
      /\ LiveAccounts(k) \in [Accounts -> Nat]
      /\ \A a \in Accounts :
           /\ LiveAccounts(k)[a] = Cardinality(Of(LiveEntries(k), a))
           /\ LiveAccounts(k)[a] <= accounts[a]
  BY <1>1, CountsAfterExpiry
<1>7. DOMAIN expirations' = 1 .. n + 1
  BY <1>5, LenProperties
<1>8. /\ Len(log) \in Nat /\ DOMAIN log = 1 .. Len(log)
      /\ log' \in Seq([account : Accounts, msg : Messages, at : Nat])
      /\ DOMAIN log' = 1 .. Len(log) + 1
      /\ \A i \in 1 .. Len(log) : log'[i] = log[i]
      /\ log'[Len(log) + 1] = r
  <2>1. log \in Seq([account : Accounts, msg : Messages, at : Nat])
    BY DEF TypeOK
  <2>2. r \in [account : Accounts, msg : Messages, at : Nat]
    BY <1>2
  <2>3. /\ log' \in Seq([account : Accounts, msg : Messages, at : Nat])
        /\ Len(log') = Len(log) + 1
        /\ \A i \in 1 .. Len(log) : log'[i] = log[i]
        /\ log'[Len(log) + 1] = r
    BY <2>1, <2>2, AppendProperties
  <2>4. Len(log) \in Nat /\ DOMAIN log = 1 .. Len(log) /\ DOMAIN log' = 1 .. Len(log')
    BY <2>1, <2>3, LenProperties
  <2> QED
    BY <2>3, <2>4
<1> HIDE DEF t, n, e, r
<1>9. expirations' = Append(t, e) /\ entries' = LiveEntries(k) \cup {e.key}
  BY DEF t, e
<1>10. TypeOK'
  <2>1. handler' \in [Handlers -> {Idle} \cup
                    [pc : {"checked"}, account : Accounts, msg : Messages,
                     at : Nat]]
    BY DEF TypeOK
  <2>2. entries' \subseteq Accounts \X Ids
    BY <1>3, <1>9 DEF LiveEntries, TypeOK
  <2>3. accounts' \in [Accounts -> Nat]
    BY <1>2, <1>6
  <2>4. expirations' \in Seq([key : Accounts \X Ids, expiresAt : Nat])
    BY <1>5 DEF Entry
  <2> QED
    BY <1>8, <2>1, <2>2, <2>3, <2>4 DEF TypeOK
<1>11. ASSUME NEW a \in Accounts
       PROVE  /\ accounts'[a] = Cardinality(Of(entries', a))
              /\ accounts'[a] <= accountCapacity
  <2> DEFINE S == Of(LiveEntries(k), a)
  <2>1. IsFiniteSet(S)
    <3>1. S \in SUBSET LiveEntries(k)
      BY DEF Of
    <3> QED
      BY <1>6, <3>1, FS_Subset
  <2>2. LiveAccounts(k)[a] = Cardinality(S) /\ LiveAccounts(k)[a] \in Nat
    BY <1>6
  <2>3. CASE a = handler[h].account
    <3>1. Of(entries', a) = S \cup {e.key} /\ e.key \notin S
      BY <1>3, <1>4, <1>9, <2>3 DEF Of
    <3> HIDE DEF S
    <3>2. Cardinality(Of(entries', a)) = Cardinality(S) + 1
      BY <2>1, <3>1, FS_AddElement
    <3>3. accounts'[a] = LiveAccounts(k)[a] + 1
      BY <1>6, <2>3
    <3>4. accountCapacity \in Nat
      BY ConstantsNat DEF accountCapacity
    <3> QED
      BY <1>4, <2>2, <2>3, <3>2, <3>3, <3>4
  <2>4. CASE a # handler[h].account
    <3>1. Of(entries', a) = S
      BY <1>3, <1>9, <2>4 DEF Of
    <3>2. accounts'[a] = LiveAccounts(k)[a]
      BY <1>2, <1>6, <2>4
    <3>3. /\ accountCapacity \in Nat /\ accounts[a] \in Nat
          /\ accounts[a] <= accountCapacity /\ LiveAccounts(k)[a] <= accounts[a]
      BY <1>6, ConstantsNat DEF accountCapacity, WithinLimits, TypeOK
    <3> QED
      BY <2>2, <3>1, <3>2, <3>3
  <2> QED
    BY <2>3, <2>4
<1>12. CacheConsistent'
  <2>1. entries' = Keys(expirations')
    BY <1>1, <1>5, <1>9
  <2> QED
    BY <1>5, <1>11, <2>1 DEF CacheConsistent, Keys, Distinct, Of
<1>13. WithinLimits'
  <2>1. Len(expirations') <= Capacity
    BY <1>1, <1>4, <1>5, <1>6, ConstantsNat
  <2> QED
    BY <1>11, <2>1 DEF WithinLimits, accountCapacity
<1>14. InOrder'
  <2>1. ASSUME NEW i \in DOMAIN expirations'
        PROVE  /\ i \in 1 .. n \/ i = n + 1
               /\ i \in 1 .. n => expirations'[i] = t[i]
               /\ i = n + 1 => expirations'[i] = e
               /\ expirations'[i].expiresAt \in Nat
               /\ expirations'[i].expiresAt <= now + TTL
    <3>1. i \in 1 .. n \/ i = n + 1
      BY <1>1, <1>7
    <3>2. now + TTL \in Nat
      BY EntryEnd, Zenon
    <3>3. CASE i \in 1 .. n
      <4>1. expirations'[i] = t[i]
        BY <1>5, <3>3
      <4>2. t[i].expiresAt \in Nat /\ t[i].expiresAt <= now + TTL
        BY <1>1, <3>3
      <4>3. i # n + 1
        BY <1>1, <3>3
      <4> QED
        BY <3>1, <4>1, <4>2, <4>3
    <3>4. CASE i = n + 1
      <4>1. expirations'[i] = e
        BY <1>5, <3>4
      <4>2. i \notin 1 .. n
        BY <1>1, <3>4
      <4>3. e.expiresAt = now + TTL
        BY <1>3
      <4> QED
        BY <3>1, <3>2, <4>1, <4>2, <4>3
    <3> QED
      BY <3>1, <3>3, <3>4
  <2>2. Ordered(expirations')
    <3>1. SUFFICES ASSUME NEW i \in DOMAIN expirations', NEW j \in DOMAIN expirations', i <= j
                   PROVE  expirations'[i].expiresAt <= expirations'[j].expiresAt
      BY DEF Ordered
    <3>2. CASE j \in 1 .. n
      <4>1. i \in 1 .. n
        BY <1>1, <1>7, <3>1, <3>2
      <4> QED
        BY <1>1, <2>1, <3>1, <3>2, <4>1 DEF Ordered
    <3>3. CASE j = n + 1
      BY <1>3, <2>1, <3>3
    <3> QED
      BY <2>1, <3>2, <3>3
  <2> QED
    BY <2>1, <2>2 DEF InOrder
<1>15. HandlersFresh'
  <2>1. \A g \in Handlers : handler'[g] = handler[g] \/ handler'[g] = Idle
    BY DEF TypeOK
  <2>2. Idle.pc # "checked"
    BY DEF Idle
  <2> QED
    BY <2>1, <2>2 DEF HandlersFresh
<1>16. LogCovered'
  <2>1. SUFFICES ASSUME NEW i \in DOMAIN log'
                 PROVE  /\ log'[i].at <= now
                        /\ log'[i].msg.epoch <= epoch
                        /\ log'[i].msg.issued <= log'[i].at + MaxStep + FutureSkew
                        /\ log'[i].msg.epoch = epoch =>
                             \/ log'[i].at + TTL <= now
                             \/ \E j \in DOMAIN expirations' :
                                  Protects(expirations'[j], log'[i])
    BY DEF LogCovered, Protects
  <2>2. i \in DOMAIN log \/ i = Len(log) + 1
    BY <1>8
  <2>3. ASSUME i \in DOMAIN log
        PROVE  /\ log'[i].at <= now
               /\ log'[i].msg.epoch <= epoch
               /\ log'[i].msg.issued <= log'[i].at + MaxStep + FutureSkew
               /\ log'[i].msg.epoch = epoch =>
                    \/ log'[i].at + TTL <= now
                    \/ \E j \in DOMAIN expirations' :
                         Protects(expirations'[j], log'[i])
    <3>1. log'[i] = log[i]
      BY <1>8, <2>3
    <3>2. log[i].msg.epoch = epoch =>
            \/ log[i].at + TTL <= now
            \/ \E j \in DOMAIN t : Protects(t[j], log[i])
      BY <2>3, ProtectionStays DEF t
    <3>3. \A j \in DOMAIN t : j \in DOMAIN expirations' /\ expirations'[j] = t[j]
      BY <1>1, <1>5, <1>7
    <3> QED
      BY <2>3, <3>1, <3>2, <3>3 DEF LogCovered
  <2>4. ASSUME i = Len(log) + 1
        PROVE  /\ log'[i].at <= now
               /\ log'[i].msg.epoch <= epoch
               /\ log'[i].msg.issued <= log'[i].at + MaxStep + FutureSkew
               /\ \E j \in DOMAIN expirations' : Protects(expirations'[j], log'[i])
    <3>1. log'[i] = r
      BY <1>8, <2>4
    <3>2. r.at = now /\ r.msg = handler[h].msg /\ r.account = handler[h].account
      BY DEF r
    <3>3. n + 1 \in DOMAIN expirations' /\ Protects(expirations'[n + 1], r)
      BY <1>1, <1>3, <1>5, <1>7, <3>2 DEF Protects
    <3>4. handler[h].msg.issued <= now + MaxStep + FutureSkew
      BY <1>2, NotFromLater
    <3>5. now <= now /\ epoch <= epoch
      BY <1>2
    <3>6. log'[i].at = now /\ log'[i].msg = handler[h].msg
      BY <3>1, <3>2
    <3>7. \E j \in DOMAIN expirations' : Protects(expirations'[j], log'[i])
      BY <3>1, <3>3
    <3>8. log'[i].msg.epoch <= epoch /\ log'[i].at <= now
      BY <1>2, <3>5, <3>6
    <3>9. log'[i].msg.issued <= log'[i].at + MaxStep + FutureSkew
      BY <3>4, <3>6
    <3> QED
      BY <3>7, <3>8, <3>9
  <2> QED
    BY <2>2, <2>3, <2>4
<1>17. NoReplay'
  <2>1. ASSUME NEW i \in DOMAIN log
        PROVE  ~(log[i].account = handler[h].account /\ log[i].msg = handler[h].msg)
    BY CopyIsRefused
  <2>2. SUFFICES ASSUME NEW i \in DOMAIN log', NEW j \in DOMAIN log', i # j
                 PROVE  ~(log'[i].account = log'[j].account /\ log'[i].msg = log'[j].msg)
    BY DEF NoReplay
  <2>3. /\ i \in DOMAIN log \/ i = Len(log) + 1
        /\ j \in DOMAIN log \/ j = Len(log) + 1
        /\ i \in DOMAIN log => log'[i] = log[i]
        /\ j \in DOMAIN log => log'[j] = log[j]
    BY <1>8
  <2>4. CASE i \in DOMAIN log /\ j \in DOMAIN log
    BY <2>2, <2>3, <2>4 DEF NoReplay
  <2>5. CASE i \in DOMAIN log /\ j = Len(log) + 1
    BY <1>8, <2>1, <2>3, <2>5 DEF r
  <2>6. CASE i = Len(log) + 1 /\ j \in DOMAIN log
    BY <1>8, <2>1, <2>3, <2>6 DEF r
  <2> QED
    BY <2>2, <2>3, <2>4, <2>5, <2>6
<1> QED
  BY <1>10, <1>12, <1>13, <1>14, <1>15, <1>16, <1>17

-----------------------------------------------------------------------------
(* The other actions.                                                      *)

\* Stores of both outcomes.
LEMMA CheckAndStorePreserves ==
  ASSUME RInv, NEW h \in Handlers, CheckAndStore(h)
  PROVE  RInv'
<1>1. /\ handler[h].pc = "checked"
      /\ handler' = [handler EXCEPT ![h] = Idle]
      /\ UNCHANGED <<now, step, epoch>>
  BY DEF CheckAndStore
<1>2. PICK k \in 0 .. Len(expirations) :
        /\ Expired(k)
        /\ \/ /\ refused(h, k)
              /\ entries' = LiveEntries(k)
              /\ accounts' = LiveAccounts(k)
              /\ expirations' = LiveExpirations(k)
              /\ UNCHANGED log
           \/ /\ ~refused(h, k)
              /\ entries' = LiveEntries(k) \cup {entryOf(h).key}
              /\ accounts' = [LiveAccounts(k) EXCEPT ![handler[h].account] = @ + 1]
              /\ expirations' = Append(LiveExpirations(k), entryOf(h))
              /\ log' = Append(log, [account |-> handler[h].account,
                                     msg |-> handler[h].msg, at |-> now])
  BY DEF CheckAndStore
<1>3. CASE refused(h, k)
  BY <1>1, <1>2, <1>3, RefusalPreserves
<1>4. CASE ~refused(h, k)
  BY <1>1, <1>2, <1>4, AcceptancePreserves
<1> QED
  BY <1>3, <1>4

\* Parts of the invariant that read only some of the variables.
LEMMA ConsistentFrame ==
  CacheConsistent /\ UNCHANGED <<entries, accounts, expirations>> => CacheConsistent'
BY DEF CacheConsistent

\* WithinLimits reads the counters and the list only.
LEMMA LimitsFrame ==
  WithinLimits /\ UNCHANGED <<accounts, expirations>> => WithinLimits'
BY DEF WithinLimits, accountCapacity

\* InOrder reads the list and the monotonic clock only.
LEMMA OrderFrame == InOrder /\ UNCHANGED <<now, expirations>> => InOrder'
BY DEF InOrder, Ordered

\* HandlersFresh reads the handlers, the clock and the process only.
LEMMA HandlersFrame ==
  HandlersFresh /\ UNCHANGED <<now, epoch, handler>> => HandlersFresh'
BY DEF HandlersFresh

\* LogCovered reads the log, the list, the clock and the process only.
LEMMA LogFrame ==
  LogCovered /\ UNCHANGED <<now, epoch, expirations, log>> => LogCovered'
<1>1. SUFFICES ASSUME LogCovered, UNCHANGED <<now, epoch, expirations, log>>
               PROVE  LogCovered'
  OBVIOUS
<1>2. now' = now /\ epoch' = epoch /\ expirations' = expirations /\ log' = log
  BY <1>1
<1> QED
  BY <1>1, <1>2 DEF LogCovered, Protects, Key

\* NoReplay reads the log only.
LEMMA ReplayFrame == NoReplay /\ UNCHANGED log => NoReplay'
BY DEF NoReplay

\* The freshness check of a handler preserves the invariant.
LEMMA CheckFreshnessPreserves ==
  ASSUME RInv, NEW h \in Handlers, NEW account \in Accounts, NEW id \in Ids,
         NEW issued \in FreshTimes,
         CheckFreshness(h, account, [id |-> id, issued |-> issued, epoch |-> epoch])
  PROVE  RInv'
<1> USE DEF RInv
<1> DEFINE msg == [id |-> id, issued |-> issued, epoch |-> epoch]
<1>1. now \in Nat /\ step \in Nat /\ step <= MaxStep /\ epoch \in Nat
  BY ConstantsNat DEF TypeOK
<1>2. issued \in Int /\ now + step - MaxAge <= issued /\ issued <= now + step + FutureSkew
  BY <1>1, ConstantsNat DEF FreshTimes, Wall
<1>3. /\ handler' = [handler EXCEPT ![h] = Checked(account, msg)]
      /\ UNCHANGED <<now, step, epoch, entries, accounts, expirations, log>>
  BY DEF CheckFreshness
<1>4. Checked(account, msg) \in [pc : {"checked"}, account : Accounts,
                                msg : Messages, at : Nat]
  BY <1>1, <1>2 DEF Checked, Messages
<1>5. TypeOK'
  BY <1>3, <1>4 DEF TypeOK
<1>6. HandlersFresh'
  <2>1. SUFFICES ASSUME NEW g \in Handlers, handler'[g].pc = "checked"
                 PROVE  /\ handler'[g].msg.epoch = epoch
                        /\ handler'[g].at <= now /\ now <= handler'[g].at + MaxStall
                        /\ handler'[g].at - MaxAge <= handler'[g].msg.issued
                        /\ handler'[g].msg.issued <= handler'[g].at + MaxStep + FutureSkew
    BY <1>3 DEF HandlersFresh
  <2>2. CASE g = h
    <3>1. handler'[g] = Checked(account, msg)
      BY <1>3, <2>2 DEF TypeOK
    <3>2. /\ handler'[g].msg.epoch = epoch /\ handler'[g].at = now
          /\ handler'[g].msg.issued = issued
      BY <3>1 DEF Checked
    <3>3. /\ now <= now /\ now <= now + MaxStall /\ now - MaxAge <= issued
          /\ issued <= now + MaxStep + FutureSkew
      BY <1>1, <1>2, ConstantsNat
    <3> QED
      BY <3>2, <3>3
  <2>3. CASE g # h
    <3>1. handler'[g] = handler[g]
      BY <1>3, <2>3 DEF TypeOK
    <3> QED
      BY <2>1, <3>1 DEF HandlersFresh
  <2> QED
    BY <2>2, <2>3
<1>7. CacheConsistent' /\ WithinLimits' /\ InOrder' /\ LogCovered' /\ NoReplay'
  BY <1>3, ConsistentFrame, LimitsFrame, OrderFrame, LogFrame, ReplayFrame
<1> QED
  BY <1>5, <1>6, <1>7

\* Time preserves it: an entry that ends belongs to an envelope that is old.
LEMMA TickPreserves ==
  ASSUME RInv, Tick
  PROVE  RInv'
<1> USE DEF RInv
<1>1. /\ now' = now + 1 /\ now \in Nat
      /\ UNCHANGED <<step, epoch, handler, entries, accounts, expirations, log>>
      /\ \A h \in Handlers :
           handler[h].pc = "checked" => now < handler[h].at + MaxStall
  BY DEF Tick, TypeOK
<1>2. TypeOK' /\ CacheConsistent' /\ WithinLimits' /\ NoReplay'
  <2>1. TypeOK'
    BY <1>1 DEF TypeOK
  <2> QED
    BY <1>1, <2>1, ConsistentFrame, LimitsFrame, ReplayFrame
<1>3. InOrder'
  <2>1. \A i \in DOMAIN expirations : expirations[i].expiresAt \in Nat
    BY CacheFacts DEF Entry
  <2> QED
    BY <1>1, <2>1, ConstantsNat DEF InOrder, Ordered
<1>4. HandlersFresh'
  <2>1. SUFFICES ASSUME NEW h \in Handlers, handler[h].pc = "checked"
                 PROVE  handler[h].at <= now + 1 /\ now + 1 <= handler[h].at + MaxStall
    BY <1>1 DEF HandlersFresh
  <2>2. handler[h].at \in Nat /\ handler[h].at <= now
    BY <2>1, HandlerFacts
  <2>3. now < handler[h].at + MaxStall
    BY <1>1, <2>1
  <2> QED
    BY <1>1, <2>2, <2>3, ConstantsNat
<1>5. LogCovered'
  <2>1. SUFFICES ASSUME NEW i \in DOMAIN log
                 PROVE  /\ log[i].at <= now + 1
                        /\ log[i].at + TTL <= now => log[i].at + TTL <= now + 1
    BY <1>1 DEF LogCovered, Protects, Key
  <2>2. log[i].at \in Nat /\ log[i].at <= now
    BY LogFacts DEF LogCovered
  <2> QED
    BY <1>1, <2>2, ConstantsNat
<1> QED
  BY <1>2, <1>3, <1>4, <1>5

\* A step of the wall clock within MaxStep preserves it.
LEMMA StepClockPreserves ==
  ASSUME RInv, StepClock
  PROVE  RInv'
<1>1. /\ step' \in 0 .. MaxStep
      /\ UNCHANGED <<now, epoch, handler, entries, accounts, expirations, log>>
  BY DEF StepClock
<1>2. TypeOK'
  BY <1>1 DEF RInv, TypeOK
<1> QED
  BY <1>1, <1>2, ConsistentFrame, LimitsFrame, OrderFrame, HandlersFrame,
     LogFrame, ReplayFrame DEF RInv

\* A restart preserves it: envelopes of the old process cannot be opened.
LEMMA RestartPreserves ==
  ASSUME RInv, Restart
  PROVE  RInv'
<1> USE DEF RInv
<1>1. /\ epoch' = epoch + 1 /\ epoch \in Nat /\ entries' = {} /\ expirations' = <<>>
      /\ handler' = [h \in Handlers |-> Idle]
      /\ accounts' = [a \in Accounts |-> 0]
      /\ UNCHANGED <<now, step, log>>
  BY DEF Restart, TypeOK
<1>2. /\ expirations' \in Seq([key : Accounts \X Ids, expiresAt : Nat])
      /\ Len(expirations') = 0 /\ DOMAIN expirations' = {}
  BY <1>1, EmptySeq
<1>3. TypeOK'
  BY <1>1, <1>2 DEF TypeOK
<1>4. CacheConsistent'
  <2>1. \A a \in Accounts : {k \in entries' : k[1] = a} = {}
    BY <1>1
  <2> QED
    BY <1>1, <1>2, <2>1, FS_EmptySet DEF CacheConsistent
<1>5. WithinLimits'
  BY <1>1, <1>2, ConstantsNat DEF WithinLimits, accountCapacity
<1>6. InOrder'
  BY <1>2 DEF InOrder, Ordered
<1>7. HandlersFresh'
  BY <1>1 DEF HandlersFresh, Idle
<1>8. LogCovered'
  <2>1. SUFFICES ASSUME NEW i \in DOMAIN log
                 PROVE  log[i].msg.epoch <= epoch + 1 /\ log[i].msg.epoch # epoch + 1
    BY <1>1 DEF LogCovered
  <2>2. log[i].msg.epoch \in Nat /\ log[i].msg.epoch <= epoch
    BY LogFacts DEF LogCovered
  <2> QED
    BY <1>1, <2>2
<1>9. NoReplay'
  BY <1>1 DEF NoReplay
<1> QED
  BY <1>3, <1>4, <1>5, <1>6, <1>7, <1>8, <1>9

\* A new process has it.
LEMMA InitEstablishes == Init => RInv
<1> SUFFICES ASSUME Init PROVE RInv
  OBVIOUS
<1>1. /\ expirations \in Seq([key : Accounts \X Ids, expiresAt : Nat])
      /\ Len(expirations) = 0 /\ DOMAIN expirations = {}
      /\ log \in Seq([account : Accounts, msg : Messages, at : Nat])
      /\ DOMAIN log = {}
  BY EmptySeq DEF Init
<1>2. TypeOK
  BY <1>1, ConstantsNat DEF Init, TypeOK
<1>3. CacheConsistent
  <2>1. \A a \in Accounts : {k \in entries : k[1] = a} = {}
    BY DEF Init
  <2> QED
    BY <1>1, <2>1, FS_EmptySet DEF CacheConsistent, Init
<1>4. WithinLimits
  BY <1>1, ConstantsNat DEF WithinLimits, accountCapacity, Init
<1>5. InOrder /\ LogCovered /\ NoReplay
  BY <1>1 DEF InOrder, Ordered, LogCovered, NoReplay
<1>6. HandlersFresh
  BY DEF HandlersFresh, Idle, Init
<1> QED
  BY <1>2, <1>3, <1>4, <1>5, <1>6 DEF RInv

\* A step that changes nothing preserves it.
LEMMA StutterPreserves == RInv /\ UNCHANGED vars => RInv'
<1>1. SUFFICES ASSUME RInv, UNCHANGED vars PROVE RInv'
  OBVIOUS
<1>2. UNCHANGED <<now, step, epoch, handler, entries, accounts, expirations, log>>
  BY <1>1 DEF vars
<1>3. TypeOK'
  BY <1>1, <1>2 DEF RInv, TypeOK
<1> QED
  BY <1>1, <1>2, <1>3, ConsistentFrame, LimitsFrame, OrderFrame, HandlersFrame,
     LogFrame, ReplayFrame DEF RInv

\* It holds in every behaviour.
LEMMA Invariance == Spec => []RInv
<1>1. RInv /\ [Next]_vars => RInv'
  <2>1. SUFFICES ASSUME RInv, [Next]_vars PROVE RInv'
    OBVIOUS
  <2>2. ASSUME NEW h \in Handlers, NEW account \in Accounts, NEW id \in Ids,
               NEW issued \in FreshTimes,
               CheckFreshness(h, account, [id |-> id, issued |-> issued, epoch |-> epoch])
        PROVE  RInv'
    BY <2>1, <2>2, CheckFreshnessPreserves
  <2>3. ASSUME NEW h \in Handlers, CheckAndStore(h) PROVE RInv'
    BY <2>1, <2>3, CheckAndStorePreserves
  <2>4. CASE Tick
    BY <2>1, <2>4, TickPreserves
  <2>5. CASE StepClock
    BY <2>1, <2>5, StepClockPreserves
  <2>6. CASE Restart
    BY <2>1, <2>6, RestartPreserves
  <2>7. CASE UNCHANGED vars
    BY <2>1, <2>7, StutterPreserves
  <2> QED
    BY <2>1, <2>2, <2>3, <2>4, <2>5, <2>6, <2>7 DEF Next
<1> QED
  BY <1>1, InitEstablishes, PTL DEF Spec

-----------------------------------------------------------------------------
(* The theorems.                                                           *)

\* checkAndStore's state keeps its type; no counter becomes negative.
THEOREM TypeCorrect == Spec => []TypeOK
<1>1. RInv => TypeOK
  BY DEF RInv
<1> QED
  BY <1>1, Invariance, PTL

\* No envelope is let through twice, for any number of concurrent handlers and
\* any MaxAge, FutureSkew and TTL with enough slack.
THEOREM ReplaySafety == Spec => []NoReplay
<1>1. RInv => NoReplay
  BY DEF RInv
<1> QED
  BY <1>1, Invariance, PTL

\* The cache's three views of its entries always agree.
THEOREM Consistency == Spec => []CacheConsistent
<1>1. RInv => CacheConsistent
  BY DEF RInv
<1> QED
  BY <1>1, Invariance, PTL

\* The cache never exceeds its capacity, nor an account its share.
THEOREM Limits == Spec => []WithinLimits
<1>1. RInv => WithinLimits
  BY DEF RInv
<1> QED
  BY <1>1, Invariance, PTL

\* The step of checkAndStore, seen from the list: what stays is live, what goes
\* had expired.
LEMMA StoreStep ==
  ASSUME RInv, NEW h \in Handlers, CheckAndStore(h)
  PROVE  /\ \A i \in DOMAIN expirations' : expirations'[i].expiresAt > now
         /\ \A i \in DOMAIN expirations :
              expirations[i].key \notin entries' => expirations[i].expiresAt <= now
<1> USE DEF RInv
<1>1. PICK k \in 0 .. Len(expirations) :
        /\ Expired(k)
        /\ \/ /\ entries' = LiveEntries(k)
              /\ expirations' = LiveExpirations(k)
           \/ /\ ~refused(h, k)
              /\ entries' = LiveEntries(k) \cup {entryOf(h).key}
              /\ expirations' = Append(LiveExpirations(k), entryOf(h))
  BY DEF CheckAndStore
<1> DEFINE t == LiveExpirations(k)
           n == Len(expirations) - k
<1>2. /\ t \in Seq(Entry) /\ Len(t) = n /\ DOMAIN t = 1 .. n /\ Distinct(t)
      /\ LiveEntries(k) = Keys(t)
      /\ \A i \in 1 .. n : t[i].expiresAt > now
  BY <1>1, AfterExpiry
<1>3. \A i \in DOMAIN expirations' : expirations'[i].expiresAt > now
  <2>1. CASE expirations' = t
    BY <1>2, <2>1
  <2>2. CASE ~refused(h, k) /\ expirations' = Append(t, entryOf(h))
    <3>1. handler[h].pc = "checked"
      BY DEF CheckAndStore
    <3>2. entryOf(h) \in Entry /\ now \in Nat
      BY <3>1, HandlerFacts
    <3>3. entryOf(h).key \notin Keys(t)
      BY <1>2, <2>2 DEF refused, entryOf
    <3>4. /\ Append(t, entryOf(h)) \in Seq(Entry)
          /\ Len(Append(t, entryOf(h))) = Len(t) + 1
          /\ \A i \in 1 .. Len(t) : Append(t, entryOf(h))[i] = t[i]
          /\ Append(t, entryOf(h))[Len(t) + 1] = entryOf(h)
      BY <1>2, <3>2, <3>3, AddLast
    <3>5. entryOf(h).expiresAt > now
      <4>1. entryOf(h).expiresAt = now + TTL
        BY DEF entryOf
      <4> QED
        BY <3>2, <4>1, ConstantsNat
    <3>6. DOMAIN expirations' = 1 .. Len(t) + 1 /\ Len(t) \in Nat
      BY <1>2, <2>2, <3>4, LenProperties
    <3> HIDE DEF t, n
    <3>7. ASSUME NEW i \in DOMAIN expirations' PROVE expirations'[i].expiresAt > now
      <4>1. i \in 1 .. Len(t) \/ i = Len(t) + 1
        BY <3>6
      <4> QED
        BY <1>2, <2>2, <3>4, <3>5, <4>1
    <3> QED
      BY <3>7
  <2> QED
    BY <1>1, <2>1, <2>2
<1>4. ASSUME NEW i \in DOMAIN expirations, expirations[i].key \notin entries'
      PROVE  expirations[i].expiresAt <= now
  <2>1. expirations[i].key \in entries
    BY DEF CacheConsistent
  <2>2. expirations[i].key \in ExpiredKeys(k)
    BY <1>1, <1>4, <2>1 DEF LiveEntries
  <2>3. PICK m \in 1 .. k : expirations[m].key = expirations[i].key
    BY <2>2 DEF ExpiredKeys
  <2>4. m \in DOMAIN expirations
    <3>1. Len(expirations) \in Nat /\ DOMAIN expirations = 1 .. Len(expirations)
      BY CacheFacts
    <3> QED
      BY <3>1
  <2>5. m = i
    BY <2>3, <2>4 DEF CacheConsistent
  <2> QED
    BY <1>1, <2>5 DEF Expired
<1> QED
  BY <1>3, <1>4

\* Every check leaves only live entries behind, because the clock is sampled
\* under the lock.
LEMMA ExpiredAreRemoved ==
  ASSUME RInv, Next
  PROVE  \A h \in Handlers :
           handler[h] # Idle /\ handler'[h] = Idle =>
             \A i \in DOMAIN expirations' : expirations'[i].expiresAt > now
<1>1. SUFFICES ASSUME NEW h \in Handlers, handler[h] # Idle, handler'[h] = Idle
               PROVE  \A i \in DOMAIN expirations' : expirations'[i].expiresAt > now
  OBVIOUS
<1>2. handler \in [Handlers -> {Idle} \cup
                  [pc : {"checked"}, account : Accounts, msg : Messages,
                   at : Nat]]
  BY DEF RInv, TypeOK
<1>3. ASSUME NEW g \in Handlers, NEW account, NEW msg, CheckFreshness(g, account, msg)
      PROVE  FALSE
  <2>1. handler' = [handler EXCEPT ![g] = Checked(account, msg)] /\ handler[g] = Idle
    BY <1>3 DEF CheckFreshness
  <2>2. Checked(account, msg) # Idle
    BY DEF Checked, Idle
  <2> QED
    BY <1>1, <1>2, <2>1, <2>2
<1>4. ASSUME NEW g \in Handlers, CheckAndStore(g)
      PROVE  \A i \in DOMAIN expirations' : expirations'[i].expiresAt > now
  BY <1>4, StoreStep
<1>5. CASE Tick
  BY <1>1, <1>5 DEF Tick
<1>6. CASE StepClock
  BY <1>1, <1>6 DEF StepClock
<1>7. CASE Restart
  <2>1. expirations' = <<>>
    BY <1>7 DEF Restart
  <2> QED
    BY <2>1, EmptySeq
<1> QED
  BY <1>3, <1>4, <1>5, <1>6, <1>7 DEF Next

\* A running process removes an entry only when it has expired: a full cache
\* never gives up live protection.
LEMMA LiveProtectionStays ==
  ASSUME RInv, Next
  PROVE  \A i \in DOMAIN expirations :
           epoch' = epoch /\ expirations[i].key \notin entries' =>
             expirations[i].expiresAt <= now
<1>1. SUFFICES ASSUME NEW i \in DOMAIN expirations, epoch' = epoch,
                      expirations[i].key \notin entries'
               PROVE  expirations[i].expiresAt <= now
  OBVIOUS
<1>2. expirations[i].key \in entries
  BY DEF RInv, CacheConsistent
<1>3. ASSUME NEW g \in Handlers, NEW account, NEW msg, CheckFreshness(g, account, msg)
      PROVE  FALSE
  BY <1>1, <1>2, <1>3 DEF CheckFreshness
<1>4. ASSUME NEW g \in Handlers, CheckAndStore(g)
      PROVE  expirations[i].expiresAt <= now
  BY <1>1, <1>4, StoreStep
<1>5. CASE Tick
  BY <1>1, <1>2, <1>5 DEF Tick
<1>6. CASE StepClock
  BY <1>1, <1>2, <1>6 DEF StepClock
<1>7. CASE Restart
  <2>1. epoch \in Nat /\ epoch' = epoch + 1
    BY <1>7 DEF Restart, RInv, TypeOK
  <2> QED
    BY <1>1, <2>1
<1> QED
  BY <1>3, <1>4, <1>5, <1>6, <1>7 DEF Next

\* An entry is in the cache exactly as long as it protects, for every capacity,
\* lifetime and number of handlers.
THEOREM EntryLifetime == Spec => EntriesLiveTheirTime
<1> DEFINE Kept == \A i \in DOMAIN expirations :
                     epoch' = epoch /\ expirations[i].key \notin entries' =>
                       expirations[i].expiresAt <= now
           Removed == \A h \in Handlers :
                        handler[h] # Idle /\ handler'[h] = Idle =>
                          \A i \in DOMAIN expirations' : expirations'[i].expiresAt > now
<1>1. RInv /\ [Next]_vars => [Kept /\ Removed]_vars
  BY ExpiredAreRemoved, LiveProtectionStays
<1> QED
  BY <1>1, Invariance, PTL DEF Spec, EntriesLiveTheirTime

=============================================================================
