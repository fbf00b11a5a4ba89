------------------------------ MODULE PIIProofs ------------------------------
(***************************************************************************)
(* Theorems on PIIRestore, for all requests, answers and ways of cutting   *)
(* them into events.                                                       *)
(***************************************************************************)
EXTENDS PIIRestore, FiniteSetTheorems, SequenceTheorems, WellFoundedInduction, TLAPS

-----------------------------------------------------------------------------
(* Induction, by the least counterexample.                                 *)

\* A set of natural numbers that is not empty has a least element.
LEMMA LeastNat ==
  ASSUME NEW T \in SUBSET Nat, T # {}
  PROVE  \E m \in T : \A k \in T : m <= k
<1>1. PICK m \in T : \A k \in T : <<k, m>> \notin OpToRel(<, Nat)
  BY NatLessThanWellFounded, WFMin
<1>2. \A k \in T : ~ (k < m)
  BY <1>1 DEF OpToRel
<1> QED
  BY <1>2

\* A set of positions that contains each one whose predecessors it contains.
LEMMA Upwards ==
  ASSUME NEW n \in Nat, NEW S,
         \A i \in 1 .. n : (\A j \in 1 .. i - 1 : j \in S) => i \in S
  PROVE  1 .. n \subseteq S
<1> SUFFICES ASSUME (1 .. n) \ S # {}
             PROVE  FALSE
  OBVIOUS
<1> DEFINE T == (1 .. n) \ S
<1>0. T \in SUBSET Nat /\ T # {}
  OBVIOUS
<1>1. PICK m \in T : \A k \in T : m <= k
  BY <1>0, LeastNat
<1> QED
  BY <1>1

\* The same from the right.
LEMMA Downwards ==
  ASSUME NEW n \in Nat, NEW S,
         \A i \in 1 .. n : (\A j \in i + 1 .. n : j \in S) => i \in S
  PROVE  1 .. n \subseteq S
<1> SUFFICES ASSUME (1 .. n) \ S # {}
             PROVE  FALSE
  OBVIOUS
<1> DEFINE T == {k \in 0 .. n - 1 : n - k \notin S}
<1>1. T \in SUBSET Nat /\ T # {}
  <2>1. PICK i \in 1 .. n : i \notin S
    OBVIOUS
  <2>2. n - i \in T
    BY <2>1
  <2> QED
    BY <2>2
<1>2. PICK m \in T : \A k \in T : m <= k
  BY <1>1, LeastNat
<1>3. ASSUME NEW j \in (n - m) + 1 .. n
      PROVE  j \in S
  <2>1. n - j \notin T
    BY <1>2
  <2> QED
    BY <2>1
<1> QED
  BY <1>2, <1>3

\* Min is that element.
LEMMA LeastOf ==
  ASSUME NEW T \in SUBSET Nat, T # {}
  PROVE  Min(T) \in T /\ \A k \in T : Min(T) <= k
<1>1. \E m \in T : \A k \in T : m =< k
  BY LeastNat
<1> QED
  BY <1>1, Zenon DEF Min

\* Max is the greatest element of a bounded set.
LEMMA GreatestOf ==
  ASSUME NEW n \in Nat, NEW T \in SUBSET (0 .. n), T # {}
  PROVE  Max(T) \in T /\ \A k \in T : Max(T) >= k
<1> DEFINE U == {n - k : k \in T}
<1>1. U \in SUBSET Nat /\ U # {}
  OBVIOUS
<1>2. PICK u \in U : \A k \in U : u <= k
  BY <1>1, LeastNat
<1>3. PICK m \in T : u = n - m
  BY <1>2
<1>4. ASSUME NEW k \in T
      PROVE  m >= k
  <2>1. u <= n - k
    BY <1>2
  <2> QED
    BY <2>1, <1>3
<1>5. \E x \in T : \A k \in T : x >= k
  BY <1>4
<1> QED
  BY <1>5, Zenon DEF Max

-----------------------------------------------------------------------------
(* Scans.                                                                  *)

\* A scan goes on to the right, and at most to the end.
IsScan(next) ==
  \E n \in Nat : next \in [1 .. n -> 2 .. n + 1] /\ \A i \in 1 .. n : next[i] > i

\* Stops as its recursive definition says.
LEMMA StopsRule ==
  ASSUME NEW next, IsScan(next)
  PROVE  \A i \in DOMAIN next :
           i \in Stops(next) <=> i = 1 \/ \E j \in Stops(next) : next[j] = i
<1>0. PICK n \in Nat : next \in [1 .. n -> 2 .. n + 1] /\ \A i \in 1 .. n : next[i] > i
  BY DEF IsScan
<1> DEFINE Fits(S, k) ==
      \A i \in 1 .. k : i \in S <=> i = 1 \/ \E j \in 1 .. i - 1 : next[j] = i /\ j \in S
    G == {k \in 1 .. n : \E S \in SUBSET (1 .. k) : Fits(S, k)}
<1>1. ASSUME NEW k \in 1 .. n, \A j \in 1 .. k - 1 : j \in G
      PROVE  k \in G
  <2>1. PICK S \in SUBSET (1 .. k - 1) : Fits(S, k - 1)
    <3>1. CASE k = 1
      <4>1. {} \in SUBSET (1 .. k - 1) /\ Fits({}, k - 1)
        BY <3>1
      <4> QED
        BY <4>1, Zenon
    <3>2. CASE k > 1
      BY <3>2, <1>1
    <3> QED
      BY <3>1, <3>2
  <2> DEFINE R == IF k = 1 \/ \E j \in 1 .. k - 1 : next[j] = k /\ j \in S THEN S \cup {k} ELSE S
  <2>2. Fits(R, k)
    <3> SUFFICES ASSUME NEW i \in 1 .. k
                 PROVE  i \in R <=> i = 1 \/ \E j \in 1 .. i - 1 : next[j] = i /\ j \in R
      OBVIOUS
    <3>1. \A j \in 1 .. k - 1 : j \in R <=> j \in S
      OBVIOUS
    <3>2. k \in R <=> k = 1 \/ \E j \in 1 .. k - 1 : next[j] = k /\ j \in S
      OBVIOUS
    <3> HIDE DEF R
    <3>3. CASE i = k
      BY <3>1, <3>2, <3>3
    <3>4. CASE i < k
      BY <2>1, <3>1, <3>4
    <3> QED
      BY <3>3, <3>4
  <2>3. R \in SUBSET (1 .. k)
    OBVIOUS
  <2> HIDE DEF R, Fits
  <2> QED
    BY <2>2, <2>3
<1>2. PICK S \in SUBSET (1 .. n) : Fits(S, n)
  <2>1. 1 .. n \subseteq G
    <3> HIDE DEF G
    <3> QED
      BY <1>1, Upwards
  <2>2. CASE n = 0
    <3>1. {} \in SUBSET (1 .. n) /\ Fits({}, n)
      BY <2>2
    <3> QED
      BY <3>1, Zenon
  <2>3. CASE n > 0
    BY <2>1, <2>3
  <2> QED
    BY <2>2, <2>3
<1> DEFINE P(f) == f = [i \in DOMAIN next |-> i = 1 \/ \E j \in 1 .. i - 1 : next[j] = i /\ f[j]]
           stop == CHOOSE f : P(f)
<1>3. \E f : P(f)
  <2> DEFINE g == [i \in 1 .. n |-> i \in S]
  <2>1. \A i \in 1 .. n : g[i] = (i = 1 \/ \E j \in 1 .. i - 1 : next[j] = i /\ g[j])
    <3> SUFFICES ASSUME NEW i \in 1 .. n
                 PROVE  g[i] = (i = 1 \/ \E j \in 1 .. i - 1 : next[j] = i /\ g[j])
      OBVIOUS
    <3>1. \A j \in 1 .. n : g[j] = (j \in S)
      BY Zenon
    <3>2. \A j \in 1 .. i - 1 : g[j] = (j \in S)
      <4>1. \A j \in 1 .. i - 1 : j \in 1 .. n
        OBVIOUS
      <4> QED
        BY <3>1, <4>1, Zenon
    <3>3. (i \in S) = (i = 1 \/ \E j \in 1 .. i - 1 : next[j] = i /\ j \in S)
      <4>1. i \in S <=> i = 1 \/ \E j \in 1 .. i - 1 : next[j] = i /\ j \in S
        BY <1>2
      <4> QED
        BY <4>1
    <3> HIDE DEF g
    <3>4. (\E j \in 1 .. i - 1 : next[j] = i /\ g[j])
            = (\E j \in 1 .. i - 1 : next[j] = i /\ j \in S)
      BY <3>2, Zenon
    <3> QED
      BY <3>1, <3>3, <3>4, Zenon
  <2> QED
    BY <1>0, <2>1
<1>4. P(stop)
  BY <1>3, Zenon
<1>5. Stops(next) = {i \in DOMAIN next : stop[i]}
  BY DEF Stops
<1> HIDE DEF stop
<1>6. DOMAIN next = 1 .. n
  BY <1>0
<1>7. \A i \in 1 .. n : stop[i] = (i = 1 \/ \E j \in 1 .. i - 1 : next[j] = i /\ stop[j])
  BY <1>4, <1>6, Zenon
<1>8. \A i \in 1 .. n : i \in Stops(next) <=> stop[i]
  BY <1>5, <1>6, Zenon
<1>9. \A j \in Stops(next) : j \in 1 .. n /\ next[j] > j
  BY <1>0, <1>5, <1>6
<1> SUFFICES ASSUME NEW i \in 1 .. n
             PROVE  i \in Stops(next) <=> i = 1 \/ \E j \in Stops(next) : next[j] = i
  BY <1>6
<1>10. \A j \in 1 .. i - 1 : j \in Stops(next) <=> stop[j]
  <2>1. \A j \in 1 .. i - 1 : j \in 1 .. n
    OBVIOUS
  <2> QED
    BY <2>1, <1>8, Zenon
<1>11. (\E j \in Stops(next) : next[j] = i) <=> \E j \in 1 .. i - 1 : next[j] = i /\ j \in Stops(next)
  BY <1>0, <1>9
<1>12. (\E j \in 1 .. i - 1 : next[j] = i /\ j \in Stops(next))
         <=> \E j \in 1 .. i - 1 : next[j] = i /\ stop[j]
  BY <1>10, Zenon
<1> QED
  BY <1>7, <1>8, <1>11, <1>12, Zenon

\* A scan stops at a position or passes it on the way from a stop to the next,
\* and never both.
LEMMA StopsCover ==
  ASSUME NEW next, IsScan(next), NEW i \in DOMAIN next, i \notin Stops(next)
  PROVE  \E j \in Stops(next) : j < i /\ i < next[j]
<1>0. PICK n \in Nat : next \in [1 .. n -> 2 .. n + 1] /\ \A j \in 1 .. n : next[j] > j
  BY DEF IsScan
<1>1. \A j \in Stops(next) : j \in 1 .. n
  BY <1>0 DEF Stops
<1> DEFINE S == {k \in 1 .. n : k \in Stops(next) \/ \E j \in Stops(next) : j < k /\ k < next[j]}
<1>2. ASSUME NEW k \in 1 .. n, \A j \in 1 .. k - 1 : j \in S
      PROVE  k \in S
  <2>1. CASE k = 1
    BY <1>0, <2>1, StopsRule
  <2>2. CASE k > 1
    <3>1. k - 1 \in S
      BY <1>2, <2>2
    <3>2. PICK j \in Stops(next) : j <= k - 1 /\ k - 1 < next[j]
      <4>1. k - 1 <= k - 1 /\ k - 1 < next[k - 1]
        BY <1>0, <2>2
      <4>2. CASE k - 1 \in Stops(next)
        BY <4>1, <4>2
      <4>3. CASE \E j \in Stops(next) : j < k - 1 /\ k - 1 < next[j]
        BY <1>1, <4>3
      <4> QED
        BY <3>1, <4>2, <4>3
    <3>3. next[j] = k => k \in Stops(next)
      BY <1>0, <3>2, StopsRule
    <3> QED
      BY <1>0, <1>1, <3>2, <3>3
  <2> QED
    BY <2>1, <2>2
<1>3. 1 .. n \subseteq S
  <2> HIDE DEF S
  <2> QED
    BY <1>2, Upwards
<1> QED
  BY <1>0, <1>3

\* A scan never goes back behind a later stop.
LEMMA StopsApart ==
  ASSUME NEW next, IsScan(next), NEW i \in Stops(next), NEW j \in Stops(next), j < i
  PROVE  next[j] <= i
<1>0. PICK n \in Nat : next \in [1 .. n -> 2 .. n + 1] /\ \A k \in 1 .. n : next[k] > k
  BY DEF IsScan
<1>1. \A k \in Stops(next) : k \in 1 .. n
  BY <1>0 DEF Stops
<1> DEFINE S == {k \in 1 .. n : k \in Stops(next) =>
                               \A h \in Stops(next) : h < k => next[h] <= k}
<1>2. ASSUME NEW k \in 1 .. n, \A h \in 1 .. k - 1 : h \in S
      PROVE  k \in S
  <2> SUFFICES ASSUME k \in Stops(next), NEW h \in Stops(next), h < k, next[h] > k
               PROVE  FALSE
    BY <1>0, <1>1
  <2>1. PICK g \in Stops(next) : next[g] = k
    <3>1. k # 1 /\ k \in DOMAIN next
      BY <1>0, <1>1
    <3> QED
      BY <3>1, StopsRule
  <2>2. g \in 1 .. k - 1 /\ h \in 1 .. k - 1
    BY <1>0, <1>1, <2>1
  <2>3. CASE g < h
    <3>1. next[g] <= h
      BY <1>2, <2>2, <2>3
    <3> QED
      BY <3>1, <2>1, <2>2
  <2>4. CASE h < g
    <3>1. next[h] <= g
      BY <1>2, <2>2, <2>4
    <3> QED
      BY <1>0, <3>1, <2>2
  <2>5. CASE g = h
    BY <1>0, <2>1, <2>5
  <2> QED
    BY <2>2, <2>3, <2>4, <2>5
<1>3. 1 .. n \subseteq S
  <2> HIDE DEF S
  <2> QED
    BY <1>2, Upwards
<1> QED
  BY <1>1, <1>3

-----------------------------------------------------------------------------
(* Placeholders.                                                           *)

Chars == STRING \cup {"p", "1", "[", "]"}
Texts == Seq(Chars)
Mappings == Seq(Texts)

\* Placeholders are made of symbols.
LEMMA PlaceholderChars == "p" \in Chars /\ "1" \in Chars /\ "[" \in Chars /\ "]" \in Chars
BY DEF Chars

\* A text of one symbol.
LEMMA OneIs ==
  ASSUME NEW x \in Chars
  PROVE  <<x>> \in Texts /\ Len(<<x>>) = 1 /\ <<x>>[1] = x
BY DEF Texts

\* What a concatenation of two texts is made of.
LEMMA CatIs ==
  ASSUME NEW s \in Texts, NEW t \in Texts
  PROVE  /\ s \o t \in Texts /\ Len(s \o t) = Len(s) + Len(t)
         /\ \A i \in 1 .. Len(s) : (s \o t)[i] = s[i]
         /\ \A i \in Len(s) + 1 .. Len(s) + Len(t) : (s \o t)[i] = t[i - Len(s)]
<1>1. Len(s) \in Nat /\ Len(t) \in Nat
  BY DEF Texts
<1>2. \A i \in 1 .. Len(s) + Len(t) :
        (s \o t)[i] = IF i <= Len(s) THEN s[i] ELSE t[i - Len(s)]
  BY ConcatProperties, Zenon DEF Texts
<1>3. s \o t \in Texts /\ Len(s \o t) = Len(s) + Len(t)
  BY ConcatProperties, Zenon DEF Texts
<1> QED
  BY <1>1, <1>2, <1>3

\* What a part of a text is made of.
LEMMA CutIs ==
  ASSUME NEW t \in Texts, NEW i \in 1 .. Len(t) + 1, NEW e \in i - 1 .. Len(t)
  PROVE  /\ SubSeq(t, i, e) \in Texts /\ Len(SubSeq(t, i, e)) = e - i + 1
         /\ \A j \in 1 .. e - i + 1 : SubSeq(t, i, e)[j] = t[i + j - 1]
<1>1. Len(t) \in Nat /\ \A j \in 1 .. Len(t) : t[j] \in Chars
  BY DEF Texts
<1>2. i \in Int /\ e \in Int /\ \A j \in i .. e : t[j] \in Chars
  BY <1>1
<1>3. /\ SubSeq(t, i, e) \in Seq(Chars)
      /\ Len(SubSeq(t, i, e)) = IF i <= e THEN e - i + 1 ELSE 0
      /\ \A j \in 1 .. e - i + 1 : SubSeq(t, i, e)[j] = t[i + j - 1]
  BY <1>2, SubSeqProperties
<1> QED
  BY <1>1, <1>3 DEF Texts

\* What a bare placeholder is made of.
LEMMA BareIs ==
  ASSUME NEW n \in Nat
  PROVE  /\ Bare(n) \in Texts /\ Len(Bare(n)) = n + 1
         /\ Bare(n)[1] = "p" /\ \A i \in 2 .. n + 1 : Bare(n)[i] = "1"
<1> DEFINE u == [i \in 1 .. n |-> "1"]
<1>1. u \in [1 .. n -> Chars] /\ \A i \in 1 .. n : u[i] = "1"
  BY PlaceholderChars
<1> HIDE DEF u
<1>2. u \in Texts
  BY <1>1, SeqDef DEF Texts
<1>3. Len(u) = n
  BY <1>1, <1>2 DEF Texts
<1>4. Bare(n) = <<"p">> \o u
  BY DEF Bare, u
<1>5. /\ Bare(n) \in Texts /\ Len(Bare(n)) = n + 1
      /\ \A i \in 1 .. 1 : Bare(n)[i] = <<"p">>[i]
      /\ \A i \in 2 .. n + 1 : Bare(n)[i] = u[i - 1]
  BY <1>2, <1>3, <1>4, CatIs, OneIs, PlaceholderChars
<1> QED
  BY <1>1, <1>5

\* What a placeholder in brackets is made of.
LEMMA TokenIs ==
  ASSUME NEW n \in Nat
  PROVE  /\ Token(n) \in Texts /\ Len(Token(n)) = n + 3
         /\ Token(n)[1] = "[" /\ Token(n)[2] = "p" /\ Token(n)[n + 3] = "]"
         /\ \A i \in 3 .. n + 2 : Token(n)[i] = "1"
<1> DEFINE b == Bare(n)
           ob == <<"[">> \o b
<1>1. b \in Texts /\ Len(b) = n + 1 /\ b[1] = "p" /\ \A i \in 2 .. n + 1 : b[i] = "1"
  BY BareIs
<1> HIDE DEF b
<1>2. /\ ob \in Texts /\ Len(ob) = n + 2
      /\ \A i \in 1 .. 1 : ob[i] = <<"[">>[i]
      /\ \A i \in 2 .. n + 2 : ob[i] = b[i - 1]
  BY <1>1, CatIs, OneIs, PlaceholderChars
<1>3. ob[1] = "[" /\ ob[2] = "p" /\ \A i \in 3 .. n + 2 : ob[i] = "1"
  BY <1>1, <1>2
<1> HIDE DEF ob
<1>4. Token(n) = ob \o <<"]">>
  BY DEF Token, ob, b
<1>5. /\ Token(n) \in Texts /\ Len(Token(n)) = n + 3
      /\ \A i \in 1 .. n + 2 : Token(n)[i] = ob[i]
      /\ \A i \in n + 3 .. n + 3 : Token(n)[i] = <<"]">>[i - (n + 2)]
  BY <1>2, <1>4, CatIs, OneIs, PlaceholderChars
<1> QED
  BY <1>3, <1>5

\* t has a bare placeholder of m, or a complete one, from i to e.
BareSpan(t, i, e, m) ==
  /\ e - i \in DOMAIN m /\ e <= Len(t)
  /\ t[i] = "p" /\ \A j \in i + 1 .. e : t[j] = "1"
  /\ isBareTokenBoundary(t, i - 1) /\ isBareTokenBoundary(t, e + 1)

TokenSpan(t, i, e, m) ==
  /\ e - i - 2 \in DOMAIN m /\ e <= Len(t)
  /\ t[i] = "[" /\ t[i + 1] = "p" /\ t[e] = "]" /\ \A j \in i + 2 .. e - 1 : t[j] = "1"

\* When a text continues with the bare placeholder n.
LEMMA BareAtIs ==
  ASSUME NEW t \in Texts, NEW i \in 1 .. Len(t), NEW n \in Nat
  PROVE  IsPrefix(Bare(n), SubSeq(t, i, Len(t)))
           <=> i + n <= Len(t) /\ t[i] = "p" /\ \A j \in i + 1 .. i + n : t[j] = "1"
<1> DEFINE b == Bare(n)
           u == SubSeq(t, i, Len(t))
<1>1. b \in Texts /\ Len(b) = n + 1 /\ b[1] = "p" /\ \A j \in 2 .. n + 1 : b[j] = "1"
  BY BareIs
<1>2. u \in Texts /\ Len(u) = Len(t) - i + 1 /\ \A j \in 1 .. Len(t) - i + 1 : u[j] = t[i + j - 1]
  BY DEF Texts
<1> HIDE DEF b, u
<1>3. IsPrefix(b, u) <=> n + 1 <= Len(u) /\ \A j \in 1 .. n + 1 : b[j] = u[j]
  <2>1. CASE n + 1 <= Len(u)
    <3>1. SubSeq(b, 1, Len(b)) = [j \in 1 .. n + 1 |-> b[j]]
      BY <1>1 DEF Texts
    <3>2. SubSeq(u, 1, Len(b)) = [j \in 1 .. n + 1 |-> u[j]]
      BY <1>1, <1>2, <2>1 DEF Texts
    <3>3. ([j \in 1 .. n + 1 |-> b[j]] = [j \in 1 .. n + 1 |-> u[j]])
            <=> \A j \in 1 .. n + 1 : b[j] = u[j]
      OBVIOUS
    <3> QED
      BY <1>1, <2>1, <3>1, <3>2, <3>3 DEF IsPrefix
  <2>2. CASE ~ (n + 1 <= Len(u))
    BY <1>1, <2>2 DEF IsPrefix
  <2> QED
    BY <2>1, <2>2
<1>4. ASSUME n + 1 <= Len(u), \A j \in 1 .. n + 1 : b[j] = u[j]
      PROVE  i + n <= Len(t) /\ t[i] = "p" /\ \A j \in i + 1 .. i + n : t[j] = "1"
  <2>1. t[i] = "p"
    <3>1. b[1] = u[1] /\ u[1] = t[i + 1 - 1]
      BY <1>2, <1>4
    <3> QED
      BY <1>1, <3>1
  <2>2. ASSUME NEW j \in i + 1 .. i + n
        PROVE  t[j] = "1"
    <3>1. j - i + 1 \in 2 .. n + 1 /\ j - i + 1 \in 1 .. n + 1 /\ j - i + 1 \in 1 .. Len(t) - i + 1
      BY <1>2, <1>4
    <3>2. u[j - i + 1] = t[i + (j - i + 1) - 1] /\ i + (j - i + 1) - 1 = j
      BY <1>2, <3>1
    <3> QED
      BY <1>1, <1>4, <3>1, <3>2
  <2> QED
    BY <1>2, <1>4, <2>1, <2>2
<1>5. ASSUME i + n <= Len(t), t[i] = "p", \A j \in i + 1 .. i + n : t[j] = "1"
      PROVE  n + 1 <= Len(u) /\ \A j \in 1 .. n + 1 : b[j] = u[j]
  <2>1. ASSUME NEW j \in 1 .. n + 1
        PROVE  b[j] = u[j]
    <3>1. u[j] = t[i + j - 1]
      BY <1>2, <1>5
    <3>2. CASE j = 1
      BY <1>1, <1>5, <3>1, <3>2
    <3>3. CASE j \in 2 .. n + 1
      <4>1. i + j - 1 \in i + 1 .. i + n
        BY <3>3
      <4> QED
        BY <1>1, <1>5, <3>1, <3>3, <4>1
    <3> QED
      BY <3>2, <3>3
  <2> QED
    BY <1>2, <1>5, <2>1
<1> QED
  BY <1>3, <1>4, <1>5 DEF b, u

\* The numbers of a mapping.
LEMMA MappingIs ==
  ASSUME NEW m \in Mappings
  PROVE  Len(m) \in Nat /\ DOMAIN m = 1 .. Len(m)
BY DEF Mappings

\* The positions and symbols of a text.
LEMMA TextIs ==
  ASSUME NEW t \in Texts
  PROVE  Len(t) \in Nat /\ DOMAIN t = 1 .. Len(t) /\ \A i \in 1 .. Len(t) : t[i] \in Chars
BY DEF Texts

\* What matchBareAlias finds is the one bare placeholder between boundaries.
LEMMA BareSpanIs ==
  ASSUME NEW m \in Mappings, NEW t \in Texts, NEW i \in 1 .. Len(t)
  PROVE  /\ IsBare(t, i, m) => BareSpan(t, i, matchBareAlias(t, i, m), m)
         /\ \A e \in Nat : BareSpan(t, i, e, m) => IsBare(t, i, m) /\ matchBareAlias(t, i, m) = e
<1> DEFINE B == BareAt(t, i, m)
<1>0. Len(m) \in Nat /\ DOMAIN m = 1 .. Len(m) /\ Len(t) \in Nat /\ DOMAIN t = 1 .. Len(t)
  BY MappingIs, TextIs
<1>1. \A n \in Nat : n \in B <=> /\ n \in DOMAIN m /\ i + n <= Len(t) /\ t[i] = "p"
                                 /\ \A j \in i + 1 .. i + n : t[j] = "1"
  BY <1>0, BareAtIs DEF BareAt
<1>2. B \in SUBSET (0 .. Len(m))
  BY <1>0 DEF BareAt
<1>3. B # {} => Max(B) \in B /\ \A n \in B : Max(B) >= n
  BY <1>0, <1>2, GreatestOf, Zenon
<1>7. \A n \in B : n \in Nat
  BY <1>0, <1>2
<1>4. B # {} => matchBareAlias(t, i, m) = i + Max(B)
  <2> SUFFICES ASSUME B # {}
               PROVE  matchBareAlias(t, i, m) = i + Max(B)
    OBVIOUS
  <2>1. Max(B) \in Nat
    BY <1>3, <1>7
  <2>2. Len(Bare(Max(B))) = Max(B) + 1
    BY <2>1, BareIs
  <2> QED
    BY <2>1, <2>2 DEF matchBareAlias
<1> HIDE DEF B
<1>5. ASSUME IsBare(t, i, m)
      PROVE  BareSpan(t, i, matchBareAlias(t, i, m), m)
  <2>1. B # {} /\ isBareTokenBoundary(t, i - 1) /\ isBareTokenBoundary(t, matchBareAlias(t, i, m) + 1)
    BY <1>5 DEF IsBare, B
  <2>2. Max(B) \in B /\ Max(B) \in Nat
    BY <1>3, <1>7, <2>1
  <2>3. /\ Max(B) \in DOMAIN m /\ i + Max(B) <= Len(t) /\ t[i] = "p"
        /\ \A j \in i + 1 .. i + Max(B) : t[j] = "1"
    BY <1>1, <2>2
  <2>4. (i + Max(B)) - i = Max(B)
    BY <2>2
  <2> QED
    BY <1>4, <2>1, <2>3, <2>4 DEF BareSpan
<1>6. ASSUME NEW e \in Nat, BareSpan(t, i, e, m)
      PROVE  IsBare(t, i, m) /\ matchBareAlias(t, i, m) = e
  <2> USE DEF BareSpan
  <2>1. e - i \in Nat /\ i + (e - i) = e
    BY <1>0, <1>6
  <2>2. e - i \in B
    BY <1>1, <1>6, <2>1
  <2>3. Max(B) \in B /\ Max(B) >= e - i /\ Max(B) \in Nat
    BY <1>3, <1>7, <2>2
  <2>4. Max(B) = e - i
    <3> SUFFICES ASSUME Max(B) > e - i
                 PROVE  FALSE
      BY <2>1, <2>3
    <3>1. e + 1 \in i + 1 .. i + Max(B) /\ e + 1 \in 1 .. Len(t)
      BY <1>1, <2>1, <2>3
    <3>2. t[e + 1] = "1"
      BY <1>1, <2>3, <3>1
    <3> QED
      BY <1>0, <1>6, <3>1, <3>2 DEF isBareTokenBoundary, Word
  <2>5. matchBareAlias(t, i, m) = e
    BY <1>4, <2>1, <2>2, <2>4
  <2> QED
    BY <1>6, <2>2, <2>5 DEF IsBare, B
<1> QED
  BY <1>5, <1>6

\* A complete placeholder ends at the first closing bracket.
LEMMA TokenSpanIs ==
  ASSUME NEW m \in Mappings, NEW t \in Texts, NEW i \in 1 .. Len(t)
  PROVE  /\ CloseAfter(t, i) # {} =>
              /\ Min(CloseAfter(t, i)) \in i + 1 .. Len(t)
              /\ t[Min(CloseAfter(t, i))] = "]"
              /\ \A j \in i + 1 .. Min(CloseAfter(t, i)) - 1 : t[j] # "]"
         /\ IsToken(t, i, m) => TokenSpan(t, i, Min(CloseAfter(t, i)), m)
         /\ \A e \in Nat : TokenSpan(t, i, e, m) =>
              /\ IsToken(t, i, m) /\ e \in CloseAfter(t, i)
              /\ Min(CloseAfter(t, i)) = e
<1> DEFINE C == CloseAfter(t, i)
           c == Min(C)
<1>0. Len(m) \in Nat /\ DOMAIN m = 1 .. Len(m) /\ Len(t) \in Nat /\ DOMAIN t = 1 .. Len(t)
  BY MappingIs, TextIs
<1>1. C \in SUBSET Nat
  BY <1>0 DEF CloseAfter
<1>2. C # {} => c \in C /\ \A j \in C : c <= j
  BY <1>1, LeastOf
<1>3. \A j \in Int : j \in C <=> j \in i + 1 .. Len(t) /\ t[j] = "]"
  BY <1>0 DEF CloseAfter
<1> HIDE DEF C, c
<1>4. ASSUME C # {}
      PROVE  c \in i + 1 .. Len(t) /\ t[c] = "]" /\ \A j \in i + 1 .. c - 1 : t[j] # "]"
  <2>1. c \in C /\ c \in Nat /\ \A j \in C : c <= j
    BY <1>1, <1>2, <1>4
  <2>2. c \in i + 1 .. Len(t) /\ t[c] = "]"
    BY <1>3, <2>1
  <2>3. ASSUME NEW j \in i + 1 .. c - 1, t[j] = "]"
        PROVE  FALSE
    <3>1. j \in C
      BY <1>0, <1>3, <2>2, <2>3
    <3> QED
      BY <2>1, <3>1
  <2> QED
    BY <2>2, <2>3
<1>5. ASSUME IsToken(t, i, m)
      PROVE  TokenSpan(t, i, c, m)
  <2>1. C # {} /\ t[i] = "["
    BY <1>5 DEF IsToken, C
  <2>2. c \in i + 1 .. Len(t) /\ t[c] = "]"
    BY <1>4, <2>1
  <2>3. PICK n \in DOMAIN m : SubSeq(t, i, c) = Token(n)
    BY <1>5 DEF IsToken, C, c
  <2>4. /\ Len(Token(n)) = n + 3 /\ Token(n)[2] = "p" /\ \A j \in 3 .. n + 2 : Token(n)[j] = "1"
    <3>1. n \in Nat
      BY <1>0
    <3> QED
      BY <3>1, TokenIs
  <2>5. Len(Token(n)) = c - i + 1 /\ \A j \in 1 .. c - i + 1 : Token(n)[j] = t[i + j - 1]
    <3>1. i \in 1 .. Len(t) + 1 /\ c \in i - 1 .. Len(t)
      BY <1>0, <2>2
    <3> QED
      BY <2>3, <3>1, CutIs
  <2>6. c - i - 2 = n /\ n \in Nat
    <3>1. n + 3 = c - i + 1 /\ n \in Nat
      BY <1>0, <2>4, <2>5
    <3> QED
      BY <2>2, <3>1
  <2>7. t[i + 1] = "p"
    <3>1. Token(n)[2] = t[i + 2 - 1]
      BY <1>0, <2>2, <2>5, <2>6
    <3> QED
      BY <2>4, <3>1
  <2>8. ASSUME NEW j \in i + 2 .. c - 1
        PROVE  t[j] = "1"
    <3>1. j - i + 1 \in 1 .. c - i + 1 /\ j - i + 1 \in 3 .. n + 2 /\ i + (j - i + 1) - 1 = j
      BY <1>0, <2>2, <2>6
    <3> QED
      BY <2>4, <2>5, <3>1
  <2> QED
    BY <2>1, <2>2, <2>6, <2>7, <2>8 DEF TokenSpan
<1>6. ASSUME NEW e \in Nat, TokenSpan(t, i, e, m)
      PROVE  IsToken(t, i, m) /\ e \in C /\ c = e
  <2> DEFINE n == e - i - 2
  <2>1. /\ n \in 1 .. Len(m) /\ e <= Len(t) /\ t[i] = "[" /\ t[i + 1] = "p" /\ t[e] = "]"
        /\ \A j \in i + 2 .. e - 1 : t[j] = "1"
    BY <1>0, <1>6 DEF TokenSpan
  <2>2. e \in C
    BY <1>3, <2>1
  <2>3. c = e
    <3>1. c \in i + 1 .. Len(t) /\ t[c] = "]" /\ c <= e
      BY <1>2, <1>4, <2>2
    <3> QED
      BY <2>1, <3>1
  <2>4. SubSeq(t, i, e) = Token(n)
    <3>1. SubSeq(t, i, e) \in Texts /\ Len(SubSeq(t, i, e)) = n + 3
          /\ \A j \in 1 .. n + 3 : SubSeq(t, i, e)[j] = t[i + j - 1]
      BY <1>0, <2>1, CutIs
    <3>2. /\ Token(n) \in Texts /\ Len(Token(n)) = n + 3
          /\ Token(n)[1] = "[" /\ Token(n)[2] = "p" /\ Token(n)[n + 3] = "]"
          /\ \A j \in 3 .. n + 2 : Token(n)[j] = "1"
      <4>1. n \in Nat
        BY <2>1
      <4> QED
        BY <4>1, TokenIs, Zenon
    <3>3. ASSUME NEW j \in 1 .. n + 3
          PROVE  SubSeq(t, i, e)[j] = Token(n)[j]
      <4>1. SubSeq(t, i, e)[j] = t[i + j - 1]
        BY <3>1
      <4>2. CASE j = 1
        BY <4>1, <4>2, <2>1, <3>2
      <4>3. CASE j = 2
        BY <4>1, <4>3, <2>1, <3>2
      <4>4. CASE j = n + 3
        <5>1. i + j - 1 = e
          BY <1>0, <4>4
        <5> QED
          BY <4>1, <5>1, <4>4, <2>1, <3>2
      <4>5. CASE j \in 3 .. n + 2
        <5>1. i + j - 1 \in i + 2 .. e - 1
          BY <4>5
        <5> QED
          BY <4>1, <5>1, <4>5, <2>1, <3>2
      <4>6. j = 1 \/ j = 2 \/ j = n + 3 \/ j \in 3 .. n + 2
        BY <1>0, <2>1
      <4> QED
        BY <4>2, <4>3, <4>4, <4>5, <4>6, Zenon
    <3>4. n + 3 \in Nat
      BY <2>1
    <3> HIDE DEF n
    <3> QED
      BY <3>1, <3>2, <3>3, <3>4, SeqEqual DEF Texts
  <2>5. n \in DOMAIN m
    BY <1>0, <2>1
  <2> QED
    BY <2>1, <2>2, <2>3, <2>4, <2>5 DEF IsToken, C, c
<1> QED
  BY <1>4, <1>5, <1>6 DEF C, c

\* Where Unmask goes on.
LEMMA UnmaskScanIs ==
  ASSUME NEW m \in Mappings, NEW t \in Texts
  PROVE  /\ IsScan(UnmaskScan(t, m)) /\ DOMAIN UnmaskScan(t, m) = 1 .. Len(t)
         /\ \A i \in 1 .. Len(t) :
              /\ UnmaskScan(t, m)[i] \in i + 1 .. Len(t) + 1
              /\ t[i] = "[" => /\ UnmaskScan(t, m)[i] <= Len(t) => t[UnmaskScan(t, m)[i] - 1] = "]"
                               /\ \A j \in i + 1 .. UnmaskScan(t, m)[i] - 2 : t[j] # "]"
              /\ IsToken(t, i, m) => TokenSpan(t, i, UnmaskScan(t, m)[i] - 1, m)
              /\ IsBare(t, i, m) => BareSpan(t, i, UnmaskScan(t, m)[i] - 1, m)
              /\ t[i] # "[" /\ ~ IsBare(t, i, m) => UnmaskScan(t, m)[i] = i + 1
<1> DEFINE u == UnmaskScan(t, m)
<1>0. Len(m) \in Nat /\ DOMAIN m = 1 .. Len(m) /\ Len(t) \in Nat /\ DOMAIN t = 1 .. Len(t)
  BY MappingIs, TextIs
<1>1. u = [i \in 1 .. Len(t) |->
             IF t[i] = "[" THEN IF CloseAfter(t, i) = {} THEN Len(t) + 1
                                ELSE Min(CloseAfter(t, i)) + 1
             ELSE IF IsBare(t, i, m) THEN matchBareAlias(t, i, m) + 1
             ELSE i + 1]
  BY <1>0 DEF UnmaskScan
<1> HIDE DEF u
<1>2. ASSUME NEW i \in 1 .. Len(t)
      PROVE  /\ u[i] \in i + 1 .. Len(t) + 1
             /\ t[i] = "[" => /\ u[i] <= Len(t) => t[u[i] - 1] = "]"
                              /\ \A j \in i + 1 .. u[i] - 2 : t[j] # "]"
             /\ IsToken(t, i, m) => TokenSpan(t, i, u[i] - 1, m)
             /\ IsBare(t, i, m) => BareSpan(t, i, u[i] - 1, m)
             /\ t[i] # "[" /\ ~ IsBare(t, i, m) => u[i] = i + 1
  <2>1. CASE t[i] = "[" /\ CloseAfter(t, i) = {}
    <3>1. u[i] = Len(t) + 1
      BY <1>1, <2>1
    <3>2. \A j \in i + 1 .. Len(t) : t[j] # "]"
      BY <1>0, <2>1 DEF CloseAfter
    <3> QED
      BY <1>0, <2>1, <3>1, <3>2 DEF IsToken, IsBare
  <2>2. CASE t[i] = "[" /\ CloseAfter(t, i) # {}
    <3> DEFINE c == Min(CloseAfter(t, i))
    <3>1. u[i] = c + 1
      BY <1>1, <2>2
    <3>2. c \in i + 1 .. Len(t) /\ t[c] = "]" /\ \A j \in i + 1 .. c - 1 : t[j] # "]"
      BY <2>2, TokenSpanIs
    <3>3. IsToken(t, i, m) => TokenSpan(t, i, c, m)
      BY TokenSpanIs
    <3> HIDE DEF c
    <3>4. u[i] - 1 = c /\ u[i] - 2 = c - 1
      BY <3>1, <3>2
    <3> QED
      BY <1>0, <2>2, <3>1, <3>2, <3>3, <3>4 DEF IsBare
  <2>3. CASE t[i] # "[" /\ IsBare(t, i, m)
    <3>1. u[i] = matchBareAlias(t, i, m) + 1
      BY <1>1, <2>3
    <3>2. BareSpan(t, i, matchBareAlias(t, i, m), m)
      BY <2>3, BareSpanIs
    <3> DEFINE e == matchBareAlias(t, i, m)
    <3>3. e \in i + 1 .. Len(t)
      <4>1. e \in Int
        <5>1. BareAt(t, i, m) \in SUBSET (0 .. Len(m)) /\ BareAt(t, i, m) # {}
          BY <1>0, <2>3 DEF BareAt, IsBare
        <5>2. Max(BareAt(t, i, m)) \in BareAt(t, i, m)
          BY <1>0, <5>1, GreatestOf, Zenon
        <5>3. Max(BareAt(t, i, m)) \in Nat
          BY <1>0, <5>1, <5>2
        <5>4. Len(Bare(Max(BareAt(t, i, m)))) = Max(BareAt(t, i, m)) + 1
          BY <5>3, BareIs
        <5> QED
          BY <5>3, <5>4 DEF matchBareAlias
      <4>2. e - i \in 1 .. Len(m) /\ e <= Len(t)
        BY <1>0, <3>2 DEF BareSpan
      <4> HIDE DEF e
      <4> QED
        BY <1>0, <4>1, <4>2
    <3> HIDE DEF e
    <3>4. u[i] - 1 = e /\ u[i] = e + 1
      BY <3>1, <3>3 DEF e
    <3>5. BareSpan(t, i, u[i] - 1, m)
      BY <3>2, <3>4 DEF e
    <3>6. u[i] \in i + 1 .. Len(t) + 1
      BY <1>0, <3>3, <3>4
    <3> QED
      BY <2>3, <3>5, <3>6 DEF IsToken
  <2>4. CASE t[i] # "[" /\ ~ IsBare(t, i, m)
    <3>1. u[i] = i + 1
      BY <1>1, <2>4
    <3> QED
      BY <1>0, <2>4, <3>1 DEF IsToken
  <2> QED
    BY <2>1, <2>2, <2>3, <2>4
<1>3. DOMAIN u = 1 .. Len(t)
  BY <1>1
<1>4. IsScan(u)
  <2>1. \A i \in 1 .. Len(t) : u[i] \in 2 .. Len(t) + 1 /\ u[i] > i
    <3> SUFFICES ASSUME NEW i \in 1 .. Len(t)
                 PROVE  u[i] \in 2 .. Len(t) + 1 /\ u[i] > i
      OBVIOUS
    <3>1. u[i] \in i + 1 .. Len(t) + 1
      BY <1>2
    <3> QED
      BY <1>0, <3>1
  <2>2. u \in [1 .. Len(t) -> 2 .. Len(t) + 1]
    BY <1>1, <2>1
  <2> QED
    BY <1>0, <2>1, <2>2 DEF IsScan
<1> QED
  BY <1>2, <1>3, <1>4 DEF u

\* The spans that Unmask replaces, without its scan's arithmetic.
LEMMA UnmaskIs ==
  ASSUME NEW m \in Mappings, NEW t \in Texts, NEW s
  PROVE  s \in Unmask(t, m)
           <=> \E i \in Stops(UnmaskScan(t, m)), e \in 1 .. Len(t) :
                 s = <<i, e>> /\ (TokenSpan(t, i, e, m) \/ BareSpan(t, i, e, m))
<1> DEFINE u == UnmaskScan(t, m)
<1>0. Len(m) \in Nat /\ DOMAIN m = 1 .. Len(m) /\ Len(t) \in Nat /\ DOMAIN t = 1 .. Len(t)
  BY MappingIs, TextIs
<1>1. \A i \in Stops(u) : i \in 1 .. Len(t)
  BY UnmaskScanIs DEF Stops
<1>2. s \in Unmask(t, m)
        <=> \E i \in Stops(u) : s = <<i, u[i] - 1>> /\ (IsToken(t, i, m) \/ IsBare(t, i, m))
  BY DEF Unmask
<1>3. ASSUME NEW i \in Stops(u), IsToken(t, i, m) \/ IsBare(t, i, m)
      PROVE  u[i] - 1 \in 1 .. Len(t) /\ (TokenSpan(t, i, u[i] - 1, m) \/ BareSpan(t, i, u[i] - 1, m))
  <2>1. i \in 1 .. Len(t)
    BY <1>1
  <2>2. u[i] \in i + 1 .. Len(t) + 1
    BY <2>1, UnmaskScanIs
  <2>3. TokenSpan(t, i, u[i] - 1, m) \/ BareSpan(t, i, u[i] - 1, m)
    BY <1>3, <2>1, UnmaskScanIs
  <2> HIDE DEF u
  <2> QED
    BY <1>0, <2>1, <2>2, <2>3
<1>4. ASSUME NEW i \in Stops(u), NEW e \in 1 .. Len(t), TokenSpan(t, i, e, m)
      PROVE  IsToken(t, i, m) /\ u[i] - 1 = e
  <2>1. i \in 1 .. Len(t) /\ e \in Nat
    BY <1>1
  <2>2. IsToken(t, i, m) /\ e \in CloseAfter(t, i) /\ Min(CloseAfter(t, i)) = e
    BY <1>4, <2>1, TokenSpanIs
  <2>3. u[i] = e + 1
    BY <1>0, <2>1, <2>2 DEF UnmaskScan, IsToken
  <2> HIDE DEF u
  <2> QED
    BY <2>1, <2>2, <2>3
<1>5. ASSUME NEW i \in Stops(u), NEW e \in 1 .. Len(t), BareSpan(t, i, e, m)
      PROVE  IsBare(t, i, m) /\ u[i] - 1 = e
  <2>1. i \in 1 .. Len(t) /\ e \in Nat
    BY <1>1
  <2>2. IsBare(t, i, m) /\ matchBareAlias(t, i, m) = e
    BY <1>5, <2>1, BareSpanIs
  <2>3. u[i] = e + 1
    BY <1>0, <2>1, <2>2 DEF UnmaskScan, IsBare
  <2> HIDE DEF u
  <2> QED
    BY <2>1, <2>2, <2>3
<1> HIDE DEF u
<1>6. ASSUME NEW i \in Stops(u), s = <<i, u[i] - 1>>, IsToken(t, i, m) \/ IsBare(t, i, m)
      PROVE  \E k \in Stops(u), e \in 1 .. Len(t) :
               s = <<k, e>> /\ (TokenSpan(t, k, e, m) \/ BareSpan(t, k, e, m))
  BY <1>3, <1>6
<1>7. ASSUME NEW i \in Stops(u), NEW e \in 1 .. Len(t), s = <<i, e>>,
             TokenSpan(t, i, e, m) \/ BareSpan(t, i, e, m)
      PROVE  \E k \in Stops(u) : s = <<k, u[k] - 1>> /\ (IsToken(t, k, m) \/ IsBare(t, k, m))
  BY <1>4, <1>5, <1>7
<1> QED
  BY <1>2, <1>6, <1>7 DEF u

-----------------------------------------------------------------------------
(* Pieces of an answer.                                                    *)

Span(t, i, e, m) == TokenSpan(t, i, e, m) \/ BareSpan(t, i, e, m)

\* A placeholder's symbols.
LEMMA SpanIs ==
  ASSUME NEW m \in Mappings, NEW t \in Texts, NEW i \in 1 .. Len(t), NEW e \in 1 .. Len(t),
         Span(t, i, e, m)
  PROVE  /\ i < e /\ t[i] \in {"[", "p"} /\ m # <<>>
         /\ \A j \in i + 1 .. e : t[j] # "["
<1>0. Len(m) \in Nat /\ DOMAIN m = 1 .. Len(m) /\ Len(t) \in Nat
  BY MappingIs, TextIs
<1>1. CASE TokenSpan(t, i, e, m)
  <2>1. /\ e - i - 2 \in 1 .. Len(m) /\ t[i] = "[" /\ t[i + 1] = "p" /\ t[e] = "]"
        /\ \A j \in i + 2 .. e - 1 : t[j] = "1"
    BY <1>0, <1>1 DEF TokenSpan
  <2>2. ASSUME NEW j \in i + 1 .. e
        PROVE  t[j] # "["
    <3>1. j = i + 1 \/ j = e \/ j \in i + 2 .. e - 1
      OBVIOUS
    <3> QED
      BY <2>1, <3>1
  <2> QED
    BY <1>0, <2>1, <2>2
<1>2. CASE BareSpan(t, i, e, m)
  BY <1>0, <1>2 DEF BareSpan
<1> QED
  BY <1>1, <1>2 DEF Span

\* A placeholder that Unmask finds in an answer is found in a piece of it, however
\* the piece is cut around it.
LEMMA PieceKeeps ==
  ASSUME NEW m \in Mappings, NEW t \in Texts, NEW a \in 0 .. Len(t), NEW b \in a .. Len(t),
         NEW i \in Stops(UnmaskScan(t, m)), NEW e \in 1 .. Len(t), Span(t, i, e, m),
         a < i, e <= b
  PROVE  <<i - a, e - a>> \in Unmask(SubSeq(t, a + 1, b), m)
<1> DEFINE p == SubSeq(t, a + 1, b)
           u == UnmaskScan(t, m)
           v == UnmaskScan(p, m)
           k == i - a
<1>0. Len(m) \in Nat /\ DOMAIN m = 1 .. Len(m) /\ Len(t) \in Nat /\ DOMAIN t = 1 .. Len(t)
  BY MappingIs, TextIs
<1>1. p \in Texts /\ Len(p) = b - a /\ \A j \in 1 .. b - a : p[j] = t[a + j]
  <2>1. a + 1 \in 1 .. Len(t) + 1 /\ b \in (a + 1) - 1 .. Len(t)
    BY <1>0
  <2>2. p \in Texts /\ Len(p) = b - (a + 1) + 1
        /\ \A j \in 1 .. b - (a + 1) + 1 : p[j] = t[(a + 1) + j - 1]
    BY <2>1, CutIs
  <2>3. b - (a + 1) + 1 = b - a /\ \A j \in 1 .. b - a : (a + 1) + j - 1 = a + j
    BY <1>0
  <2> HIDE DEF p
  <2> QED
    BY <2>2, <2>3
<1> HIDE DEF p
<1>2. i \in 1 .. Len(t) /\ DOMAIN p = 1 .. b - a
  BY <1>1, UnmaskScanIs, TextIs DEF Stops
<1>3. i < e /\ t[i] \in {"[", "p"} /\ \A j \in i + 1 .. e : t[j] # "["
  BY <1>2, SpanIs
<1>4. k \in 1 .. b - a /\ e - a \in 1 .. b - a /\ a + k = i
  BY <1>0, <1>2, <1>3
<1>5. p[k] = t[i]
  BY <1>1, <1>4
<1>6. IsScan(u) /\ IsScan(v) /\ DOMAIN u = 1 .. Len(t) /\ DOMAIN v = 1 .. b - a
  BY <1>1, UnmaskScanIs
<1>7. k \in Stops(v)
  <2> SUFFICES ASSUME k \notin Stops(v)
               PROVE  FALSE
    OBVIOUS
  <2>1. PICK j \in Stops(v) : j < k /\ k < v[j]
    BY <1>4, <1>6, StopsCover
  <2>2. j \in 1 .. b - a /\ v[j] \in j + 1 .. b - a + 1
    BY <1>1, <1>6, UnmaskScanIs DEF Stops
  <2>3. CASE IsBare(p, j, m)
    <3>1. BareSpan(p, j, v[j] - 1, m)
      BY <1>1, <2>2, <2>3, UnmaskScanIs
    <3>2. k \in j + 1 .. v[j] - 1
      BY <1>4, <2>1, <2>2
    <3>3. p[k] = "1"
      BY <3>1, <3>2 DEF BareSpan
    <3> QED
      BY <1>3, <1>5, <3>3
  <2>4. CASE p[j] = "["
    <3>1. \A h \in j + 1 .. k - 1 : p[h] # "]"
      <4>1. \A h \in j + 1 .. v[j] - 2 : p[h] # "]"
        BY <1>1, <2>2, <2>4, UnmaskScanIs
      <4> QED
        BY <4>1, <2>1, <2>2, <1>4
    <3>2. \A h \in a + j + 1 .. i - 1 : t[h] # "]"
      <4> SUFFICES ASSUME NEW h \in a + j + 1 .. i - 1
                   PROVE  t[h] # "]"
        OBVIOUS
      <4>1. h - a \in j + 1 .. k - 1 /\ h - a \in 1 .. b - a /\ a + (h - a) = h
        BY <1>0, <1>2, <1>4, <2>2
      <4> QED
        BY <1>1, <3>1, <4>1
    <3>3. a + j \in 1 .. Len(t) /\ t[a + j] = "[" /\ a + j < i
      BY <1>0, <1>1, <1>2, <1>4, <2>1, <2>2, <2>4
    <3>4. PICK g \in Stops(u) : g <= a + j /\ a + j < u[g]
      <4>1. CASE a + j \in Stops(u)
        <5>1. u[a + j] \in a + j + 1 .. Len(t) + 1
          BY <3>3, UnmaskScanIs
        <5> QED
          BY <4>1, <5>1, <3>3
      <4>2. CASE a + j \notin Stops(u)
        <5>1. PICK g \in Stops(u) : g < a + j /\ a + j < u[g]
          BY <4>2, <3>3, <1>6, StopsCover
        <5>2. g \in Int
          BY <1>6 DEF Stops
        <5> QED
          BY <5>1, <5>2, <3>3
      <4> QED
        BY <4>1, <4>2
    <3>5. g \in 1 .. Len(t) /\ u[g] \in g + 1 .. Len(t) + 1
      BY <1>6, UnmaskScanIs DEF Stops
    <3>6. u[g] <= i
      <4>1. g < i
        BY <3>3, <3>4, <3>5
      <4> QED
        BY <4>1, <1>6, StopsApart
    <3>7. CASE t[g] = "["
      <4>1. t[u[g] - 1] = "]"
        BY <1>2, <3>5, <3>6, <3>7, UnmaskScanIs
      <4>2. u[g] - 1 # a + j
        BY <3>3, <4>1
      <4>3. u[g] - 1 \in a + j + 1 .. i - 1
        <5> DEFINE x == u[g]
                   y == a + j
        <5>1. x \in Int /\ y \in Int /\ i \in Int
          BY <1>2, <3>3, <3>5
        <5>2. y < x /\ x <= i /\ x - 1 # y
          BY <3>4, <3>6, <4>2
        <5> HIDE DEF x, y
        <5>3. x - 1 \in y + 1 .. i - 1
          BY <5>1, <5>2
        <5> QED
          BY <5>3 DEF x, y
      <4> QED
        BY <3>2, <4>1, <4>3
    <3>8. CASE t[g] # "[" /\ IsBare(t, g, m)
      <4>1. BareSpan(t, g, u[g] - 1, m)
        BY <3>5, <3>8, UnmaskScanIs
      <4>2. a + j \in g + 1 .. u[g] - 1
        BY <3>3, <3>4, <3>5, <3>8
      <4>3. t[a + j] = "1"
        BY <4>1, <4>2 DEF BareSpan
      <4> QED
        BY <3>3, <4>3
    <3>9. CASE t[g] # "[" /\ ~ IsBare(t, g, m)
      <4>1. u[g] = g + 1
        BY <3>5, <3>9, UnmaskScanIs
      <4>2. g = a + j
        BY <3>3, <3>4, <3>5, <4>1
      <4> QED
        BY <3>3, <3>9, <4>2
    <3> QED
      BY <3>7, <3>8, <3>9
  <2>5. CASE p[j] # "[" /\ ~ IsBare(p, j, m)
    <3>1. v[j] = j + 1
      BY <1>1, <2>2, <2>5, UnmaskScanIs
    <3> QED
      BY <1>4, <2>1, <2>2, <3>1
  <2> QED
    BY <2>3, <2>4, <2>5
<1>8. Span(p, k, e - a, m)
  <2>1. ASSUME NEW j \in i .. e
        PROVE  p[j - a] = t[j]
    <3>1. j - a \in 1 .. b - a /\ a + (j - a) = j
      BY <1>0, <1>2
    <3> QED
      BY <1>1, <3>1
  <2>2. \A j \in Int : j \in k .. e - a => a + j \in i .. e /\ p[j] = t[a + j]
    <3> SUFFICES ASSUME NEW j \in k .. e - a
                 PROVE  a + j \in i .. e /\ p[j] = t[a + j]
      OBVIOUS
    <3>1. a + j \in i .. e /\ (a + j) - a = j
      BY <1>0, <1>2, <1>4
    <3> QED
      BY <2>1, <3>1
  <2>3. CASE TokenSpan(t, i, e, m)
    <3>1. /\ e - i - 2 \in DOMAIN m /\ e - i - 2 \in Nat
          /\ t[i] = "[" /\ t[i + 1] = "p" /\ t[e] = "]" /\ \A j \in i + 2 .. e - 1 : t[j] = "1"
      BY <1>0, <2>3 DEF TokenSpan
    <3>2. (e - a) - k - 2 = e - i - 2 /\ e - a <= Len(p)
      BY <1>0, <1>1, <1>2, <1>4
    <3>3. p[k] = "[" /\ p[k + 1] = "p" /\ p[e - a] = "]"
      <4>1. k \in k .. e - a /\ k + 1 \in k .. e - a /\ e - a \in k .. e - a
            /\ a + (k + 1) = i + 1 /\ a + (e - a) = e /\ k + 1 \in Int /\ e - a \in Int
        BY <1>0, <1>2, <1>3, <1>4
      <4>2. p[k + 1] = t[a + (k + 1)] /\ p[e - a] = t[a + (e - a)]
        BY <2>2, <4>1
      <4> QED
        BY <1>5, <3>1, <4>1, <4>2
    <3>4. ASSUME NEW j \in k + 2 .. (e - a) - 1
          PROVE  p[j] = "1"
      <4>1. j \in k .. e - a /\ a + j \in i + 2 .. e - 1
        BY <1>0, <1>2, <1>4
      <4> QED
        BY <2>2, <3>1, <4>1
    <3> QED
      BY <3>1, <3>2, <3>3, <3>4 DEF Span, TokenSpan
  <2>4. CASE BareSpan(t, i, e, m)
    <3>1. /\ e - i \in DOMAIN m /\ t[i] = "p" /\ \A j \in i + 1 .. e : t[j] = "1"
          /\ isBareTokenBoundary(t, i - 1) /\ isBareTokenBoundary(t, e + 1)
      BY <2>4 DEF BareSpan
    <3>2. (e - a) - k = e - i /\ e - a <= Len(p)
      BY <1>0, <1>1, <1>2, <1>4
    <3>3. ASSUME NEW j \in k + 1 .. e - a
          PROVE  p[j] = "1"
      <4>1. j \in k .. e - a /\ a + j \in i + 1 .. e
        BY <1>0, <1>2, <1>4
      <4> QED
        BY <2>2, <3>1, <4>1
    <3>4. isBareTokenBoundary(p, k - 1)
      <4> SUFFICES ASSUME k - 1 \in 1 .. b - a
                   PROVE  p[k - 1] \notin Word
        BY <1>2 DEF isBareTokenBoundary
      <4>1. a + (k - 1) = i - 1 /\ i - 1 \in 1 .. Len(t)
        BY <1>0, <1>2, <1>4
      <4> QED
        BY <1>0, <1>1, <3>1, <4>1 DEF isBareTokenBoundary
    <3>5. isBareTokenBoundary(p, (e - a) + 1)
      <4> SUFFICES ASSUME (e - a) + 1 \in 1 .. b - a
                   PROVE  p[(e - a) + 1] \notin Word
        BY <1>2 DEF isBareTokenBoundary
      <4>1. a + ((e - a) + 1) = e + 1 /\ e + 1 \in 1 .. Len(t)
        BY <1>0, <1>2, <1>4
      <4> QED
        BY <1>0, <1>1, <3>1, <4>1 DEF isBareTokenBoundary
    <3> QED
      BY <1>5, <3>1, <3>2, <3>3, <3>4, <3>5 DEF Span, BareSpan
  <2> QED
    BY <2>3, <2>4 DEF Span
<1>9. e - a \in 1 .. Len(p)
  BY <1>1, <1>4
<1> QED
  BY <1>1, <1>7, <1>8, <1>9, UnmaskIs DEF Span, p

\* What is held back is in a buffer and ends in a placeholder's symbols.
LEMMA HeldIs ==
  ASSUME NEW m \in Mappings, NEW f \in Texts
  PROVE  /\ Cut(f, m) \in 1 .. Len(f) + 1 /\ \A i \in Held(f, m) : Cut(f, m) <= i
         /\ Cut(f, m) \in Held(f, m) \cup {Len(f) + 1}
         /\ \A i \in bareAliasHoldStart(f, m) :
              /\ i \in 1 .. Len(f) /\ isBareTokenBoundary(f, i - 1)
              /\ \A j \in i .. Len(f) : f[j] \in {"p", "1"}
<1>0. Len(m) \in Nat /\ DOMAIN m = 1 .. Len(m) /\ Len(f) \in Nat /\ DOMAIN f = 1 .. Len(f)
  BY MappingIs, TextIs
<1> DEFINE H == Held(f, m) \cup {Len(f) + 1}
<1>1. H \in SUBSET (1 .. Len(f) + 1) /\ H # {}
  BY <1>0 DEF Held, openBracket, bareAliasHoldStart
<1>2. H \in SUBSET Nat
  BY <1>0, <1>1
<1>3. Min(H) \in H /\ \A k \in H : Min(H) <= k
  BY <1>1, <1>2, LeastOf, Zenon
<1>4. Cut(f, m) = Min(H)
  BY DEF Cut
<1>5. /\ Cut(f, m) \in 1 .. Len(f) + 1 /\ Cut(f, m) \in Held(f, m) \cup {Len(f) + 1}
      /\ \A i \in Held(f, m) : Cut(f, m) <= i
  BY <1>1, <1>3, <1>4
<1>6. ASSUME NEW i \in bareAliasHoldStart(f, m)
      PROVE  /\ i \in 1 .. Len(f) /\ isBareTokenBoundary(f, i - 1)
             /\ \A j \in i .. Len(f) : f[j] \in {"p", "1"}
  <2>1. i \in 1 .. Len(f) /\ isBareTokenBoundary(f, i - 1)
    BY <1>0 DEF bareAliasHoldStart
  <2>2. PICK n \in DOMAIN m : IsPrefix(SubSeq(f, i, Len(f)), Bare(n))
    BY DEF bareAliasHoldStart
  <2> DEFINE u == SubSeq(f, i, Len(f))
             b == Bare(n)
  <2>3. u \in Texts /\ Len(u) = Len(f) - i + 1 /\ \A j \in 1 .. Len(f) - i + 1 : u[j] = f[i + j - 1]
    <3>1. i \in 1 .. Len(f) + 1 /\ Len(f) \in i - 1 .. Len(f)
      BY <1>0, <2>1
    <3> QED
      BY <3>1, CutIs
  <2>4. b \in Texts /\ Len(b) = n + 1 /\ b[1] = "p" /\ \A j \in 2 .. n + 1 : b[j] = "1"
    <3>1. n \in Nat
      BY <1>0
    <3> QED
      BY <3>1, BareIs
  <2> HIDE DEF u, b
  <2>5. Len(u) <= Len(b) /\ SubSeq(u, 1, Len(u)) = SubSeq(b, 1, Len(u))
    BY <2>2 DEF IsPrefix, u, b
  <2>6. ASSUME NEW j \in 1 .. Len(u)
        PROVE  u[j] = b[j]
    <3>1. SubSeq(u, 1, Len(u))[j] = u[1 + j - 1]
      <4>1. 1 \in 1 .. Len(u) + 1 /\ Len(u) \in 1 - 1 .. Len(u) /\ j \in 1 .. Len(u) - 1 + 1
        BY <2>1, <2>3
      <4> QED
        BY <2>3, <4>1, CutIs
    <3>2. SubSeq(b, 1, Len(u))[j] = b[1 + j - 1]
      <4>1. 1 \in 1 .. Len(b) + 1 /\ Len(u) \in 1 - 1 .. Len(b) /\ j \in 1 .. Len(u) - 1 + 1
        BY <1>0, <2>1, <2>3, <2>4, <2>5
      <4> QED
        BY <2>4, <4>1, CutIs
    <3> QED
      BY <2>5, <3>1, <3>2
  <2>7. ASSUME NEW j \in i .. Len(f)
        PROVE  f[j] \in {"p", "1"}
    <3> DEFINE h == j - i + 1
    <3>1. h \in 1 .. Len(u) /\ i + h - 1 = j /\ h \in 1 .. Len(f) - i + 1
      BY <1>0, <2>1, <2>3
    <3>2. f[j] = b[h]
      BY <2>3, <2>6, <3>1
    <3>3. h = 1 \/ h \in 2 .. n + 1
      BY <1>0, <2>1, <2>3, <2>4, <2>5, <3>1
    <3> QED
      BY <2>4, <3>2, <3>3
  <2> QED
    BY <2>1, <2>7
<1> QED
  BY <1>5, <1>6

\* bareAliasHoldStart looks for the last such position; there is only one.
LEMMA HoldIsUnique ==
  ASSUME NEW m \in Mappings, NEW t \in Texts,
         NEW i \in bareAliasHoldStart(t, m), NEW j \in bareAliasHoldStart(t, m)
  PROVE  i = j
<1>1. ASSUME NEW x \in bareAliasHoldStart(t, m), NEW y \in bareAliasHoldStart(t, m), x < y
      PROVE  FALSE
  <2>1. /\ x \in 1 .. Len(t) /\ y \in 1 .. Len(t) /\ isBareTokenBoundary(t, y - 1)
        /\ \A k \in x .. Len(t) : t[k] \in {"p", "1"}
    BY HeldIs
  <2>2. y - 1 \in x .. Len(t) /\ y - 1 \in DOMAIN t
    BY <1>1, <2>1, TextIs
  <2> QED
    BY <2>1, <2>2 DEF isBareTokenBoundary, Word
<1>2. i \in Int /\ j \in Int
  BY TextIs DEF bareAliasHoldStart
<1> QED
  BY <1>1, <1>2

\* The buffer is never cut inside a placeholder, whatever the answer goes on with.
LEMMA CutKeeps ==
  ASSUME NEW m \in Mappings, NEW t \in Texts, NEW a \in 0 .. Len(t), NEW b \in a .. Len(t),
         NEW i \in 1 .. Len(t), NEW e \in 1 .. Len(t), Span(t, i, e, m), a < i,
         i < a + Cut(SubSeq(t, a + 1, b), m)
  PROVE  e < a + Cut(SubSeq(t, a + 1, b), m)
<1> DEFINE f == SubSeq(t, a + 1, b)
           c == Cut(f, m)
           k == i - a
<1>0. Len(m) \in Nat /\ DOMAIN m = 1 .. Len(m) /\ Len(t) \in Nat /\ DOMAIN t = 1 .. Len(t)
  BY MappingIs, TextIs
<1>1. f \in Texts /\ Len(f) = b - a /\ \A j \in 1 .. b - a : f[j] = t[a + j]
  <2>1. a + 1 \in 1 .. Len(t) + 1 /\ b \in (a + 1) - 1 .. Len(t)
    BY <1>0
  <2>2. f \in Texts /\ Len(f) = b - (a + 1) + 1
        /\ \A j \in 1 .. b - (a + 1) + 1 : f[j] = t[(a + 1) + j - 1]
    BY <2>1, CutIs
  <2>3. b - (a + 1) + 1 = b - a /\ \A j \in 1 .. b - a : (a + 1) + j - 1 = a + j
    BY <1>0
  <2> HIDE DEF f
  <2> QED
    BY <2>2, <2>3
<1> HIDE DEF f
<1>2. /\ c \in 1 .. b - a + 1 /\ \A j \in Held(f, m) : c <= j
      /\ c \in Held(f, m) \cup {b - a + 1}
  BY <1>1, HeldIs
<1>3. DOMAIN f = 1 .. b - a
  BY <1>1, TextIs
<1>4. i < e /\ t[i] \in {"[", "p"} /\ m # <<>> /\ \A j \in i + 1 .. e : t[j] # "["
  BY SpanIs
<1> SUFFICES ASSUME a + c <= e, i < a + c
             PROVE  FALSE
  BY <1>0, <1>2 DEF f
<1> HIDE DEF c
<1>5. k \in 1 .. b - a /\ a + k = i /\ k < c
  BY <1>0, <1>2
<1>6. k \notin Held(f, m)
  BY <1>2, <1>5
<1>7. Held(f, m) = openBracket(f) \cup bareAliasHoldStart(f, m)
  BY <1>4 DEF Held
<1>8. CASE c = b - a + 1
  <2>0. b < e
    BY <1>0, <1>8
  <2>1. CASE TokenSpan(t, i, e, m)
    <3>1. /\ t[i] = "[" /\ t[i + 1] = "p" /\ \A j \in i + 2 .. e - 1 : t[j] = "1"
      BY <2>1 DEF TokenSpan
    <3>2. ASSUME NEW j \in k + 1 .. b - a
          PROVE  f[j] \notin {"[", "]"}
      <4>1. a + j \in i + 1 .. e - 1 /\ f[j] = t[a + j]
        BY <1>0, <1>1, <1>5, <2>0
      <4>2. t[a + j] \in {"p", "1"}
        BY <3>1, <4>1
      <4> QED
        BY <4>1, <4>2
    <3>3. f[k] = "["
      BY <1>1, <1>5, <3>1
    <3>4. k \in openBracket(f)
      BY <1>1, <1>3, <1>5, <3>2, <3>3 DEF openBracket
    <3> QED
      BY <1>6, <1>7, <3>4
  <2>2. CASE BareSpan(t, i, e, m)
    <3>1. /\ e - i \in 1 .. Len(m) /\ t[i] = "p" /\ \A j \in i + 1 .. e : t[j] = "1"
          /\ isBareTokenBoundary(t, i - 1)
      BY <1>0, <2>2 DEF BareSpan
    <3>2. isBareTokenBoundary(f, k - 1)
      <4> SUFFICES ASSUME k - 1 \in 1 .. b - a
                   PROVE  f[k - 1] \notin Word
        BY <1>3 DEF isBareTokenBoundary
      <4>1. a + (k - 1) = i - 1 /\ i - 1 \in 1 .. Len(t)
        BY <1>0, <1>5
      <4> QED
        BY <1>0, <1>1, <3>1, <4>1 DEF isBareTokenBoundary
    <3>3. IsPrefix(SubSeq(f, k, Len(f)), Bare(e - i))
      <4> DEFINE u == SubSeq(f, k, Len(f))
                 w == Bare(e - i)
      <4>1. u \in Texts /\ Len(u) = (b - a) - k + 1
            /\ \A j \in 1 .. (b - a) - k + 1 : u[j] = f[k + j - 1]
        <5>1. k \in 1 .. Len(f) + 1 /\ Len(f) \in k - 1 .. Len(f)
          BY <1>0, <1>1, <1>5
        <5> QED
          BY <1>1, <5>1, CutIs
      <4>2. w \in Texts /\ Len(w) = (e - i) + 1 /\ w[1] = "p" /\ \A j \in 2 .. (e - i) + 1 : w[j] = "1"
        <5>1. e - i \in Nat
          BY <3>1
        <5> QED
          BY <5>1, BareIs
      <4> HIDE DEF u, w
      <4>3. Len(u) <= Len(w) /\ Len(u) \in Nat /\ Len(w) \in Nat
        BY <1>0, <1>5, <2>0, <3>1, <4>1, <4>2
      <4>4. ASSUME NEW j \in 1 .. Len(u)
            PROVE  u[j] = w[j]
        <5>1. k + j - 1 \in 1 .. b - a /\ u[j] = f[k + j - 1] /\ a + (k + j - 1) = i + j - 1
          BY <1>0, <1>5, <4>1
        <5>2. u[j] = t[i + j - 1]
          BY <1>1, <5>1
        <5>3. CASE j = 1
          BY <3>1, <4>2, <5>2, <5>3
        <5>4. CASE j \in 2 .. Len(u)
          <6>1. i + j - 1 \in i + 1 .. e /\ j \in 2 .. (e - i) + 1
            BY <1>0, <1>5, <4>2, <4>3, <5>4
          <6> QED
            BY <3>1, <4>2, <5>2, <6>1
        <5> QED
          BY <4>3, <5>3, <5>4
      <4>5. SubSeq(u, 1, Len(u)) = SubSeq(w, 1, Len(u))
        <5>1. SubSeq(u, 1, Len(u)) \in Texts /\ Len(SubSeq(u, 1, Len(u))) = Len(u)
              /\ \A j \in 1 .. Len(u) : SubSeq(u, 1, Len(u))[j] = u[j]
          <6>1. 1 \in 1 .. Len(u) + 1 /\ Len(u) \in 1 - 1 .. Len(u) /\ Len(u) - 1 + 1 = Len(u)
                /\ \A j \in 1 .. Len(u) : 1 + j - 1 = j
            BY <4>3
          <6> QED
            BY <4>1, <6>1, CutIs
        <5>2. SubSeq(w, 1, Len(u)) \in Texts /\ Len(SubSeq(w, 1, Len(u))) = Len(u)
              /\ \A j \in 1 .. Len(u) : SubSeq(w, 1, Len(u))[j] = w[j]
          <6>1. 1 \in 1 .. Len(w) + 1 /\ Len(u) \in 1 - 1 .. Len(w) /\ Len(u) - 1 + 1 = Len(u)
                /\ \A j \in 1 .. Len(u) : 1 + j - 1 = j
            BY <4>3
          <6> QED
            BY <4>2, <6>1, CutIs
        <5> QED
          BY <4>4, <5>1, <5>2, SeqEqual DEF Texts
      <4>6. IsPrefix(u, w)
        BY <4>3, <4>5 DEF IsPrefix
      <4> QED
        BY <4>6 DEF u, w
    <3>4. k \in bareAliasHoldStart(f, m)
      BY <1>0, <1>3, <1>5, <3>1, <3>2, <3>3 DEF bareAliasHoldStart
    <3> QED
      BY <1>6, <1>7, <3>4
  <2> QED
    BY <2>1, <2>2 DEF Span
<1>9. CASE c \in openBracket(f)
  <2>1. c \in 1 .. b - a /\ f[c] = "["
    BY <1>3, <1>9 DEF openBracket
  <2>2. t[a + c] = "[" /\ a + c \in i + 1 .. e
    BY <1>0, <1>1, <1>5, <2>1
  <2> QED
    BY <1>4, <2>2
<1>10. CASE c \in bareAliasHoldStart(f, m)
  <2>1. /\ c \in 1 .. b - a /\ isBareTokenBoundary(f, c - 1)
        /\ \A j \in c .. b - a : f[j] \in {"p", "1"}
    BY <1>1, <1>10, HeldIs
  <2>2. CASE BareSpan(t, i, e, m)
    <3>1. c - 1 \in k .. b - a /\ a + (c - 1) \in i .. e
      BY <1>0, <1>5, <2>1
    <3>2. t[a + (c - 1)] \in {"p", "1"}
      BY <1>0, <2>2, <3>1 DEF BareSpan
    <3>3. f[c - 1] = t[a + (c - 1)] /\ c - 1 \in DOMAIN f
      BY <1>0, <1>1, <1>3, <1>5, <2>1
    <3> QED
      BY <2>1, <3>2, <3>3 DEF isBareTokenBoundary, Word
  <2>3. CASE TokenSpan(t, i, e, m)
    <3>1. t[e] = "]" /\ t[i] = "[" /\ t[i + 1] = "p" /\ \A j \in i + 2 .. e - 1 : t[j] = "1"
          /\ e - i - 2 \in 1 .. Len(m)
      BY <1>0, <2>3 DEF TokenSpan
    <3>2. CASE e <= b
      <4>1. e - a \in c .. b - a /\ a + (e - a) = e /\ e - a \in 1 .. b - a
        BY <1>0, <1>5, <2>1, <3>2
      <4>2. f[e - a] = "]"
        BY <1>1, <3>1, <4>1
      <4> QED
        BY <2>1, <4>1, <4>2
    <3>3. CASE b < e
      <4>1. ASSUME NEW j \in k + 1 .. b - a
            PROVE  f[j] \notin {"[", "]"}
        <5>1. a + j \in i + 1 .. e - 1 /\ f[j] = t[a + j]
          BY <1>0, <1>1, <1>5, <3>3
        <5>2. t[a + j] \in {"p", "1"}
          BY <3>1, <5>1
        <5> QED
          BY <5>1, <5>2
      <4>2. f[k] = "["
        BY <1>1, <1>5, <3>1
      <4>3. k \in openBracket(f)
        BY <1>1, <1>3, <1>5, <4>1, <4>2 DEF openBracket
      <4> QED
        BY <1>6, <1>7, <4>3
    <3> QED
      BY <1>0, <3>2, <3>3
  <2> QED
    BY <2>2, <2>3 DEF Span
<1> QED
  BY <1>2, <1>7, <1>8, <1>9, <1>10

-----------------------------------------------------------------------------
(* Replaced.                                                               *)

\* Pieces can be chained from the right: the function that Replaced defines by
\* recursion exists.
LEMMA ChainExists ==
  ASSUME NEW n \in Nat, NEW next \in [1 .. n -> 2 .. n + 1], \A i \in 1 .. n : next[i] > i,
         NEW piece \in [1 .. n -> Texts]
  PROVE  \E f \in [1 .. n + 1 -> Texts] :
           f[n + 1] = <<>> /\ \A i \in 1 .. n : f[i] = piece[i] \o f[next[i]]
<1> DEFINE Fits(f, k) == f[n + 1] = <<>> /\ \A i \in k .. n : f[i] = piece[i] \o f[next[i]]
           S == {k \in 1 .. n + 1 : \E f \in [k .. n + 1 -> Texts] : Fits(f, k)}
<1>1. ASSUME NEW k \in 1 .. n + 1, \A j \in k + 1 .. n + 1 : j \in S
      PROVE  k \in S
  <2>1. CASE k = n + 1
    <3> DEFINE f == [i \in k .. n + 1 |-> <<>>]
    <3>1. f \in [k .. n + 1 -> Texts]
      BY EmptySeq DEF Texts
    <3>2. Fits(f, k)
      <4>1. n + 1 \in k .. n + 1 /\ k .. n = {}
        BY <2>1
      <4>2. f[n + 1] = <<>>
        BY <4>1, Zenon
      <4> QED
        BY <4>1, <4>2
    <3> HIDE DEF f, Fits
    <3> QED
      BY <3>1, <3>2
  <2>2. CASE k <= n
    <3>0. k + 1 \in k + 1 .. n + 1 /\ k + 1 \in 1 .. n + 1
      BY <2>2
    <3>1. k + 1 \in S
      <4> HIDE DEF S
      <4> QED
        BY <1>1, <3>0
    <3>2. PICK f \in [k + 1 .. n + 1 -> Texts] : Fits(f, k + 1)
      BY <3>1
    <3> DEFINE g == [i \in k .. n + 1 |-> IF i = k THEN piece[k] \o f[next[k]] ELSE f[i]]
    <3>3. next[k] \in k + 1 .. n + 1 /\ k \in 1 .. n
      BY <2>2
    <3>4. piece[k] \o f[next[k]] \in Texts
      BY <3>2, <3>3, CatIs
    <3>5. g \in [k .. n + 1 -> Texts]
      BY <3>2, <3>4
    <3>6. g[k] = piece[k] \o f[next[k]] /\ \A i \in k + 1 .. n + 1 : g[i] = f[i]
      BY <2>2
    <3> HIDE DEF g
    <3>7. g[n + 1] = <<>>
      BY <2>2, <3>2, <3>6
    <3>8. ASSUME NEW i \in k .. n
          PROVE  g[i] = piece[i] \o g[next[i]]
      <4>1. next[i] \in k + 1 .. n + 1
        BY <2>2
      <4>2. CASE i = k
        BY <3>6, <4>1, <4>2
      <4>3. CASE i # k
        <5>1. i \in k + 1 .. n /\ i \in k + 1 .. n + 1
          BY <4>3
        <5>2. f[i] = piece[i] \o f[next[i]]
          BY <3>2, <5>1
        <5>3. g[i] = f[i] /\ g[next[i]] = f[next[i]]
          BY <3>6, <4>1, <5>1
        <5> QED
          BY <5>2, <5>3
      <4> QED
        BY <4>2, <4>3
    <3>9. Fits(g, k)
      BY <3>7, <3>8
    <3> HIDE DEF Fits
    <3> QED
      BY <3>5, <3>9
  <2>3. k <= n \/ k = n + 1
    OBVIOUS
  <2> HIDE DEF S
  <2> QED
    BY <2>1, <2>2, <2>3
<1>2. 1 .. n + 1 \subseteq S
  <2> HIDE DEF S
  <2>1. n + 1 \in Nat
    OBVIOUS
  <2> QED
    BY <1>1, <2>1, Downwards
<1>3. 1 \in S
  <2>1. 1 \in 1 .. n + 1
    OBVIOUS
  <2> HIDE DEF S
  <2> QED
    BY <1>2, <2>1
<1> QED
  BY <1>3

\* by replaces spans of t, at most one from each position.
Replaces(by, t) ==
  /\ \A s \in DOMAIN by : /\ s[1] \in 1 .. Len(t) /\ s[2] \in s[1] .. Len(t)
                          /\ by[s] \in Texts
  /\ \A s, u \in DOMAIN by : s[1] = u[1] => s = u

\* rest[i] is what becomes of t from i on.
Replacing(rest, t, by) ==
  /\ rest \in [1 .. Len(t) + 1 -> Texts] /\ rest[Len(t) + 1] = <<>>
  /\ \A s \in DOMAIN by : rest[s[1]] = by[s] \o rest[s[2] + 1]
  /\ \A i \in 1 .. Len(t) :
       (\A s \in DOMAIN by : s[1] # i) => rest[i] = <<t[i]>> \o rest[i + 1]

\* Replaced is the chain of the symbols and the replaced spans.
LEMMA ReplacedRule ==
  ASSUME NEW t \in Texts, NEW by, Replaces(by, t)
  PROVE  \E rest : Replacing(rest, t, by) /\ Replaced(t, by) = rest[1]
<1> DEFINE n == Len(t)
           here(i) == {s \in DOMAIN by : s[1] = i}
           span(i) == CHOOSE s \in here(i) : TRUE
           body(g, i) == IF i > n THEN <<>>
                         ELSE IF here(i) = {} THEN <<t[i]>> \o g[i + 1]
                         ELSE by[span(i)] \o g[span(i)[2] + 1]
           P(g) == g = [i \in 1 .. n + 1 |-> body(g, i)]
           rest == CHOOSE g : P(g)
           next == [i \in 1 .. n |-> IF here(i) = {} THEN i + 1 ELSE span(i)[2] + 1]
           piece == [i \in 1 .. n |-> IF here(i) = {} THEN <<t[i]>> ELSE by[span(i)]]
<1>0. n \in Nat /\ \A i \in 1 .. n : t[i] \in Chars
  BY TextIs
<1>1. ASSUME NEW i, here(i) # {}
      PROVE  span(i) \in DOMAIN by /\ span(i)[1] = i
  <2>1. span(i) \in here(i)
    BY <1>1, Zenon
  <2> QED
    BY <2>1
<1>2. Replaced(t, by) = rest[1]
  BY DEF Replaced
<1> HIDE DEF span
<1>3. ASSUME NEW i \in 1 .. n
      PROVE  next[i] \in i + 1 .. n + 1 /\ piece[i] \in Texts
  <2>1. CASE here(i) = {}
    BY <1>0, <2>1, OneIs
  <2>2. CASE here(i) # {}
    <3>1. span(i) \in DOMAIN by /\ span(i)[1] = i
      BY <1>1, <2>2
    <3>2. span(i)[2] \in i .. n /\ by[span(i)] \in Texts
      BY <3>1 DEF Replaces
    <3>3. next[i] = span(i)[2] + 1 /\ piece[i] = by[span(i)]
      BY <2>2
    <3> QED
      BY <1>0, <3>2, <3>3
  <2> QED
    BY <2>1, <2>2
<1>4. next \in [1 .. n -> 2 .. n + 1] /\ piece \in [1 .. n -> Texts] /\ \A i \in 1 .. n : next[i] > i
  <2>1. \A i \in 1 .. n : next[i] \in 2 .. n + 1 /\ next[i] > i /\ piece[i] \in Texts
    <3> SUFFICES ASSUME NEW i \in 1 .. n
                 PROVE  next[i] \in 2 .. n + 1 /\ next[i] > i /\ piece[i] \in Texts
      OBVIOUS
    <3>1. next[i] \in i + 1 .. n + 1 /\ piece[i] \in Texts
      BY <1>3
    <3> HIDE DEF next, piece, n
    <3> QED
      BY <1>0, <3>1
  <2>2. DOMAIN next = 1 .. n /\ DOMAIN piece = 1 .. n
        /\ next = [i \in 1 .. n |-> next[i]] /\ piece = [i \in 1 .. n |-> piece[i]]
    OBVIOUS
  <2> HIDE DEF next, piece, n
  <2> QED
    BY <2>1, <2>2
<1>5. PICK f \in [1 .. n + 1 -> Texts] :
        f[n + 1] = <<>> /\ \A i \in 1 .. n : f[i] = piece[i] \o f[next[i]]
  <2> HIDE DEF next, piece, n
  <2> QED
    BY <1>0, <1>4, ChainExists
<1>6. ASSUME NEW g, NEW i \in 1 .. n
      PROVE  body(g, i) = piece[i] \o g[next[i]]
  <2>1. ~ (i > n)
    BY <1>0
  <2>2. CASE here(i) = {}
    <3>1. piece[i] = <<t[i]>> /\ next[i] = i + 1 /\ body(g, i) = <<t[i]>> \o g[i + 1]
      BY <2>1, <2>2
    <3> QED
      BY <3>1
  <2>3. CASE here(i) # {}
    <3>1. piece[i] = by[span(i)] /\ next[i] = span(i)[2] + 1
          /\ body(g, i) = by[span(i)] \o g[span(i)[2] + 1]
      BY <2>1, <2>3
    <3> QED
      BY <3>1
  <2> QED
    BY <2>2, <2>3
<1>7. ASSUME NEW g
      PROVE  body(g, n + 1) = <<>>
  BY <1>0
<1> HIDE DEF body
<1>8. \E g : P(g)
  <2>1. \A i \in 1 .. n + 1 : f[i] = body(f, i)
    <3> SUFFICES ASSUME NEW i \in 1 .. n + 1
                 PROVE  f[i] = body(f, i)
      OBVIOUS
    <3>1. i \in 1 .. n \/ i = n + 1
      BY <1>0
    <3> HIDE DEF n, next, piece
    <3> QED
      BY <1>5, <1>6, <1>7, <3>1
  <2>2. f = [i \in 1 .. n + 1 |-> body(f, i)]
    <3> HIDE DEF n
    <3> QED
      BY <1>5, <2>1
  <2> QED
    BY <2>2
<1>9. P(rest)
  BY <1>8, Zenon
<1> HIDE DEF rest
<1>10. DOMAIN rest = 1 .. n + 1 /\ \A i \in 1 .. n + 1 : rest[i] = body(rest, i)
  BY <1>9, Zenon
<1>11. rest[n + 1] = <<>> /\ \A i \in 1 .. n : rest[i] = piece[i] \o rest[next[i]]
  <2>1. n + 1 \in 1 .. n + 1 /\ \A i \in 1 .. n : i \in 1 .. n + 1
    BY <1>0
  <2> HIDE DEF n, next, piece
  <2> QED
    BY <1>6, <1>7, <1>10, <2>1
<1>12. rest \in [1 .. n + 1 -> Texts]
  <2> DEFINE S == {i \in 1 .. n + 1 : rest[i] \in Texts}
  <2>1. ASSUME NEW i \in 1 .. n + 1, \A j \in i + 1 .. n + 1 : j \in S
        PROVE  i \in S
    <3>1. CASE i = n + 1
      BY <1>11, <3>1, EmptySeq DEF Texts
    <3>2. CASE i \in 1 .. n
      <4>1. next[i] \in i + 1 .. n + 1 /\ piece[i] \in Texts
        BY <1>3, <3>2
      <4>2. rest[next[i]] \in Texts
        BY <2>1, <4>1
      <4>3. rest[i] \in Texts
        <5>1. piece[i] \o rest[next[i]] \in Texts
          BY <4>1, <4>2, CatIs
        <5> QED
          BY <1>11, <3>2, <5>1
      <4> QED
        BY <4>3
    <3> QED
      BY <1>0, <3>1, <3>2
  <2>2. 1 .. n + 1 \subseteq S
    <3>1. n + 1 \in Nat
      BY <1>0
    <3> HIDE DEF S, n
    <3> QED
      BY <2>1, <3>1, Downwards
  <2>3. rest = [i \in 1 .. n + 1 |-> rest[i]]
    BY <1>9
  <2> HIDE DEF n
  <2> QED
    BY <2>2, <2>3
<1>13. ASSUME NEW s \in DOMAIN by
       PROVE  rest[s[1]] = by[s] \o rest[s[2] + 1]
  <2>1. s[1] \in 1 .. n /\ s \in here(s[1])
    BY DEF Replaces
  <2>2. span(s[1]) = s
    BY <1>1, <2>1 DEF Replaces
  <2>3. next[s[1]] = s[2] + 1 /\ piece[s[1]] = by[s]
    BY <2>1, <2>2
  <2> HIDE DEF n, next, piece
  <2> QED
    BY <1>11, <2>1, <2>3
<1>14. ASSUME NEW i \in 1 .. n, \A s \in DOMAIN by : s[1] # i
       PROVE  rest[i] = <<t[i]>> \o rest[i + 1]
  <2>1. here(i) = {}
    BY <1>14
  <2>2. next[i] = i + 1 /\ piece[i] = <<t[i]>>
    BY <2>1
  <2> HIDE DEF n, next, piece
  <2> QED
    BY <1>11, <2>2
<1>15. Replacing(rest, t, by)
  BY <1>11, <1>12, <1>13, <1>14 DEF Replacing
<1> QED
  BY <1>2, <1>15

-----------------------------------------------------------------------------
(* Masking.                                                                *)

\* What a request's text and entities are.
LEMMA RequestIs ==
  ASSUME NEW r, Request(r)
  PROVE  /\ r.text \in Texts /\ Len(r.text) \in Nat /\ DOMAIN r.text = 1 .. Len(r.text)
         /\ \A i \in 1 .. Len(r.text) : EndsAt(r, i) \subseteq i .. Len(r.text)
<1>1. STRING \subseteq Chars
  BY DEF Chars
<1>2. r.text \in Texts
  BY <1>1, SeqMonotonic DEF Request, Texts
<1>3. Len(r.text) \in Nat /\ DOMAIN r.text = 1 .. Len(r.text)
  BY <1>2, TextIs
<1> QED
  BY <1>2, <1>3 DEF Request, EndsAt

\* ApplyMask's loop is a scan of the text.
LEMMA MaskScanIs ==
  ASSUME NEW r, Request(r)
  PROVE  /\ IsScan(MaskScan(r)) /\ DOMAIN MaskScan(r) = 1 .. Len(r.text)
         /\ \A i \in 1 .. Len(r.text) :
              /\ MaskScan(r)[i] \in i + 1 .. Len(r.text) + 1
              /\ EndsAt(r, i) = {} => MaskScan(r)[i] = i + 1
<1> DEFINE n == Len(r.text)
<1>0. n \in Nat /\ DOMAIN r.text = 1 .. n /\ \A i \in 1 .. n : EndsAt(r, i) \subseteq i .. n
  BY RequestIs
<1> HIDE DEF n
<1>1. ASSUME NEW i \in 1 .. n
      PROVE  MaskScan(r)[i] \in i + 1 .. n + 1 /\ (EndsAt(r, i) = {} => MaskScan(r)[i] = i + 1)
  <2>1. MaskScan(r)[i] = IF EndsAt(r, i) = {} THEN i + 1 ELSE Max(EndsAt(r, i)) + 1
    BY <1>0 DEF MaskScan
  <2>2. CASE EndsAt(r, i) # {}
    <3>1. EndsAt(r, i) \in SUBSET (0 .. n)
      BY <1>0
    <3>2. Max(EndsAt(r, i)) \in EndsAt(r, i)
      BY <1>0, <2>2, <3>1, GreatestOf
    <3>3. Max(EndsAt(r, i)) \in i .. n
      BY <1>0, <3>2
    <3> HIDE DEF n
    <3> QED
      BY <1>0, <2>1, <2>2, <3>3
  <2> QED
    BY <1>0, <2>1, <2>2
<1>2. DOMAIN MaskScan(r) = 1 .. n /\ MaskScan(r) = [i \in 1 .. n |-> MaskScan(r)[i]]
  BY <1>0 DEF MaskScan
<1>3. MaskScan(r) \in [1 .. n -> 2 .. n + 1] /\ \A i \in 1 .. n : MaskScan(r)[i] > i
  <2>1. \A i \in 1 .. n : MaskScan(r)[i] \in 2 .. n + 1 /\ MaskScan(r)[i] > i
    BY <1>0, <1>1
  <2> QED
    BY <1>2, <2>1
<1> QED
  BY <1>0, <1>1, <1>2, <1>3 DEF IsScan, n

\* What is kept of r's entities: one span from each stop that has any.
LEMMA KeptIs ==
  ASSUME NEW r, Request(r)
  PROVE  /\ \A s \in Kept(r) :
              /\ s[1] \in Stops(MaskScan(r)) /\ EndsAt(r, s[1]) # {}
              /\ s = <<s[1], s[2]>> /\ s[2] + 1 = MaskScan(r)[s[1]]
              /\ s[1] \in 1 .. Len(r.text) /\ s[2] \in s[1] .. Len(r.text)
         /\ \A i \in Stops(MaskScan(r)) :
              EndsAt(r, i) # {} => <<i, MaskScan(r)[i] - 1>> \in Kept(r)
         /\ \A s, u \in Kept(r) : s[1] = u[1] => s = u
         /\ IsFiniteSet(Kept(r))
         /\ \A s \in Kept(r) : Value(r.text, s) \in Texts
<1> DEFINE n == Len(r.text)
           K == MaskScan(r)
<1>0. n \in Nat /\ r.text \in Texts
  BY RequestIs
<1>1. \A i \in Stops(K) : i \in 1 .. n
  BY MaskScanIs DEF Stops
<1>2. \A i \in Stops(K) : K[i] \in i + 1 .. n + 1
  BY <1>1, MaskScanIs
<1>3. \A s : s \in Kept(r) <=> \E i \in Stops(K) : EndsAt(r, i) # {} /\ s = <<i, K[i] - 1>>
  BY DEF Kept
<1> HIDE DEF n, K
<1>4. ASSUME NEW s \in Kept(r)
      PROVE  /\ s[1] \in Stops(K) /\ EndsAt(r, s[1]) # {}
             /\ s = <<s[1], s[2]>> /\ s[2] + 1 = K[s[1]]
             /\ s[1] \in 1 .. n /\ s[2] \in s[1] .. n
  <2>1. PICK i \in Stops(K) : EndsAt(r, i) # {} /\ s = <<i, K[i] - 1>>
    BY <1>3
  <2>2. i \in 1 .. n /\ K[i] \in i + 1 .. n + 1
    BY <1>1, <1>2
  <2> QED
    BY <1>0, <2>1, <2>2
<1>5. \A i \in Stops(K) : EndsAt(r, i) # {} => <<i, K[i] - 1>> \in Kept(r)
  BY <1>3
<1>6. ASSUME NEW s \in Kept(r), NEW u \in Kept(r), s[1] = u[1]
      PROVE  s = u
  <2>1. /\ s[1] \in 1 .. n /\ s[2] \in s[1] .. n /\ s[2] + 1 = K[s[1]] /\ s = <<s[1], s[2]>>
        /\ u[2] \in u[1] .. n /\ u[2] + 1 = K[u[1]] /\ u = <<u[1], u[2]>>
    BY <1>4
  <2>2. s[2] = u[2]
    BY <1>0, <1>6, <2>1
  <2> QED
    BY <1>6, <2>1, <2>2, Zenon
<1>7. IsFiniteSet(Kept(r))
  <2>1. IsFiniteSet(1 .. n)
    BY <1>0, FS_Interval
  <2>2. IsFiniteSet((1 .. n) \X (1 .. n))
    BY <2>1, FS_Product, Zenon
  <2>3. ASSUME NEW s \in Kept(r)
        PROVE  s \in (1 .. n) \X (1 .. n)
    <3>1. s = <<s[1], s[2]>> /\ s[1] \in 1 .. n /\ s[2] \in s[1] .. n
      BY <1>4
    <3>2. s[2] \in 1 .. n
      BY <1>0, <3>1
    <3> QED
      BY <3>1, <3>2
  <2>4. Kept(r) \in SUBSET ((1 .. n) \X (1 .. n))
    BY <2>3
  <2> QED
    BY <2>2, <2>4, FS_Subset, Zenon
<1>8. ASSUME NEW s \in Kept(r)
      PROVE  Value(r.text, s) \in Texts
  <2>1. s[1] \in 1 .. n /\ s[2] \in s[1] .. n
    BY <1>4
  <2>2. s[1] \in 1 .. n + 1 /\ s[2] \in s[1] - 1 .. n
    BY <1>0, <2>1
  <2> QED
    BY <1>0, <2>2, CutIs DEF Value, n
<1> QED
  BY <1>4, <1>5, <1>6, <1>7, <1>8 DEF n, K

\* The first spans of the values are finitely many, and each value has one.
LEMMA FirstsIs ==
  ASSUME NEW r, Request(r)
  PROVE  /\ Firsts(r) \subseteq Kept(r) /\ IsFiniteSet(Firsts(r))
         /\ \A s \in Kept(r) : \E u \in Firsts(r) : Value(r.text, u) = Value(r.text, s)
<1>1. Firsts(r) \subseteq Kept(r)
  BY DEF Firsts
<1>2. IsFiniteSet(Firsts(r))
  BY <1>1, KeptIs, FS_Subset
<1>3. ASSUME NEW s \in Kept(r)
      PROVE  \E u \in Firsts(r) : Value(r.text, u) = Value(r.text, s)
  <2> DEFINE Same == {u \in Kept(r) : Value(r.text, u) = Value(r.text, s)}
             T == {u[1] : u \in Same}
  <2>1. \A u \in Kept(r) : u[1] \in Nat
    BY KeptIs, RequestIs
  <2>2. T \in SUBSET Nat /\ T # {}
    BY <2>1
  <2>3. PICK a \in T : \A k \in T : a <= k
    BY <2>2, LeastNat
  <2>4. PICK u \in Same : u[1] = a
    BY <2>3
  <2>5. ASSUME NEW v \in Kept(r), v[1] < u[1]
        PROVE  Value(r.text, v) # Value(r.text, u)
    <3> SUFFICES ASSUME Value(r.text, v) = Value(r.text, u)
                 PROVE  FALSE
      OBVIOUS
    <3>1. v[1] \in T
      BY <2>4
    <3>2. a <= v[1] /\ a \in Nat /\ v[1] \in Nat
      BY <2>1, <2>2, <2>3, <3>1
    <3> QED
      BY <2>4, <2>5, <3>2
  <2>6. u \in Firsts(r)
    BY <2>4, <2>5 DEF Firsts
  <2> QED
    BY <2>4, <2>6
<1> QED
  BY <1>1, <1>2, <1>3

\* Every number up to the count of values belongs to exactly one of them.
LEMMA RankIs ==
  ASSUME NEW r, Request(r)
  PROVE  /\ Cardinality(Firsts(r)) \in Nat
         /\ \A s \in Firsts(r) : Rank(r, s) \in 1 .. Cardinality(Firsts(r))
         /\ \A s, u \in Firsts(r) : Rank(r, s) = Rank(r, u) => s = u
         /\ \A n \in 1 .. Cardinality(Firsts(r)) : \E s \in Firsts(r) : Rank(r, s) = n
<1> DEFINE F == Firsts(r)
           Upto(s) == {u \in F : u[1] <= s[1]}
           c == Cardinality(F)
<1>0. F \subseteq Kept(r) /\ IsFiniteSet(F)
  BY FirstsIs
<1>1. \A s \in F : s[1] \in Nat
  BY <1>0, KeptIs, RequestIs
<1>2. \A s, u \in F : s[1] = u[1] => s = u
  BY <1>0, KeptIs
<1>3. c \in Nat
  BY <1>0, FS_CardinalityType
<1>4. \A s : Rank(r, s) = Cardinality(Upto(s))
  BY DEF Rank
<1> HIDE DEF F, c
<1>5. \A s : Upto(s) \in SUBSET F
  OBVIOUS
<1>6. \A s \in F : s \in Upto(s)
  BY <1>1
<1>7. ASSUME NEW s
      PROVE  IsFiniteSet(Upto(s)) /\ Rank(r, s) \in Nat /\ Rank(r, s) <= c
  <2> HIDE DEF Upto
  <2>1. IsFiniteSet(Upto(s)) /\ Cardinality(Upto(s)) <= c
    BY <1>0, <1>5, FS_Subset DEF c
  <2>2. Cardinality(Upto(s)) \in Nat
    BY <2>1, FS_CardinalityType
  <2> QED
    BY <1>4, <2>1, <2>2
<1>8. ASSUME NEW s \in F
      PROVE  Rank(r, s) \in 1 .. c
  <2>1. Rank(r, s) # 0
    <3> HIDE DEF Upto
    <3>1. Upto(s) # {}
      BY <1>6
    <3>2. IsFiniteSet(Upto(s))
      BY <1>7
    <3>3. Cardinality(Upto(s)) # 0
      BY <3>1, <3>2, FS_EmptySet, Zenon
    <3> QED
      BY <1>4, <3>3
  <2>2. Rank(r, s) \in Nat /\ Rank(r, s) <= c
    BY <1>7
  <2> HIDE DEF Upto
  <2> QED
    BY <1>3, <2>1, <2>2
<1>9. ASSUME NEW s \in F, NEW u \in F, s[1] < u[1]
      PROVE  Rank(r, s) # Rank(r, u)
  <2>1. Upto(s) \in SUBSET Upto(u)
    BY <1>1, <1>9
  <2>2. u \in Upto(u) /\ u \notin Upto(s)
    BY <1>1, <1>9
  <2> HIDE DEF Upto
  <2>3. Cardinality(Upto(u)) = Cardinality(Upto(s)) => Upto(u) = Upto(s)
    BY <1>7, <2>1, FS_Subset
  <2> QED
    BY <1>4, <2>2, <2>3
<1>10. ASSUME NEW s \in F, NEW u \in F, Rank(r, s) = Rank(r, u)
       PROVE  s = u
  <2>1. s[1] < u[1] \/ u[1] < s[1] \/ s[1] = u[1]
    BY <1>1
  <2> QED
    BY <1>2, <1>9, <1>10, <2>1
<1>11. ASSUME NEW n \in 1 .. c
       PROVE  \E s \in F : Rank(r, s) = n
  <2> DEFINE f == [s \in F |-> Rank(r, s)]
  <2>1. f \in [F -> 1 .. c] /\ \A a, b \in DOMAIN f : f[a] = f[b] => a = b
    BY <1>8, <1>10
  <2>2. \A s \in F : f[s] = Rank(r, s)
    OBVIOUS
  <2> HIDE DEF f
  <2>3. f \in Injection(F, 1 .. c)
    BY <2>1 DEF Injection, IsInjective
  <2>4. IsFiniteSet(1 .. c) /\ Cardinality(1 .. c) = c
    BY <1>3, FS_Interval
  <2>5. f \in Surjection(F, 1 .. c)
    BY <2>3, <2>4, FS_Injection DEF c
  <2> QED
    BY <2>2, <2>5 DEF Surjection
<1> QED
  BY <1>3, <1>8, <1>10, <1>11 DEF F, c

\* The mapping of a request is one, and it has the value of every kept span.
LEMMA AssignedIs ==
  ASSUME NEW r, Request(r)
  PROVE  /\ Assigned(r) \in Mappings
         /\ \A s \in Kept(r) :
              /\ NumberOf(Assigned(r), Value(r.text, s)) \in DOMAIN Assigned(r)
              /\ Assigned(r)[NumberOf(Assigned(r), Value(r.text, s))] = Value(r.text, s)
<1> DEFINE c == Cardinality(Firsts(r))
           who(n) == CHOOSE s \in Firsts(r) : Rank(r, s) = n
<1>0. c \in Nat
  BY RankIs
<1>1. Assigned(r) = [n \in 1 .. c |-> Value(r.text, who(n))]
  BY DEF Assigned
<1>2. ASSUME NEW n \in 1 .. c
      PROVE  who(n) \in Firsts(r) /\ Rank(r, who(n)) = n
  BY RankIs
<1> HIDE DEF c, who
<1>3. \A n \in 1 .. c : Value(r.text, who(n)) \in Texts
  BY <1>2, FirstsIs, KeptIs
<1>4. Assigned(r) \in Mappings /\ DOMAIN Assigned(r) = 1 .. c
  BY <1>0, <1>1, <1>3 DEF Mappings
<1>5. ASSUME NEW s \in Kept(r)
      PROVE  \E n \in DOMAIN Assigned(r) : Assigned(r)[n] = Value(r.text, s)
  <2>1. PICK u \in Firsts(r) : Value(r.text, u) = Value(r.text, s)
    BY FirstsIs
  <2>2. Rank(r, u) \in 1 .. c
    BY RankIs DEF c
  <2>3. who(Rank(r, u)) = u
    BY <1>2, <2>2, RankIs
  <2> QED
    BY <1>1, <2>1, <2>2, <2>3
<1>6. ASSUME NEW s \in Kept(r)
      PROVE  /\ NumberOf(Assigned(r), Value(r.text, s)) \in DOMAIN Assigned(r)
             /\ Assigned(r)[NumberOf(Assigned(r), Value(r.text, s))] = Value(r.text, s)
  <2>1. \E n \in DOMAIN Assigned(r) : Assigned(r)[n] = Value(r.text, s)
    BY <1>5
  <2> QED
    BY <2>1, Zenon DEF NumberOf
<1> QED
  BY <1>4, <1>6

\* What ApplyMask puts in the place of a kept span, and the text it makes.
Placeholders(r) ==
  [s \in Kept(r) |-> Token(NumberOf(Assigned(r), Value(r.text, s)))]

\* ApplyMask is the chain of the uncovered symbols and the placeholders.
LEMMA ApplyMaskIs ==
  ASSUME NEW r, Request(r)
  PROVE  /\ \E rest : /\ Replacing(rest, r.text, Placeholders(r))
                      /\ ApplyMask(r, Assigned(r)) = rest[1]
         /\ ApplyMask(r, Assigned(r)) \in Texts
<1> DEFINE by == Placeholders(r)
<1>1. ASSUME NEW s \in Kept(r)
      PROVE  Token(NumberOf(Assigned(r), Value(r.text, s))) \in Texts
  <2>1. NumberOf(Assigned(r), Value(r.text, s)) \in Nat
    BY AssignedIs, MappingIs
  <2> QED
    BY <2>1, TokenIs
<1>2. DOMAIN by = Kept(r) /\ \A s \in Kept(r) : by[s] \in Texts
  BY <1>1 DEF Placeholders
<1>3. Replaces(by, r.text)
  <2> HIDE DEF by
  <2> QED
    BY <1>2, KeptIs DEF Replaces
<1>4. r.text \in Texts /\ Len(r.text) \in Nat
  BY RequestIs
<1>5. PICK rest : Replacing(rest, r.text, by) /\ Replaced(r.text, by) = rest[1]
  BY <1>3, <1>4, ReplacedRule
<1>6. ApplyMask(r, Assigned(r)) = Replaced(r.text, by)
  BY DEF ApplyMask, Placeholders
<1>7. rest[1] \in Texts
  <2>1. 1 \in 1 .. Len(r.text) + 1
    BY <1>4
  <2> QED
    BY <1>5, <2>1 DEF Replacing
<1> QED
  BY <1>5, <1>6, <1>7

-----------------------------------------------------------------------------
(* The buffer.                                                             *)

\* Two texts with the same symbols are the same.
LEMMA SameText ==
  ASSUME NEW s \in Texts, NEW t \in Texts, Len(s) = Len(t),
         \A i \in 1 .. Len(s) : s[i] = t[i]
  PROVE  s = t
BY SeqEqual DEF Texts

\* s is how t starts.
Starts(s, t) == Len(s) <= Len(t) /\ \A k \in 1 .. Len(s) : s[k] = t[k]

\* A part of a text is the same part of what the text continues to.
LEMMA SameCut ==
  ASSUME NEW s \in Texts, NEW t \in Texts, Starts(s, t),
         NEW i \in 1 .. Len(s) + 1, NEW e \in i - 1 .. Len(s)
  PROVE  SubSeq(s, i, e) = SubSeq(t, i, e)
<1>0. Len(s) \in Nat /\ Len(t) \in Nat /\ Len(s) <= Len(t)
  BY TextIs DEF Starts
<1>1. i \in 1 .. Len(t) + 1 /\ e \in i - 1 .. Len(t)
  BY <1>0
<1>2. /\ SubSeq(s, i, e) \in Texts /\ Len(SubSeq(s, i, e)) = e - i + 1
      /\ \A j \in 1 .. e - i + 1 : SubSeq(s, i, e)[j] = s[i + j - 1]
  BY CutIs
<1>3. /\ SubSeq(t, i, e) \in Texts /\ Len(SubSeq(t, i, e)) = e - i + 1
      /\ \A j \in 1 .. e - i + 1 : SubSeq(t, i, e)[j] = t[i + j - 1]
  BY <1>1, CutIs
<1>4. ASSUME NEW j \in 1 .. e - i + 1
      PROVE  s[i + j - 1] = t[i + j - 1]
  <2>1. i + j - 1 \in 1 .. Len(s)
    BY <1>0
  <2> QED
    BY <2>1 DEF Starts
<1> QED
  BY <1>2, <1>3, <1>4, SameText

\* A cut of a cut.
LEMMA CutOfCut ==
  ASSUME NEW t \in Texts, NEW a \in 0 .. Len(t),
         NEW i \in 1 .. Len(t) - a + 1, NEW e \in i - 1 .. Len(t) - a
  PROVE  SubSeq(SubSeq(t, a + 1, Len(t)), i, e) = SubSeq(t, a + i, a + e)
<1> DEFINE u == SubSeq(t, a + 1, Len(t))
<1>0. Len(t) \in Nat
  BY TextIs
<1>1. a + 1 \in 1 .. Len(t) + 1 /\ Len(t) \in (a + 1) - 1 .. Len(t)
  BY <1>0
<1>2. /\ u \in Texts /\ Len(u) = Len(t) - (a + 1) + 1
      /\ \A j \in 1 .. Len(t) - (a + 1) + 1 : u[j] = t[a + 1 + j - 1]
  BY <1>1, CutIs
<1>3. /\ Len(u) = Len(t) - a
      /\ \A j \in 1 .. Len(t) - a : u[j] = t[a + j]
  BY <1>0, <1>2
<1> HIDE DEF u
<1>4. i \in 1 .. Len(u) + 1 /\ e \in i - 1 .. Len(u)
  BY <1>3
<1>5. /\ SubSeq(u, i, e) \in Texts /\ Len(SubSeq(u, i, e)) = e - i + 1
      /\ \A j \in 1 .. e - i + 1 : SubSeq(u, i, e)[j] = u[i + j - 1]
  BY <1>2, <1>4, CutIs
<1>6. a + i \in 1 .. Len(t) + 1 /\ a + e \in (a + i) - 1 .. Len(t)
  BY <1>0
<1>7. /\ SubSeq(t, a + i, a + e) \in Texts /\ Len(SubSeq(t, a + i, a + e)) = (a + e) - (a + i) + 1
      /\ \A j \in 1 .. (a + e) - (a + i) + 1 : SubSeq(t, a + i, a + e)[j] = t[a + i + j - 1]
  BY <1>6, CutIs
<1>8. (a + e) - (a + i) + 1 = e - i + 1
  BY <1>0
<1>9. ASSUME NEW j \in 1 .. e - i + 1
      PROVE  u[i + j - 1] = t[a + i + j - 1]
  <2>1. i + j - 1 \in 1 .. Len(t) - a /\ a + (i + j - 1) = a + i + j - 1
    BY <1>0
  <2> QED
    BY <1>3, <2>1
<1>10. \A j \in 1 .. e - i + 1 : SubSeq(u, i, e)[j] = SubSeq(t, a + i, a + e)[j]
  BY <1>5, <1>7, <1>8, <1>9
<1>11. SubSeq(u, i, e) = SubSeq(t, a + i, a + e)
  BY <1>5, <1>7, <1>8, <1>10, SameText
<1> QED
  BY <1>11 DEF u

\* full is the end of u behind a, and c is where it is cut.
CutAt(u, a, full, c) ==
  /\ full = SubSeq(u, a + 1, Len(u)) /\ full \in Texts
  /\ Len(full) = Len(u) - a /\ c \in 1 .. Len(full) + 1
  /\ SubSeq(full, 1, c - 1) = SubSeq(u, a + 1, a + c - 1)
  /\ Len(SubSeq(full, 1, c - 1)) = c - 1
  /\ SubSeq(full, c, Len(full)) = SubSeq(u, a + c, Len(u))

\* The buffer with a delta is the end of the text with it, and it is cut there.
LEMMA FeedIs ==
  ASSUME NEW m \in Mappings, NEW t \in Texts, NEW a \in 0 .. Len(t), NEW d \in Texts,
         NEW full, full = SubSeq(t, a + 1, Len(t)) \o d, NEW c, c = Cut(full, m)
  PROVE  /\ t \o d \in Texts /\ Starts(t, t \o d) /\ Len(t \o d) = Len(t) + Len(d)
         /\ CutAt(t \o d, a, full, c)
<1> DEFINE u == t \o d
           p == SubSeq(t, a + 1, Len(t))
<1>0. Len(t) \in Nat /\ Len(d) \in Nat
  BY TextIs
<1>1. /\ u \in Texts /\ Len(u) = Len(t) + Len(d)
      /\ \A i \in 1 .. Len(t) : u[i] = t[i]
      /\ \A i \in Len(t) + 1 .. Len(t) + Len(d) : u[i] = d[i - Len(t)]
  BY CatIs
<1>2. a + 1 \in 1 .. Len(t) + 1 /\ Len(t) \in (a + 1) - 1 .. Len(t)
  BY <1>0
<1>3. /\ p \in Texts /\ Len(p) = Len(t) - (a + 1) + 1
      /\ \A j \in 1 .. Len(t) - (a + 1) + 1 : p[j] = t[a + 1 + j - 1]
  BY <1>2, CutIs
<1>4. Len(p) = Len(t) - a /\ \A j \in 1 .. Len(t) - a : p[j] = t[a + j]
  BY <1>0, <1>3
<1> HIDE DEF u, p
<1>5. full = p \o d
  BY DEF p
<1>6. /\ full \in Texts /\ Len(full) = Len(p) + Len(d)
      /\ \A i \in 1 .. Len(p) : full[i] = p[i]
      /\ \A i \in Len(p) + 1 .. Len(p) + Len(d) : full[i] = d[i - Len(p)]
  <2>1. /\ p \o d \in Texts /\ Len(p \o d) = Len(p) + Len(d)
        /\ \A i \in 1 .. Len(p) : (p \o d)[i] = p[i]
        /\ \A i \in Len(p) + 1 .. Len(p) + Len(d) : (p \o d)[i] = d[i - Len(p)]
    BY <1>3, CatIs
  <2> QED
    BY <1>5, <2>1, Zenon
<1>7. Len(full) = Len(u) - a /\ a \in 0 .. Len(u)
  BY <1>0, <1>1, <1>4, <1>6
<1>8. a + 1 \in 1 .. Len(u) + 1 /\ Len(u) \in (a + 1) - 1 .. Len(u)
  BY <1>0, <1>1
<1>9. /\ SubSeq(u, a + 1, Len(u)) \in Texts
      /\ Len(SubSeq(u, a + 1, Len(u))) = Len(u) - (a + 1) + 1
      /\ \A j \in 1 .. Len(u) - (a + 1) + 1 : SubSeq(u, a + 1, Len(u))[j] = u[a + 1 + j - 1]
  BY <1>1, <1>8, CutIs
<1>10. ASSUME NEW j \in 1 .. Len(full)
       PROVE  full[j] = SubSeq(u, a + 1, Len(u))[j]
  <2>1. j \in 1 .. Len(u) - (a + 1) + 1 /\ a + 1 + j - 1 = a + j
    BY <1>0, <1>1, <1>7
  <2>2. SubSeq(u, a + 1, Len(u))[j] = u[a + j]
    BY <1>9, <2>1
  <2>3. CASE j <= Len(p)
    <3>1. j \in 1 .. Len(p) /\ j \in 1 .. Len(t) - a /\ a + j \in 1 .. Len(t)
      BY <1>0, <1>4, <2>3
    <3> QED
      BY <1>1, <1>4, <1>6, <2>2, <3>1
  <2>4. CASE j > Len(p)
    <3>1. /\ j \in Len(p) + 1 .. Len(p) + Len(d) /\ a + j \in Len(t) + 1 .. Len(t) + Len(d)
          /\ j - Len(p) = a + j - Len(t)
      BY <1>0, <1>4, <1>6, <2>4
    <3>2. full[j] = d[j - Len(p)]
      BY <1>6, <3>1
    <3>3. u[a + j] = d[a + j - Len(t)]
      BY <1>1, <3>1
    <3> QED
      BY <2>2, <3>1, <3>2, <3>3
  <2>5. j <= Len(p) \/ j > Len(p)
    BY <1>0, <1>4
  <2> QED
    BY <2>3, <2>4, <2>5
<1>11. Len(full) = Len(SubSeq(u, a + 1, Len(u)))
  BY <1>0, <1>1, <1>7, <1>9
<1>12. full = SubSeq(u, a + 1, Len(u))
  BY <1>6, <1>9, <1>10, <1>11, SameText
<1>13. c \in 1 .. Len(full) + 1
  BY <1>6, HeldIs
<1>14. /\ c \in 1 .. Len(u) - a + 1 /\ c - 1 \in 1 - 1 .. Len(u) - a /\ 1 \in 1 .. Len(u) - a + 1
       /\ Len(u) - a \in c - 1 .. Len(u) - a /\ a + (Len(u) - a) = Len(u)
       /\ a + (c - 1) = a + c - 1 /\ c - 1 \in 1 - 1 .. Len(full) /\ 1 \in 1 .. Len(full) + 1
       /\ (c - 1) - 1 + 1 = c - 1
  BY <1>0, <1>1, <1>7, <1>13
<1>15. SubSeq(full, 1, c - 1) = SubSeq(u, a + 1, a + c - 1)
  BY <1>1, <1>7, <1>12, <1>14, CutOfCut
<1>16. SubSeq(full, c, Len(full)) = SubSeq(u, a + c, Len(u))
  BY <1>1, <1>7, <1>12, <1>14, CutOfCut
<1>17. Len(SubSeq(full, 1, c - 1)) = c - 1
  BY <1>6, <1>14, CutIs
<1>18. Starts(t, u)
  BY <1>0, <1>1 DEF Starts
<1> QED
  BY <1>1, <1>6, <1>7, <1>12, <1>13, <1>15, <1>16, <1>17, <1>18 DEF u, CutAt

\* A span of Unmask, with its ends.
LEMMA UnmaskedSpan ==
  ASSUME NEW m \in Mappings, NEW t \in Texts, NEW s \in Unmask(t, m)
  PROVE  /\ s[1] \in Stops(UnmaskScan(t, m)) /\ s[1] \in 1 .. Len(t) /\ s[2] \in 1 .. Len(t)
         /\ s = <<s[1], s[2]>> /\ Span(t, s[1], s[2], m) /\ s[1] < s[2]
<1>1. PICK i \in Stops(UnmaskScan(t, m)), e \in 1 .. Len(t) :
        s = <<i, e>> /\ (TokenSpan(t, i, e, m) \/ BareSpan(t, i, e, m))
  BY UnmaskIs
<1>2. i \in 1 .. Len(t)
  BY UnmaskScanIs DEF Stops
<1>3. s[1] = i /\ s[2] = e
  BY <1>1
<1>4. Span(t, i, e, m)
  BY <1>1 DEF Span
<1>5. i < e
  BY <1>2, <1>4, SpanIs
<1> QED
  BY <1>1, <1>2, <1>3, <1>4, <1>5

\* A span of the whole text that starts in what leaves the buffer leaves it
\* whole and is found in it.
LEMMA PieceFinds ==
  ASSUME NEW m \in Mappings, NEW t \in Texts, NEW a \in 0 .. Len(t), NEW b \in a .. Len(t),
         NEW c, c = Cut(SubSeq(t, a + 1, b), m),
         NEW s \in Unmask(t, m), a < s[1], s[1] < a + c
  PROVE  /\ s[2] < a + c
         /\ <<s[1] - a, s[2] - a>> \in Unmask(SubSeq(t, a + 1, a + c - 1), m)
<1>0. Len(t) \in Nat
  BY TextIs
<1>1. /\ s[1] \in Stops(UnmaskScan(t, m)) /\ s[1] \in 1 .. Len(t) /\ s[2] \in 1 .. Len(t)
      /\ Span(t, s[1], s[2], m)
  BY UnmaskedSpan
<1>2. s[2] < a + c
  BY <1>1, CutKeeps
<1>3. a + 1 \in 1 .. Len(t) + 1 /\ b \in (a + 1) - 1 .. Len(t) /\ b - (a + 1) + 1 = b - a
  BY <1>0
<1>4. SubSeq(t, a + 1, b) \in Texts /\ Len(SubSeq(t, a + 1, b)) = b - a
  BY <1>3, CutIs
<1>5. c \in 1 .. b - a + 1
  BY <1>4, HeldIs
<1>6. a + c - 1 \in a .. Len(t) /\ s[2] <= a + c - 1
  BY <1>0, <1>1, <1>2, <1>5
<1> QED
  BY <1>1, <1>2, <1>6, PieceKeeps

-----------------------------------------------------------------------------
(* What is known of a state.                                               *)

\* The buffer is the end of the answer, and the answer of an echo is how the
\* masked text starts.
Buffered ==
  /\ rq \in Requests /\ echo \in BOOLEAN /\ pc \in {"mask", "answer", "done"}
  /\ mapping \in Mappings /\ masked \in Texts /\ text \in Texts
  /\ emitted \in 0 .. Len(text) /\ buf = SubSeq(text, emitted + 1, Len(text))
  /\ pc = "mask" => text = <<>> /\ restored = {}
  /\ pc # "mask" => mapping = Assigned(rq) /\ masked = ApplyMask(rq, Assigned(rq))
  /\ pc = "done" => emitted = Len(text)
  /\ echo /\ pc # "mask" => Starts(text, masked)
  /\ echo /\ pc = "done" => text = masked

\* The empty text and the empty mapping.
LEMMA EmptyIs ==
  /\ <<>> \in Texts /\ Len(<<>>) = 0 /\ SubSeq(<<>>, 1, 0) = <<>>
  /\ <<>> \in Mappings /\ \A t \in Texts : Starts(<<>>, t)
<1>1. <<>> \in Texts /\ Len(<<>>) = 0
  BY EmptySeq DEF Texts
<1>2. SubSeq(<<>>, 1, 0) \in Texts /\ Len(SubSeq(<<>>, 1, 0)) = 0
  <2>1. 1 \in 1 .. Len(<<>>) + 1 /\ 0 \in 1 - 1 .. Len(<<>>) /\ 0 - 1 + 1 = 0
    BY <1>1
  <2> QED
    BY <1>1, <2>1, CutIs
<1>3. SubSeq(<<>>, 1, 0) = <<>>
  <2>1. \A i \in 1 .. Len(SubSeq(<<>>, 1, 0)) : SubSeq(<<>>, 1, 0)[i] = <<>>[i]
    BY <1>2
  <2> QED
    BY <1>1, <1>2, <2>1, SameText
<1>4. ASSUME NEW t \in Texts
      PROVE  Starts(<<>>, t)
  <2>1. Len(t) \in Nat
    BY TextIs
  <2>2. 1 .. Len(<<>>) = {}
    BY <1>1
  <2> QED
    BY <1>1, <2>1, <2>2 DEF Starts
<1>5. <<>> \in Mappings
  BY EmptySeq DEF Mappings
<1> QED
  BY <1>1, <1>3, <1>4, <1>5

\* Nothing is left behind the end of a text.
LEMMA TailIsEmpty ==
  ASSUME NEW t \in Texts
  PROVE  SubSeq(t, Len(t) + 1, Len(t)) = <<>>
<1>0. Len(t) \in Nat
  BY TextIs
<1>1. Len(t) + 1 \in 1 .. Len(t) + 1 /\ Len(t) \in (Len(t) + 1) - 1 .. Len(t)
      /\ Len(t) - (Len(t) + 1) + 1 = 0
  BY <1>0
<1>2. SubSeq(t, Len(t) + 1, Len(t)) \in Texts /\ Len(SubSeq(t, Len(t) + 1, Len(t))) = 0
  BY <1>1, CutIs
<1>3. \A i \in 1 .. Len(SubSeq(t, Len(t) + 1, Len(t))) :
        SubSeq(t, Len(t) + 1, Len(t))[i] = <<>>[i]
  BY <1>2
<1> QED
  BY <1>2, <1>3, EmptyIs, SameText

\* An event feeds some text; that of an echo goes on with the masked one.
LEMMA EventIs ==
  ASSUME Buffered, Event
  PROVE  \E d \in Texts : Feed(d) /\ (echo => Starts(text \o d, masked))
<1>0. Len(text) \in Nat /\ Len(masked) \in Nat /\ text \in Texts /\ masked \in Texts
  BY TextIs DEF Buffered
<1>1. CASE echo
  <2>1. PICK n \in 1 .. Len(masked) - Len(text) :
          Feed(SubSeq(masked, Len(text) + 1, Len(text) + n))
    BY <1>1 DEF Event
  <2> DEFINE d == SubSeq(masked, Len(text) + 1, Len(text) + n)
  <2>2. /\ Len(text) + 1 \in 1 .. Len(masked) + 1
        /\ Len(text) + n \in (Len(text) + 1) - 1 .. Len(masked)
        /\ (Len(text) + n) - (Len(text) + 1) + 1 = n
    BY <1>0
  <2>3. /\ d \in Texts /\ Len(d) = n
        /\ \A j \in 1 .. n : d[j] = masked[Len(text) + 1 + j - 1]
    BY <1>0, <2>2, CutIs
  <2> HIDE DEF d
  <2>4. /\ Len(text \o d) = Len(text) + n
        /\ \A i \in 1 .. Len(text) : (text \o d)[i] = text[i]
        /\ \A i \in Len(text) + 1 .. Len(text) + n : (text \o d)[i] = d[i - Len(text)]
    BY <1>0, <2>3, CatIs
  <2>5. Starts(text, masked)
    BY <1>1 DEF Buffered, Event
  <2>6. ASSUME NEW k \in 1 .. Len(text) + n
        PROVE  (text \o d)[k] = masked[k]
    <3>1. CASE k <= Len(text)
      <4>1. k \in 1 .. Len(text)
        BY <1>0, <3>1
      <4> QED
        BY <2>4, <2>5, <4>1 DEF Starts
    <3>2. CASE k > Len(text)
      <4>1. /\ k \in Len(text) + 1 .. Len(text) + n /\ k - Len(text) \in 1 .. n
            /\ Len(text) + 1 + (k - Len(text)) - 1 = k
        BY <1>0, <3>2
      <4>2. (text \o d)[k] = d[k - Len(text)]
        BY <2>4, <4>1
      <4>3. d[k - Len(text)] = masked[Len(text) + 1 + (k - Len(text)) - 1]
        BY <2>3, <4>1
      <4> QED
        BY <4>1, <4>2, <4>3
    <3>3. k <= Len(text) \/ k > Len(text)
      BY <1>0
    <3> QED
      BY <3>1, <3>2, <3>3
  <2>7. Len(text) + n <= Len(masked)
    BY <1>0
  <2>8. Starts(text \o d, masked)
    BY <2>4, <2>6, <2>7 DEF Starts
  <2> QED
    BY <2>1, <2>3, <2>8 DEF d
<1>2. CASE ~ echo
  <2>1. PICK n \in 1 .. MaxAnswer - Len(text) : \E d \in [1 .. n -> Symbols] : Feed(d)
    BY <1>2 DEF Event
  <2>2. PICK d \in [1 .. n -> Symbols] : Feed(d)
    BY <2>1
  <2>3. n \in Nat
    BY <1>0, RestoreAssumption
  <2>4. Symbols \subseteq Chars
    BY RestoreAssumption DEF Chars
  <2>5. d \in [1 .. n -> Chars]
    BY <2>4
  <2>6. d \in Texts
    BY <2>3, <2>5 DEF Texts
  <2> QED
    BY <1>2, <2>2, <2>6
<1>3. echo \in BOOLEAN
  BY DEF Buffered
<1> QED
  BY <1>1, <1>2, <1>3

\* What a feed makes of the state: the cut of the buffer is a place in the text.
LEMMA FeedStep ==
  ASSUME Buffered, NEW d \in Texts, Feed(d)
  PROVE  /\ text' = text \o d /\ text' \in Texts /\ Starts(text, text')
         /\ \E c \in 1 .. Len(text') - emitted + 1 :
              /\ c = Cut(SubSeq(text', emitted + 1, Len(text')), mapping)
              /\ emitted' = emitted + c - 1 /\ emitted' \in emitted .. Len(text')
              /\ buf' = SubSeq(text', emitted' + 1, Len(text'))
              /\ restored' = restored \cup
                   Shifted(Unmask(SubSeq(text', emitted + 1, emitted'), mapping))
<1> DEFINE full == buf \o d
           c == Cut(full, mapping)
<1>0. /\ mapping \in Mappings /\ text \in Texts /\ emitted \in 0 .. Len(text)
      /\ full = SubSeq(text, emitted + 1, Len(text)) \o d /\ Len(text) \in Nat /\ Len(d) \in Nat
  BY TextIs DEF Buffered
<1>1. /\ text' = text \o d /\ buf' = SubSeq(full, c, Len(full))
      /\ emitted' = emitted + Len(SubSeq(full, 1, c - 1))
      /\ restored' = restored \cup Shifted(Unmask(SubSeq(full, 1, c - 1), mapping))
  BY DEF Feed
<1> HIDE DEF full, c
<1>2. c = Cut(full, mapping)
  BY DEF c
<1>21. /\ text \o d \in Texts /\ Starts(text, text \o d) /\ Len(text \o d) = Len(text) + Len(d)
       /\ CutAt(text \o d, emitted, full, c)
  BY <1>0, <1>2, FeedIs
<1>3. /\ text \o d \in Texts /\ Starts(text, text \o d) /\ Len(text \o d) = Len(text) + Len(d)
      /\ full = SubSeq(text \o d, emitted + 1, Len(text \o d)) /\ full \in Texts
      /\ Len(full) = Len(text \o d) - emitted /\ c \in 1 .. Len(full) + 1
      /\ SubSeq(full, 1, c - 1) = SubSeq(text \o d, emitted + 1, emitted + c - 1)
      /\ Len(SubSeq(full, 1, c - 1)) = c - 1
      /\ SubSeq(full, c, Len(full)) = SubSeq(text \o d, emitted + c, Len(text \o d))
  BY <1>21 DEF CutAt
<1>4. c \in 1 .. Len(text') - emitted + 1
  BY <1>1, <1>3
<1>5. emitted' = emitted + c - 1 /\ emitted' \in emitted .. Len(text') /\ emitted' + 1 = emitted + c
  BY <1>0, <1>1, <1>3
<1>6. buf' = SubSeq(text', emitted' + 1, Len(text'))
  BY <1>1, <1>3, <1>5
<1>7. SubSeq(full, 1, c - 1) = SubSeq(text', emitted + 1, emitted')
  BY <1>1, <1>3, <1>5
<1>8. restored' = restored \cup Shifted(Unmask(SubSeq(text', emitted + 1, emitted'), mapping))
  BY <1>1, <1>7
<1>9. c = Cut(SubSeq(text', emitted + 1, Len(text')), mapping)
  BY <1>1, <1>2, <1>3
<1> QED
  BY <1>1, <1>3, <1>4, <1>5, <1>6, <1>8, <1>9

\* The first state has an empty buffer at the end of an empty answer.
LEMMA BufferedInit ==
  Init => Buffered
<1> SUFFICES ASSUME Init
             PROVE  Buffered
  OBVIOUS
<1>1. emitted \in 0 .. Len(text) /\ emitted + 1 = 1 /\ Len(text) = 0
  BY EmptyIs DEF Init
<1>2. buf = SubSeq(text, emitted + 1, Len(text))
  BY <1>1, EmptyIs DEF Init
<1> QED
  BY <1>1, <1>2, EmptyIs DEF Init, Buffered

\* Every step keeps the buffer at the end of the answer.
LEMMA BufferedNext ==
  Buffered /\ [Next]_vars => Buffered'
<1> SUFFICES ASSUME Buffered, [Next]_vars
             PROVE  Buffered'
  OBVIOUS
<1>0. Request(rq) /\ Len(text) \in Nat /\ Len(masked) \in Nat
  BY RestoreAssumption, TextIs DEF Buffered
<1>1. CASE Mask
  <2>1. mapping' \in Mappings /\ masked' \in Texts
    BY <1>0, <1>1, AssignedIs, ApplyMaskIs DEF Mask
  <2>2. text = <<>>
    BY <1>1 DEF Mask, Buffered
  <2>3. Starts(text', masked')
    BY <1>1, <2>1, <2>2, EmptyIs DEF Mask, answer
  <2> QED
    BY <1>1, <2>1, <2>3 DEF Mask, Buffered, answer
<1>2. CASE Event
  <2>1. PICK d \in Texts : Feed(d) /\ (echo => Starts(text \o d, masked))
    BY <1>2, EventIs
  <2>2. text' = text \o d /\ text' \in Texts
    BY <2>1, FeedStep
  <2>3. emitted' \in emitted .. Len(text') /\ buf' = SubSeq(text', emitted' + 1, Len(text'))
    BY <2>1, FeedStep
  <2>4. emitted' \in 0 .. Len(text')
    <3>1. emitted \in Nat
      BY <1>0 DEF Buffered
    <3>2. Len(text') \in Nat
      BY <2>2, TextIs
    <3> QED
      BY <2>3, <3>1, <3>2
  <2>5. echo => Starts(text', masked)
    BY <2>1, <2>2
  <2> QED
    BY <1>2, <2>2, <2>3, <2>4, <2>5 DEF Event, Buffered
<1>3. CASE Flush
  <2>1. emitted \in 0 .. Len(text) /\ text \in Texts /\ buf = SubSeq(text, emitted + 1, Len(text))
    BY DEF Buffered
  <2>2. /\ emitted + 1 \in 1 .. Len(text) + 1 /\ Len(text) \in (emitted + 1) - 1 .. Len(text)
        /\ Len(text) - (emitted + 1) + 1 = Len(text) - emitted
    BY <1>0, <2>1
  <2>3. Len(buf) = Len(text) - emitted
    BY <2>1, <2>2, CutIs
  <2>4. emitted' = Len(text) /\ emitted' \in 0 .. Len(text)
    BY <1>0, <1>3, <2>1, <2>3 DEF Flush
  <2>5. buf' = SubSeq(text', emitted' + 1, Len(text'))
    BY <1>3, <2>1, <2>4, TailIsEmpty DEF Flush
  <2> QED
    BY <1>3, <2>4, <2>5 DEF Flush, Buffered
<1>4. CASE RestoreBody
  <2>1. masked \in Texts /\ emitted \in 0 .. Len(text) /\ buf = SubSeq(text, emitted + 1, Len(text))
    BY DEF Buffered
  <2>2. text = <<>>
    BY <1>4 DEF RestoreBody
  <2>3. emitted = 0 /\ emitted + 1 = 1 /\ Len(text) = 0
    BY <2>1, <2>2, EmptyIs
  <2>4. buf = <<>>
    BY <2>1, <2>2, <2>3, EmptyIs
  <2>5. buf' = SubSeq(text', emitted' + 1, Len(text'))
    BY <1>4, <2>1, <2>4, TailIsEmpty DEF RestoreBody
  <2>6. emitted' \in 0 .. Len(text')
    BY <1>0, <1>4 DEF RestoreBody
  <2>7. Starts(text', masked')
    BY <1>0, <1>4 DEF RestoreBody, Starts
  <2> QED
    BY <1>4, <2>5, <2>6, <2>7 DEF RestoreBody, Buffered
<1>5. CASE UNCHANGED vars
  BY <1>5 DEF vars, Buffered
<1> QED
  BY <1>1, <1>2, <1>3, <1>4, <1>5 DEF Next

-----------------------------------------------------------------------------
(* Splitting an answer over events.                                        *)

\* Whatever the answer goes on with, what Unmask would restore of it behind
\* the buffer is restored, and none of it reaches into the buffer.
Settled ==
  \A t \in Texts :
    Starts(text, t) /\ (pc = "done" => t = text) =>
      \A s \in Unmask(t, mapping) : s[1] <= emitted => s[2] <= emitted /\ s \in restored

\* Nothing has to be settled while nothing has left the buffer.
LEMMA SettledNone ==
  ASSUME Buffered, emitted = 0
  PROVE  Settled
<1> SUFFICES ASSUME NEW t \in Texts, NEW s \in Unmask(t, mapping), s[1] <= emitted
             PROVE  FALSE
  BY DEF Settled
<1>1. s[1] \in 1 .. Len(t) /\ Len(t) \in Nat
  BY UnmaskedSpan, TextIs DEF Buffered
<1> QED
  BY <1>1

\* To start a text is transitive.
LEMMA StartsFurther ==
  ASSUME NEW s \in Texts, NEW t \in Texts, NEW u \in Texts, Starts(s, t), Starts(t, u)
  PROVE  Starts(s, u)
<1>1. Len(s) \in Nat /\ Len(t) \in Nat /\ Len(u) \in Nat
  BY TextIs
<1> QED
  BY <1>1 DEF Starts

\* feedPIIStreamBuffer settles what it lets go: what Unmask finds there in any
\* continuation of the answer, it finds in the piece.
LEMMA SettledFeed ==
  ASSUME Buffered, Settled, pc = "answer", pc' = pc, mapping' = mapping,
         NEW d \in Texts, Feed(d)
  PROVE  Settled'
<1>0. mapping \in Mappings /\ text \in Texts /\ emitted \in 0 .. Len(text)
      /\ emitted \in Nat
  BY TextIs DEF Buffered
<1>1. text' \in Texts /\ Starts(text, text')
  BY FeedStep
<1>2. PICK c \in 1 .. Len(text') - emitted + 1 :
        /\ c = Cut(SubSeq(text', emitted + 1, Len(text')), mapping)
        /\ emitted' = emitted + c - 1 /\ emitted' \in emitted .. Len(text')
        /\ restored' = restored \cup
             Shifted(Unmask(SubSeq(text', emitted + 1, emitted'), mapping))
  BY FeedStep
<1> SUFFICES ASSUME NEW t \in Texts, Starts(text', t),
                    NEW s \in Unmask(t, mapping), s[1] <= emitted'
             PROVE  s[2] <= emitted' /\ s \in restored'
  BY DEF Settled
<1>3. Starts(text, t) /\ Len(text') \in Nat /\ Len(t) \in Nat /\ Len(text') <= Len(t)
  BY <1>0, <1>1, StartsFurther, TextIs DEF Starts
<1>4. s[1] \in 1 .. Len(t) /\ s[2] \in 1 .. Len(t) /\ s = <<s[1], s[2]>>
  BY <1>0, UnmaskedSpan
<1>5. CASE s[1] <= emitted
  <2>1. s[2] <= emitted /\ s \in restored
    BY <1>3, <1>5 DEF Settled
  <2> QED
    BY <1>0, <1>2, <1>4, <2>1
<1>6. CASE s[1] > emitted
  <2>1. /\ emitted + 1 \in 1 .. Len(text') + 1 /\ Len(text') \in (emitted + 1) - 1 .. Len(text')
        /\ emitted' \in (emitted + 1) - 1 .. Len(text')
        /\ emitted \in 0 .. Len(t) /\ Len(text') \in emitted .. Len(t)
        /\ s[1] < emitted + c /\ emitted + c - 1 = emitted'
    <3>1. /\ emitted' \in Nat /\ emitted <= emitted' /\ emitted' <= Len(text') /\ c \in Nat
          /\ emitted' = emitted + c - 1 /\ s[1] \in Nat
      BY <1>0, <1>2, <1>3, <1>4
    <3> QED
      BY <1>0, <1>3, <3>1
  <2>2. SubSeq(text', emitted + 1, Len(text')) = SubSeq(t, emitted + 1, Len(text'))
    BY <1>1, <2>1, SameCut
  <2>3. SubSeq(text', emitted + 1, emitted') = SubSeq(t, emitted + 1, emitted')
    BY <1>1, <2>1, SameCut
  <2>4. c = Cut(SubSeq(t, emitted + 1, Len(text')), mapping)
    BY <1>2, <2>2
  <2>5. /\ s[2] < emitted + c
        /\ <<s[1] - emitted, s[2] - emitted>> \in Unmask(SubSeq(t, emitted + 1, emitted + c - 1), mapping)
    BY <1>0, <1>6, <2>1, <2>4, PieceFinds
  <2>6. s[2] <= emitted'
    <3>1. s[2] \in Nat /\ c \in Nat
      BY <1>0, <1>2, <1>3, <1>4
    <3> QED
      BY <1>0, <2>1, <2>5, <3>1
  <2> DEFINE v == <<s[1] - emitted, s[2] - emitted>>
  <2>7. v \in Unmask(SubSeq(text', emitted + 1, emitted'), mapping)
    BY <2>1, <2>3, <2>5
  <2>8. v[1] + emitted = s[1] /\ v[2] + emitted = s[2]
    BY <1>0, <1>4
  <2> HIDE DEF v
  <2>9. s \in Shifted(Unmask(SubSeq(text', emitted + 1, emitted'), mapping))
    BY <1>4, <2>7, <2>8 DEF Shifted
  <2> QED
    BY <1>2, <2>6, <2>9
<1> QED
  BY <1>0, <1>4, <1>5, <1>6

\* Flush settles the rest of the answer.
LEMMA SettledFlush ==
  ASSUME Buffered, Settled, Flush
  PROVE  Settled'
<1>0. /\ mapping \in Mappings /\ text \in Texts /\ emitted \in 0 .. Len(text) /\ Len(text) \in Nat
      /\ buf = SubSeq(text, emitted + 1, Len(text)) /\ pc = "answer"
  BY TextIs DEF Buffered, Flush
<1>1. /\ emitted + 1 \in 1 .. Len(text) + 1 /\ Len(text) \in (emitted + 1) - 1 .. Len(text)
      /\ Len(text) - (emitted + 1) + 1 = Len(text) - emitted
  BY <1>0
<1>2. Len(buf) = Len(text) - emitted
  BY <1>0, <1>1, CutIs
<1>3. emitted' = Len(text)
  BY <1>0, <1>2 DEF Flush
<1>4. text' = text /\ mapping' = mapping /\ pc' = "done"
      /\ restored' = restored \cup Shifted(Unmask(buf, mapping))
  BY DEF Flush
<1> SUFFICES ASSUME NEW s \in Unmask(text, mapping)
             PROVE  s[2] <= Len(text) /\ s \in restored'
  BY <1>3, <1>4 DEF Settled
<1>5. /\ s[1] \in Stops(UnmaskScan(text, mapping)) /\ Span(text, s[1], s[2], mapping)
      /\ s[1] \in 1 .. Len(text) /\ s[2] \in 1 .. Len(text) /\ s = <<s[1], s[2]>>
  BY <1>0, UnmaskedSpan
<1>6. CASE s[1] <= emitted
  <2>1. Starts(text, text)
    BY <1>0 DEF Starts
  <2>2. s \in restored
    BY <1>0, <1>6, <2>1 DEF Settled
  <2> QED
    BY <1>4, <1>5, <2>2
<1>7. CASE s[1] > emitted
  <2> DEFINE v == <<s[1] - emitted, s[2] - emitted>>
  <2>1. Len(text) \in emitted .. Len(text) /\ s[2] <= Len(text)
    BY <1>0, <1>5
  <2>2. v \in Unmask(buf, mapping)
    BY <1>0, <1>5, <1>7, <2>1, PieceKeeps
  <2>3. v[1] + emitted = s[1] /\ v[2] + emitted = s[2]
    BY <1>0, <1>5
  <2> HIDE DEF v
  <2>4. s \in Shifted(Unmask(buf, mapping))
    BY <1>5, <2>2, <2>3 DEF Shifted
  <2> QED
    BY <1>4, <2>1, <2>4
<1>8. s[1] <= emitted \/ s[1] > emitted
  BY <1>0, <1>5
<1> QED
  BY <1>6, <1>7, <1>8

\* Every step settles what leaves the buffer.
LEMMA SettledNext ==
  Buffered /\ Settled /\ [Next]_vars => Settled'
<1> SUFFICES ASSUME Buffered, Settled, [Next]_vars
             PROVE  Settled'
  OBVIOUS
<1>0. Buffered'
  BY BufferedNext
<1>1. CASE Mask
  <2>1. text = <<>> /\ text' = text /\ emitted' = emitted
    BY <1>1 DEF Mask, Buffered, answer
  <2>2. emitted = 0
    BY <2>1, EmptyIs DEF Buffered
  <2>3. emitted' = 0 /\ mapping' \in Mappings
    BY <1>0, <2>1, <2>2 DEF Buffered
  <2>4. ASSUME NEW t \in Texts, NEW s \in Unmask(t, mapping')
        PROVE  ~ s[1] <= emitted'
    <3>1. s[1] \in 1 .. Len(t) /\ Len(t) \in Nat
      BY <2>3, UnmaskedSpan, TextIs
    <3> QED
      BY <2>3, <3>1
  <2> QED
    BY <2>4 DEF Settled
<1>2. CASE Event
  <2>1. PICK d \in Texts : Feed(d)
    BY <1>2, EventIs
  <2>2. pc = "answer" /\ pc' = pc /\ mapping' = mapping
    BY <1>2 DEF Event
  <2> QED
    BY <2>1, <2>2, SettledFeed
<1>3. CASE Flush
  BY <1>3, SettledFlush
<1>4. CASE RestoreBody
  <2>1. /\ text' = masked /\ emitted' = Len(masked) /\ restored' = Unmask(masked, mapping)
        /\ pc' = "done" /\ mapping' = mapping
    BY <1>4 DEF RestoreBody
  <2>2. mapping \in Mappings /\ masked \in Texts
    BY DEF Buffered
  <2>3. \A s \in Unmask(masked, mapping) : s[2] \in 1 .. Len(masked)
    BY <2>2, UnmaskedSpan
  <2>4. Len(masked) \in Nat
    BY <2>2, TextIs
  <2> QED
    BY <2>1, <2>3, <2>4 DEF Settled
<1>5. CASE UNCHANGED vars
  BY <1>5 DEF vars, Settled
<1> QED
  BY <1>1, <1>2, <1>3, <1>4, <1>5 DEF Next

\* The buffer is always the end of the answer that was not handed on, and the
\* answer of an echo the start of the masked text.
THEOREM BufferIsTail == Spec => []Buffered
<1>1. Init => Buffered
  BY BufferedInit
<1>2. Buffered /\ [Next]_vars => Buffered'
  BY BufferedNext
<1> QED
  BY <1>1, <1>2, PTL DEF Spec

\* Whatever the answer, and however the events cut it, feedPIIStreamBuffer and
\* flushPIIStreamBuffer restore every placeholder that Unmask would restore in
\* the whole text.
THEOREM SplitsAreRestored == Spec => []SplitsRestored
<1>1. Init => Buffered /\ Settled
  <2> SUFFICES ASSUME Init
               PROVE  Buffered /\ Settled
    OBVIOUS
  <2>1. Buffered
    BY BufferedInit
  <2>2. emitted = 0
    BY DEF Init
  <2> QED
    BY <2>1, <2>2, SettledNone
<1>2. (Buffered /\ Settled) /\ [Next]_vars => (Buffered /\ Settled)'
  BY BufferedNext, SettledNext
<1>3. Buffered /\ Settled => SplitsRestored
  <2> SUFFICES ASSUME Buffered, Settled, pc = "done", NEW s \in Unmask(text, mapping)
               PROVE  s \in restored
    BY DEF SplitsRestored
  <2>1. text \in Texts /\ mapping \in Mappings /\ emitted = Len(text) /\ Len(text) \in Nat
    BY TextIs DEF Buffered
  <2>2. s[1] \in 1 .. Len(text)
    BY <2>1, UnmaskedSpan
  <2>3. s[1] <= emitted /\ Starts(text, text)
    BY <2>1, <2>2 DEF Starts
  <2> QED
    BY <2>1, <2>3 DEF Settled
<1> QED
  BY <1>1, <1>2, <1>3, PTL DEF Spec

-----------------------------------------------------------------------------
(* The masked text, block by block: what became of each stop of MaskScan.  *)

\* The number of the value that begins at i.
Number(r, i) == NumberOf(Assigned(r), Value(r.text, <<i, MaskScan(r)[i] - 1>>))

\* rest is what ApplyMask makes of r from each position on.
Masks(rest, r) == Request(r) /\ Replacing(rest, r.text, Placeholders(r))

\* At each stop the masked text goes on with the symbol that is there or with the
\* placeholder of the value that begins there.
LEMMA BlockIs ==
  ASSUME NEW r, NEW rest, Masks(rest, r), NEW i \in Stops(MaskScan(r))
  PROVE  /\ i \in 1 .. Len(r.text) /\ MaskScan(r)[i] \in i + 1 .. Len(r.text) + 1
         /\ MaskScan(r)[i] \in Stops(MaskScan(r)) \cup {Len(r.text) + 1}
         /\ EndsAt(r, i) = {} =>
              /\ MaskScan(r)[i] = i + 1
              /\ rest[i] = <<r.text[i]>> \o rest[i + 1]
         /\ EndsAt(r, i) # {} =>
              /\ Number(r, i) \in DOMAIN Assigned(r)
              /\ Assigned(r)[Number(r, i)] = SubSeq(r.text, i, MaskScan(r)[i] - 1)
              /\ rest[i] = Token(Number(r, i)) \o rest[MaskScan(r)[i]]
<1> DEFINE n == Len(r.text)
           K == MaskScan(r)
<1>0. Request(r) /\ Replacing(rest, r.text, Placeholders(r)) /\ n \in Nat
  BY RequestIs DEF Masks
<1>1. i \in 1 .. n
  BY <1>0, MaskScanIs DEF Stops
<1>2. K[i] \in i + 1 .. n + 1 /\ (EndsAt(r, i) = {} => K[i] = i + 1)
  BY <1>0, <1>1, MaskScanIs
<1>3. K[i] \in Stops(K) \cup {n + 1}
  <2>1. CASE K[i] <= n
    <3>1. K[i] \in 1 .. n
      BY <1>0, <1>1, <1>2, <2>1
    <3>2. K[i] \in DOMAIN K
      BY <1>0, <3>1, MaskScanIs
    <3> QED
      BY <1>0, <3>2, MaskScanIs, StopsRule
  <2>2. CASE K[i] > n
    <3>1. K[i] = n + 1
      BY <1>0, <1>1, <1>2, <2>2
    <3> QED
      BY <3>1
  <2>3. K[i] <= n \/ K[i] > n
    BY <1>0, <1>1, <1>2
  <2> QED
    BY <2>1, <2>2, <2>3
<1> HIDE DEF n, K
<1>4. DOMAIN Placeholders(r) = Kept(r)
  BY DEF Placeholders
<1>5. ASSUME EndsAt(r, i) = {}
      PROVE  rest[i] = <<r.text[i]>> \o rest[i + 1]
  <2>1. \A s \in Kept(r) : s[1] # i
    BY <1>0, <1>5, KeptIs
  <2> QED
    BY <1>0, <1>1, <1>4, <2>1 DEF Replacing, n
<1>6. ASSUME EndsAt(r, i) # {}
      PROVE  /\ Number(r, i) \in DOMAIN Assigned(r)
             /\ Assigned(r)[Number(r, i)] = SubSeq(r.text, i, K[i] - 1)
             /\ rest[i] = Token(Number(r, i)) \o rest[K[i]]
  <2> DEFINE s == <<i, K[i] - 1>>
  <2>1. s \in Kept(r)
    BY <1>0, <1>6, KeptIs DEF K
  <2>2. s[1] = i /\ s[2] = K[i] - 1 /\ s[2] + 1 = K[i]
    BY <1>0, <1>1, <1>2
  <2>3. Number(r, i) = NumberOf(Assigned(r), Value(r.text, s))
    BY DEF Number, K
  <2>4. Value(r.text, s) = SubSeq(r.text, i, K[i] - 1)
    BY DEF Value
  <2> HIDE DEF s
  <2>5. /\ Number(r, i) \in DOMAIN Assigned(r)
        /\ Assigned(r)[Number(r, i)] = Value(r.text, s)
    BY <1>0, <2>1, <2>3, AssignedIs
  <2>6. Placeholders(r)[s] = Token(Number(r, i))
    BY <2>1, <2>3 DEF Placeholders
  <2>7. rest[s[1]] = Placeholders(r)[s] \o rest[s[2] + 1]
    BY <1>0, <1>4, <2>1 DEF Replacing
  <2> QED
    BY <2>2, <2>4, <2>5, <2>6, <2>7
<1> QED
  BY <1>1, <1>2, <1>3, <1>5, <1>6 DEF n, K

\* The last block ends the text.
LEMMA LastBlock ==
  ASSUME NEW r, NEW rest, Masks(rest, r), Len(r.text) > 0
  PROVE  \E j \in Stops(MaskScan(r)) : MaskScan(r)[j] = Len(r.text) + 1
<1> DEFINE n == Len(r.text)
           S == Stops(MaskScan(r))
<1>0. n \in Nat /\ Request(r)
  BY RequestIs DEF Masks
<1>1. 1 \in S
  <2>1. 1 \in DOMAIN MaskScan(r)
    BY <1>0, MaskScanIs
  <2> QED
    BY <1>0, <2>1, MaskScanIs, StopsRule
<1>2. \A i \in S : /\ i \in 1 .. n /\ MaskScan(r)[i] \in i + 1 .. n + 1
                   /\ MaskScan(r)[i] \in S \cup {n + 1}
  BY BlockIs
<1> HIDE DEF n, S
<1>3. S \in SUBSET (0 .. n) /\ S # {}
  BY <1>0, <1>1, <1>2
<1>4. Max(S) \in S /\ \A k \in S : Max(S) >= k
  BY <1>0, <1>3, GreatestOf
<1>5. MaskScan(r)[Max(S)] \notin S
  BY <1>0, <1>2, <1>4
<1> QED
  BY <1>2, <1>4, <1>5 DEF S, n

\* x is how w ends.
Ends(x, w) == Len(x) <= Len(w) /\ \A k \in 1 .. Len(x) : w[Len(w) - Len(x) + k] = x[k]

\* What a text ends in ends in each of its own ends.
LEMMA EndsFurther ==
  ASSUME NEW w \in Texts, NEW p \in Texts, NEW x \in Texts, Ends(p \o x, w)
  PROVE  /\ Ends(x, w) /\ Len(p \o x) = Len(p) + Len(x) /\ Len(p) + Len(x) <= Len(w)
         /\ \A k \in 1 .. Len(p) : w[Len(w) - Len(p \o x) + k] = p[k]
<1>0. Len(w) \in Nat /\ Len(p) \in Nat /\ Len(x) \in Nat
  BY TextIs
<1>1. /\ Len(p \o x) = Len(p) + Len(x)
      /\ \A i \in 1 .. Len(p) : (p \o x)[i] = p[i]
      /\ \A i \in Len(p) + 1 .. Len(p) + Len(x) : (p \o x)[i] = x[i - Len(p)]
  BY CatIs
<1>2. /\ Len(p) + Len(x) <= Len(w)
      /\ \A k \in 1 .. Len(p) + Len(x) : w[Len(w) - Len(p \o x) + k] = (p \o x)[k]
  BY <1>1 DEF Ends
<1>3. ASSUME NEW k \in 1 .. Len(x)
      PROVE  w[Len(w) - Len(x) + k] = x[k]
  <2>1. /\ Len(p) + k \in Len(p) + 1 .. Len(p) + Len(x) /\ Len(p) + k \in 1 .. Len(p) + Len(x)
        /\ (Len(p) + k) - Len(p) = k
        /\ Len(w) - Len(p \o x) + (Len(p) + k) = Len(w) - Len(x) + k
    BY <1>0, <1>1
  <2>2. (p \o x)[Len(p) + k] = x[k]
    BY <1>1, <2>1
  <2>3. w[Len(w) - Len(p \o x) + (Len(p) + k)] = (p \o x)[Len(p) + k]
    BY <1>2, <2>1
  <2> QED
    BY <2>1, <2>2, <2>3
<1>4. Ends(x, w)
  <2>1. Len(x) <= Len(w)
    BY <1>0, <1>2
  <2> QED
    BY <1>3, <2>1 DEF Ends
<1>5. ASSUME NEW k \in 1 .. Len(p)
      PROVE  w[Len(w) - Len(p \o x) + k] = p[k]
  <2>1. k \in 1 .. Len(p) + Len(x)
    BY <1>0
  <2> QED
    BY <1>1, <1>2, <2>1
<1> QED
  BY <1>1, <1>2, <1>4, <1>5

\* The masked text from each position on is a text.
LEMMA RestIs ==
  ASSUME NEW r, NEW rest, Masks(rest, r)
  PROVE  /\ Len(r.text) \in Nat /\ r.text \in Texts /\ rest[Len(r.text) + 1] = <<>>
         /\ \A i \in 1 .. Len(r.text) + 1 : rest[i] \in Texts /\ Len(rest[i]) \in Nat
         /\ rest[1] \in Texts
<1>1. Len(r.text) \in Nat /\ r.text \in Texts
  BY RequestIs DEF Masks
<1>2. rest \in [1 .. Len(r.text) + 1 -> Texts] /\ rest[Len(r.text) + 1] = <<>>
  BY DEF Masks, Replacing
<1>3. \A i \in 1 .. Len(r.text) + 1 : rest[i] \in Texts
  BY <1>2
<1>4. \A i \in 1 .. Len(r.text) + 1 : Len(rest[i]) \in Nat
  BY <1>3, TextIs
<1>5. 1 \in 1 .. Len(r.text) + 1
  BY <1>1
<1> QED
  BY <1>1, <1>2, <1>3, <1>4, <1>5

\* What became of the text from a stop on is how the masked text ends.
LEMMA RestEnds ==
  ASSUME NEW r, NEW rest, Masks(rest, r)
  PROVE  \A i \in Stops(MaskScan(r)) \cup {Len(r.text) + 1} : Ends(rest[i], rest[1])
<1> DEFINE n == Len(r.text)
           K == MaskScan(r)
           S == Stops(K)
           w == rest[1]
           G == {i \in 1 .. n + 1 : i \in S \cup {n + 1} => Ends(rest[i], w)}
<1>0. n \in Nat /\ w \in Texts /\ Len(w) \in Nat /\ Request(r)
      /\ \A i \in 1 .. n + 1 : rest[i] \in Texts
  BY RestIs, TextIs DEF Masks
<1>1. \A i \in S : i \in 1 .. n /\ K[i] \in i + 1 .. n + 1
  BY BlockIs
<1>2. ASSUME NEW j \in S, Ends(rest[j], w)
      PROVE  Ends(rest[K[j]], w)
  <2>1. j \in 1 .. n /\ K[j] \in 1 .. n + 1
    BY <1>0, <1>1
  <2>2. \E p \in Texts : rest[j] = p \o rest[K[j]]
    <3>1. CASE EndsAt(r, j) = {}
      <4>0. K[j] = j + 1 /\ rest[j] = <<r.text[j]>> \o rest[j + 1]
        BY <3>1, BlockIs
      <4>1. rest[j] = <<r.text[j]>> \o rest[K[j]]
        BY <4>0, Zenon
      <4>2. r.text[j] \in Chars
        BY <2>1, RestIs, TextIs
      <4>3. <<r.text[j]>> \in Texts
        BY <4>2, OneIs
      <4> QED
        BY <4>1, <4>3
    <3>2. CASE EndsAt(r, j) # {}
      <4>1. rest[j] = Token(Number(r, j)) \o rest[K[j]] /\ Number(r, j) \in DOMAIN Assigned(r)
        BY <3>2, BlockIs
      <4>2. Number(r, j) \in Nat
        BY <1>0, <4>1, AssignedIs, MappingIs
      <4>3. Token(Number(r, j)) \in Texts
        BY <4>2, TokenIs
      <4> QED
        BY <4>1, <4>3
    <3> QED
      BY <3>1, <3>2
  <2>3. PICK p \in Texts : rest[j] = p \o rest[K[j]]
    BY <2>2
  <2>4. rest[K[j]] \in Texts
    BY <1>0, <2>1
  <2>5. Ends(p \o rest[K[j]], w)
    BY <1>2, <2>3
  <2> QED
    BY <1>0, <2>4, <2>5, EndsFurther
<1>3. ASSUME NEW i \in 1 .. n + 1, \A j \in 1 .. i - 1 : j \in G, i \in S \cup {n + 1}
      PROVE  Ends(rest[i], w)
  <2>1. CASE i = 1
    <3>1. \A k \in 1 .. Len(w) : Len(w) - Len(w) + k = k
      BY <1>0
    <3>2. Ends(w, w)
      BY <1>0, <3>1 DEF Ends
    <3> QED
      BY <2>1, <3>2
  <2>2. CASE i # 1
    <3>1. \E j \in S : K[j] = i
      <4>1. CASE i \in S
        <5>1. i \in DOMAIN K
          BY <1>0, <1>1, <4>1, MaskScanIs
        <5> QED
          BY <1>0, <2>2, <4>1, <5>1, MaskScanIs, StopsRule
      <4>2. CASE i = n + 1
        <5>1. n > 0
          BY <1>0, <2>2, <4>2
        <5> QED
          BY <4>2, <5>1, LastBlock
      <4> QED
        BY <1>3, <4>1, <4>2
    <3>2. PICK j \in S : K[j] = i
      BY <3>1
    <3>3. j \in 1 .. i - 1 /\ j \in 1 .. n
      BY <1>0, <1>1, <3>2
    <3>4. j \in G
      BY <1>3, <3>3
    <3>5. Ends(rest[j], w)
      BY <3>2, <3>4
    <3> QED
      BY <1>2, <3>2, <3>5
  <2> QED
    BY <2>1, <2>2
<1>4. \A i \in 1 .. n + 1 : (\A j \in 1 .. i - 1 : j \in G) => i \in G
  BY <1>3
<1>5. 1 .. n + 1 \subseteq G
  <2> HIDE DEF G
  <2>1. n + 1 \in Nat
    BY <1>0
  <2> QED
    BY <1>4, <2>1, Upwards
<1>6. \A i \in S \cup {n + 1} : i \in 1 .. n + 1
  BY <1>0, <1>1
<1> QED
  BY <1>5, <1>6

\* Where the block of i begins in the masked text.
At(rest, i) == Len(rest[1]) - Len(rest[i]) + 1

\* A block is a symbol of the text or the placeholder of a value.
LEMMA BlockAt ==
  ASSUME NEW r, NEW rest, Masks(rest, r), NEW i \in Stops(MaskScan(r))
  PROVE  /\ At(rest, i) \in 1 .. Len(rest[1]) /\ At(rest, MaskScan(r)[i]) \in 1 .. Len(rest[1]) + 1
         /\ EndsAt(r, i) = {} =>
              /\ At(rest, i + 1) = At(rest, i) + 1
              /\ rest[1][At(rest, i)] = r.text[i]
         /\ EndsAt(r, i) # {} =>
              /\ At(rest, MaskScan(r)[i]) = At(rest, i) + Number(r, i) + 3
              /\ \A k \in 1 .. Number(r, i) + 3 :
                   rest[1][At(rest, i) + k - 1] = Token(Number(r, i))[k]
<1> DEFINE n == Len(r.text)
           j == MaskScan(r)[i]
           w == rest[1]
           x == rest[j]
<1>0. /\ n \in Nat /\ i \in 1 .. n /\ j \in i + 1 .. n + 1 /\ w \in Texts /\ Len(w) \in Nat
      /\ Request(r)
  BY BlockIs, RestIs, TextIs DEF Masks
<1>1. j \in 1 .. n + 1 /\ i \in 1 .. n + 1
  BY <1>0
<1>2. x \in Texts /\ Len(x) \in Nat /\ Len(rest[i]) \in Nat
  BY <1>1, RestIs
<1>3. Ends(rest[i], w)
  BY RestEnds
<1>4. ASSUME NEW p \in Texts, rest[i] = p \o x, NEW q \in Nat \ {0}, Len(p) = q
      PROVE  /\ At(rest, i) \in 1 .. Len(w) /\ At(rest, j) = At(rest, i) + q
             /\ At(rest, j) \in 1 .. Len(w) + 1
             /\ \A k \in 1 .. q : w[At(rest, i) + k - 1] = p[k]
  <2>1. Ends(p \o x, w)
    BY <1>3, <1>4
  <2>2. /\ Len(p \o x) = q + Len(x) /\ q + Len(x) <= Len(w)
        /\ \A k \in 1 .. q : w[Len(w) - Len(p \o x) + k] = p[k]
    <3> HIDE DEF w, x
    <3>1. /\ Len(p \o x) = Len(p) + Len(x) /\ Len(p) + Len(x) <= Len(w)
          /\ \A k \in 1 .. Len(p) : w[Len(w) - Len(p \o x) + k] = p[k]
      BY <1>0, <1>2, <2>1, EndsFurther
    <3> QED
      BY <1>4, <3>1
  <2>3. At(rest, i) = Len(w) - (q + Len(x)) + 1 /\ At(rest, j) = Len(w) - Len(x) + 1
    BY <1>4, <2>2 DEF At
  <2>4. ASSUME NEW k \in 1 .. q
        PROVE  w[At(rest, i) + k - 1] = p[k]
    <3>1. At(rest, i) + k - 1 = Len(w) - Len(p \o x) + k
      BY <1>0, <1>2, <2>2, <2>3
    <3> QED
      BY <2>2, <3>1
  <2>5. /\ At(rest, i) \in 1 .. Len(w) /\ At(rest, j) = At(rest, i) + q
        /\ At(rest, j) \in 1 .. Len(w) + 1
    <3> HIDE DEF w, x, j
    <3> QED
      BY <1>0, <1>2, <2>2, <2>3
  <2> QED
    BY <2>4, <2>5
<1>5. CASE EndsAt(r, i) = {}
  <2> DEFINE p == <<r.text[i]>>
  <2>0. j = i + 1 /\ rest[i] = p \o rest[i + 1]
    BY <1>5, BlockIs
  <2>1. rest[i] = p \o x /\ j = i + 1
    BY <2>0, Zenon
  <2>2. r.text[i] \in Chars
    BY <1>0, RestIs, TextIs
  <2>3. p \in Texts /\ Len(p) = 1 /\ p[1] = r.text[i]
    BY <2>2, OneIs
  <2> HIDE DEF p
  <2>4. /\ At(rest, i) \in 1 .. Len(w) /\ At(rest, j) = At(rest, i) + 1
        /\ At(rest, j) \in 1 .. Len(w) + 1
        /\ \A k \in 1 .. 1 : w[At(rest, i) + k - 1] = p[k]
    <3>1. 1 \in Nat \ {0}
      OBVIOUS
    <3> HIDE DEF w, x, j
    <3> QED
      BY <1>4, <2>1, <2>3, <3>1
  <2>5. w[At(rest, i) + 1 - 1] = p[1]
    BY <2>4
  <2>6. At(rest, i) + 1 - 1 = At(rest, i)
    BY <1>0, <2>4
  <2> QED
    BY <1>5, <2>1, <2>3, <2>4, <2>5, <2>6
<1>6. CASE EndsAt(r, i) # {}
  <2> DEFINE q == Number(r, i)
             p == Token(q)
  <2>1. rest[i] = p \o x /\ q \in DOMAIN Assigned(r)
    BY <1>6, BlockIs
  <2>2. q \in Nat
    BY <1>0, <2>1, AssignedIs, MappingIs
  <2>3. p \in Texts /\ Len(p) = q + 3 /\ q + 3 \in Nat \ {0}
    <3>1. p \in Texts /\ Len(p) = q + 3
      BY <2>2, TokenIs
    <3> HIDE DEF p, q
    <3> QED
      BY <2>2, <3>1
  <2>4. /\ At(rest, i) \in 1 .. Len(w) /\ At(rest, j) = At(rest, i) + (q + 3)
        /\ At(rest, j) \in 1 .. Len(w) + 1
        /\ \A k \in 1 .. q + 3 : w[At(rest, i) + k - 1] = p[k]
    <3> HIDE DEF w, x, j, p, q
    <3> QED
      BY <1>4, <2>1, <2>3
  <2>5. At(rest, i) + (q + 3) = At(rest, i) + q + 3
    BY <1>0, <2>2, <2>4
  <2> QED
    BY <1>6, <2>4, <2>5
<1> QED
  BY <1>5, <1>6

\* Every symbol of the masked text is in a block.
LEMMA BlockOf ==
  ASSUME NEW r, NEW rest, Masks(rest, r), NEW k \in 1 .. Len(rest[1])
  PROVE  \E i \in Stops(MaskScan(r)) : At(rest, i) <= k /\ k < At(rest, MaskScan(r)[i])
<1> DEFINE n == Len(r.text)
           K == MaskScan(r)
           S == Stops(K)
           w == rest[1]
           T == {i \in S : At(rest, i) <= k}
<1>0. n \in Nat /\ w \in Texts /\ Len(w) \in Nat /\ Request(r) /\ rest[n + 1] = <<>>
  BY RestIs, TextIs DEF Masks
<1>1. n > 0
  <2> SUFFICES ASSUME n = 0
               PROVE  FALSE
    BY <1>0
  <2>1. n + 1 = 1
    OBVIOUS
  <2>2. Len(w) = 0
    BY <1>0, <2>1, EmptyIs
  <2> QED
    BY <2>2
<1>2. \A i \in S : /\ i \in 1 .. n /\ K[i] \in i + 1 .. n + 1 /\ K[i] \in S \cup {n + 1}
                   /\ At(rest, i) \in 1 .. Len(w)
  BY BlockIs, BlockAt
<1>3. 1 \in T
  <2>1. 1 \in DOMAIN K
    BY <1>0, <1>1, MaskScanIs
  <2>2. 1 \in S
    BY <1>0, <2>1, MaskScanIs, StopsRule
  <2>3. At(rest, 1) = 1
    BY <1>0 DEF At
  <2> QED
    BY <2>2, <2>3
<1>4. T \in SUBSET (0 .. n) /\ T # {}
  BY <1>0, <1>2, <1>3
<1> HIDE DEF T
<1>5. Max(T) \in T /\ \A j \in T : Max(T) >= j
  BY <1>0, <1>4, GreatestOf
<1> DEFINE i == Max(T)
<1>6. i \in S /\ At(rest, i) <= k
  BY <1>5 DEF T
<1>7. i \in 1 .. n /\ K[i] \in i + 1 .. n + 1 /\ K[i] \in S \cup {n + 1}
  BY <1>2, <1>6
<1>8. K[i] \notin T
  <2> HIDE DEF K
  <2> QED
    BY <1>0, <1>5, <1>7
<1>9. k < At(rest, K[i])
  <2>1. CASE K[i] \in S
    <3>1. ~ At(rest, K[i]) <= k
      BY <1>8, <2>1 DEF T
    <3>2. At(rest, K[i]) \in 1 .. Len(w)
      BY <1>2, <2>1
    <3> HIDE DEF K, i
    <3> QED
      BY <1>0, <3>1, <3>2
  <2>2. CASE K[i] = n + 1
    <3>1. At(rest, n + 1) = Len(w) - 0 + 1
      BY <1>0, EmptyIs DEF At
    <3>2. k < Len(w) - 0 + 1
      BY <1>0
    <3> QED
      BY <2>2, <3>1, <3>2
  <2> QED
    BY <1>7, <2>1, <2>2
<1> QED
  BY <1>6, <1>9

\* The placeholder of a value is one in the masked text.
LEMMA BlockToken ==
  ASSUME NEW r, NEW rest, Masks(rest, r), NEW i \in Stops(MaskScan(r)), EndsAt(r, i) # {}
  PROVE  /\ At(rest, i) + Number(r, i) + 2 \in 1 .. Len(rest[1])
         /\ TokenSpan(rest[1], At(rest, i), At(rest, i) + Number(r, i) + 2, Assigned(r))
         /\ SubSeq(rest[1], At(rest, i), At(rest, i) + Number(r, i) + 2) = Token(Number(r, i))
<1> DEFINE a == At(rest, i)
           q == Number(r, i)
           w == rest[1]
<1>0. w \in Texts /\ Len(w) \in Nat
  BY RestIs, TextIs
<1>1. /\ a \in 1 .. Len(w) /\ At(rest, MaskScan(r)[i]) \in 1 .. Len(w) + 1
      /\ At(rest, MaskScan(r)[i]) = a + q + 3
      /\ \A k \in 1 .. q + 3 : w[a + k - 1] = Token(q)[k]
  BY BlockAt
<1>2. q \in DOMAIN Assigned(r)
  BY BlockIs
<1>3. q \in Nat
  BY <1>2, AssignedIs, MappingIs DEF Masks
<1>4. /\ Token(q) \in Texts /\ Len(Token(q)) = q + 3
      /\ Token(q)[1] = "[" /\ Token(q)[2] = "p" /\ Token(q)[q + 3] = "]"
      /\ \A k \in 3 .. q + 2 : Token(q)[k] = "1"
  BY <1>3, TokenIs
<1> HIDE DEF a, q, w
<1>5. a + q + 2 \in 1 .. Len(w) /\ (a + q + 2) - a - 2 = q
  BY <1>0, <1>1, <1>3
<1>6. w[a] = "[" /\ w[a + 1] = "p" /\ w[a + q + 2] = "]"
  <2>1. /\ 1 \in 1 .. q + 3 /\ 2 \in 1 .. q + 3 /\ q + 3 \in 1 .. q + 3
        /\ a + 1 - 1 = a /\ a + 2 - 1 = a + 1 /\ a + (q + 3) - 1 = a + q + 2
    BY <1>1, <1>3
  <2>2. /\ w[a + 1 - 1] = Token(q)[1] /\ w[a + 2 - 1] = Token(q)[2]
        /\ w[a + (q + 3) - 1] = Token(q)[q + 3]
    BY <1>1, <2>1
  <2> QED
    BY <1>4, <2>1, <2>2
<1>7. ASSUME NEW k \in a + 2 .. (a + q + 2) - 1
      PROVE  w[k] = "1"
  <2>1. k - a + 1 \in 1 .. q + 3 /\ k - a + 1 \in 3 .. q + 2 /\ a + (k - a + 1) - 1 = k
    BY <1>1, <1>3
  <2>2. w[a + (k - a + 1) - 1] = Token(q)[k - a + 1]
    BY <1>1, <2>1
  <2> QED
    BY <1>4, <2>1, <2>2
<1>8. TokenSpan(w, a, a + q + 2, Assigned(r))
  <2>1. (a + q + 2) - a - 2 \in DOMAIN Assigned(r)
    BY <1>2, <1>5 DEF q
  <2>2. a + q + 2 <= Len(w)
    BY <1>0, <1>5
  <2> QED
    BY <1>6, <1>7, <2>1, <2>2 DEF TokenSpan
<1>9. SubSeq(w, a, a + q + 2) = Token(q)
  <2>1. /\ a \in 1 .. Len(w) + 1 /\ a + q + 2 \in a - 1 .. Len(w)
        /\ (a + q + 2) - a + 1 = q + 3
    BY <1>0, <1>1, <1>3, <1>5
  <2>2. /\ SubSeq(w, a, a + q + 2) \in Texts /\ Len(SubSeq(w, a, a + q + 2)) = q + 3
        /\ \A j \in 1 .. q + 3 : SubSeq(w, a, a + q + 2)[j] = w[a + j - 1]
    BY <1>0, <2>1, CutIs
  <2>3. \A j \in 1 .. q + 3 : SubSeq(w, a, a + q + 2)[j] = Token(q)[j]
    BY <1>1, <2>2
  <2> QED
    BY <1>4, <2>2, <2>3, SameText
<1> QED
  BY <1>5, <1>8, <1>9 DEF a, q, w

\* The brackets of the masked text open placeholders, and what looks like a
\* bare placeholder is in one.
MaskedPlain(w, m) ==
  /\ \A k \in 1 .. Len(w) : w[k] = "[" => \E e \in 1 .. Len(w) : TokenSpan(w, k, e, m)
  /\ \A k \in 1 .. Len(w) :
       k < Len(w) /\ w[k] = "p" /\ w[k + 1] = "1" => k > 1 /\ w[k - 1] = "["

\* The masked form of a plain text contains no open bracket and no bare
\* placeholder but those of the placeholders that ApplyMask wrote.
LEMMA MaskedIsPlain ==
  ASSUME NEW r, NEW rest, Masks(rest, r), Plain(r)
  PROVE  MaskedPlain(rest[1], Assigned(r))
<1> DEFINE w == rest[1]
           n == Len(r.text)
<1>0. w \in Texts /\ Len(w) \in Nat /\ Request(r) /\ n \in Nat
  BY RestIs, TextIs DEF Masks
<1>1. ASSUME NEW i \in Stops(MaskScan(r)), EndsAt(r, i) # {},
             NEW k \in 1 .. Len(w), At(rest, i) <= k, k < At(rest, MaskScan(r)[i])
      PROVE  /\ w[At(rest, i)] = "["
             /\ w[k] = "[" => k = At(rest, i) /\ \E e \in 1 .. Len(w) : TokenSpan(w, k, e, Assigned(r))
             /\ w[k] = "p" => k = At(rest, i) + 1
  <2> DEFINE a == At(rest, i)
             q == Number(r, i)
  <2>1. /\ a \in 1 .. Len(w) /\ At(rest, MaskScan(r)[i]) = a + q + 3
        /\ a + q + 2 \in 1 .. Len(w) /\ TokenSpan(w, a, a + q + 2, Assigned(r))
    BY <1>1, BlockAt, BlockToken
  <2>2. q \in Nat
    <3>1. q \in DOMAIN Assigned(r)
      BY <1>1, BlockIs
    <3>2. Assigned(r) \in Mappings
      BY <1>0, AssignedIs
    <3> HIDE DEF q
    <3> QED
      BY <3>1, <3>2, MappingIs
  <2> HIDE DEF a, q
  <2>3. /\ w[a] = "[" /\ w[a + 1] = "p" /\ w[a + q + 2] = "]"
        /\ \A j \in a + 2 .. (a + q + 2) - 1 : w[j] = "1"
    BY <2>1 DEF TokenSpan
  <2>4. k = a \/ k = a + 1 \/ k = a + q + 2 \/ k \in a + 2 .. (a + q + 2) - 1
    <3>1. a <= k /\ k < a + q + 3
      BY <1>1, <2>1 DEF a, q
    <3> QED
      BY <1>0, <2>1, <2>2, <3>1
  <2>5. w[k] = "[" => k = a
    BY <2>3, <2>4
  <2>6. w[k] = "p" => k = a + 1
    BY <2>3, <2>4
  <2> QED
    BY <2>1, <2>3, <2>5, <2>6 DEF a
<1>2. ASSUME NEW i \in Stops(MaskScan(r)), EndsAt(r, i) = {},
             NEW k \in 1 .. Len(w), At(rest, i) <= k, k < At(rest, MaskScan(r)[i])
      PROVE  /\ k = At(rest, i) /\ w[k] = r.text[i] /\ At(rest, i + 1) = k + 1
             /\ w[k] # "["
  <2>1. /\ At(rest, i) \in 1 .. Len(w) /\ At(rest, i + 1) = At(rest, i) + 1
        /\ w[At(rest, i)] = r.text[i] /\ MaskScan(r)[i] = i + 1
    <3>1. /\ At(rest, i) \in 1 .. Len(w) /\ At(rest, i + 1) = At(rest, i) + 1
          /\ w[At(rest, i)] = r.text[i]
      BY <1>2, BlockAt
    <3>2. MaskScan(r)[i] = i + 1
      BY <1>2, BlockIs
    <3> QED
      BY <3>1, <3>2
  <2>2. k < At(rest, i) + 1
    BY <1>2, <2>1
  <2>3. k = At(rest, i)
    BY <1>0, <1>2, <2>1, <2>2
  <2> QED
    BY <1>2, <2>1, <2>3 DEF Plain
<1>3. ASSUME NEW k \in 1 .. Len(w), w[k] = "["
      PROVE  \E e \in 1 .. Len(w) : TokenSpan(w, k, e, Assigned(r))
  <2>1. PICK i \in Stops(MaskScan(r)) : At(rest, i) <= k /\ k < At(rest, MaskScan(r)[i])
    BY BlockOf
  <2> QED
    BY <1>1, <1>2, <1>3, <2>1
<1>4. ASSUME NEW k \in 1 .. Len(w), k < Len(w), w[k] = "p", w[k + 1] = "1"
      PROVE  k > 1 /\ w[k - 1] = "["
  <2>1. PICK i \in Stops(MaskScan(r)) : At(rest, i) <= k /\ k < At(rest, MaskScan(r)[i])
    BY BlockOf
  <2>2. CASE EndsAt(r, i) # {}
    <3>1. w[At(rest, i)] = "[" /\ k = At(rest, i) + 1 /\ At(rest, i) \in 1 .. Len(w)
      BY <1>1, <1>4, <2>1, <2>2, BlockAt
    <3>2. k - 1 = At(rest, i) /\ k > 1
      BY <1>0, <3>1
    <3> QED
      BY <3>1, <3>2
  <2>3. CASE EndsAt(r, i) = {}
    <3>1. k = At(rest, i) /\ r.text[i] = "p" /\ At(rest, i + 1) = k + 1 /\ MaskScan(r)[i] = i + 1
      BY <1>2, <1>4, <2>1, <2>3, BlockIs
    <3>2. i + 1 \in Stops(MaskScan(r)) /\ i < n /\ i \in 1 .. n
      <4>1. i \in 1 .. n /\ i + 1 \in Stops(MaskScan(r)) \cup {n + 1}
        BY <3>1, BlockIs
      <4>2. i # n
        <5> SUFFICES ASSUME i = n
                     PROVE  FALSE
          OBVIOUS
        <5>1. rest[n + 1] = <<>>
          BY RestIs
        <5>2. At(rest, n + 1) = Len(w) - 0 + 1
          BY <5>1, EmptyIs DEF At
        <5>3. k + 1 = Len(w) - 0 + 1
          BY <3>1, <5>2
        <5> QED
          BY <1>0, <1>4, <5>3
      <4>3. i + 1 # n + 1
        BY <1>0, <4>1, <4>2
      <4> QED
        BY <1>0, <4>1, <4>2, <4>3
    <3>3. At(rest, i + 1) \in 1 .. Len(w)
      BY <3>2, BlockAt
    <3>4. CASE EndsAt(r, i + 1) = {}
      <4>1. w[At(rest, i + 1)] = r.text[i + 1]
        BY <3>2, <3>4, BlockAt
      <4>2. r.text[i + 1] = "1"
        BY <1>4, <3>1, <4>1
      <4> QED
        BY <2>3, <3>1, <3>2, <3>4, <4>2 DEF Plain
    <3>5. CASE EndsAt(r, i + 1) # {}
      <4>1. TokenSpan(w, At(rest, i + 1), At(rest, i + 1) + Number(r, i + 1) + 2, Assigned(r))
        BY <3>2, <3>5, BlockToken
      <4>2. w[k + 1] = "["
        BY <3>1, <4>1 DEF TokenSpan
      <4> QED
        BY <1>4, <4>2
    <3> QED
      BY <3>4, <3>5
  <2> QED
    BY <2>2, <2>3
<1> QED
  BY <1>3, <1>4 DEF MaskedPlain

-----------------------------------------------------------------------------
(* Restoring the masked text.                                              *)

\* A scan never stops right behind an open bracket.
LEMMA NoStopInBrackets ==
  ASSUME NEW m \in Mappings, NEW t \in Texts, NEW i \in Stops(UnmaskScan(t, m)), i > 1
  PROVE  t[i - 1] # "["
<1> SUFFICES ASSUME t[i - 1] = "["
             PROVE  FALSE
  OBVIOUS
<1> DEFINE u == UnmaskScan(t, m)
<1>0. /\ IsScan(u) /\ DOMAIN u = 1 .. Len(t) /\ Len(t) \in Nat
      /\ \A j \in Stops(u) : j \in 1 .. Len(t)
  BY UnmaskScanIs, TextIs DEF Stops
<1>1. i \in 1 .. Len(t) /\ i - 1 \in 1 .. Len(t)
  BY <1>0
<1>2. \A j \in 1 .. Len(t) :
        /\ u[j] \in j + 1 .. Len(t) + 1
        /\ t[j] = "[" /\ u[j] <= Len(t) => t[u[j] - 1] = "]"
        /\ IsBare(t, j, m) => BareSpan(t, j, u[j] - 1, m)
        /\ t[j] # "[" /\ ~ IsBare(t, j, m) => u[j] = j + 1
  BY UnmaskScanIs
<1> HIDE DEF u
<1>3. CASE i - 1 \in Stops(u)
  <2>1. i - 1 < i
    BY <1>0, <1>1
  <2>2. u[i - 1] <= i
    BY <1>0, <1>3, <2>1, StopsApart DEF u
  <2>3. u[i - 1] \in (i - 1) + 1 .. Len(t) + 1
    BY <1>1, <1>2
  <2>4. u[i - 1] = i /\ u[i - 1] <= Len(t)
    BY <1>0, <1>1, <2>2, <2>3
  <2>5. t[i - 1] = "]"
    BY <1>1, <1>2, <2>4
  <2> QED
    BY <2>5
<1>4. CASE i - 1 \notin Stops(u)
  <2>1. PICK j \in Stops(u) : j < i - 1 /\ i - 1 < u[j]
    BY <1>0, <1>1, <1>4, StopsCover
  <2>2. j \in 1 .. Len(t) /\ j < i
    BY <1>0, <1>1, <2>1
  <2>3. u[j] <= i
    BY <1>0, <2>2, StopsApart DEF u
  <2>4. u[j] \in j + 1 .. Len(t) + 1
    BY <1>2, <2>2
  <2>5. u[j] = i /\ u[j] <= Len(t) /\ u[j] # j + 1
    BY <1>0, <1>1, <2>1, <2>2, <2>3, <2>4
  <2>6. CASE t[j] = "["
    <3>1. t[i - 1] = "]"
      BY <1>2, <2>2, <2>5, <2>6
    <3> QED
      BY <3>1
  <2>7. CASE t[j] # "["
    <3>1. BareSpan(t, j, i - 1, m)
      BY <1>2, <2>2, <2>5, <2>7
    <3>2. i - 1 \in j + 1 .. i - 1
      BY <1>1, <2>1, <2>2
    <3>3. t[i - 1] = "1"
      BY <3>1, <3>2 DEF BareSpan
    <3> QED
      BY <3>3
  <2> QED
    BY <2>6, <2>7
<1> QED
  BY <1>3, <1>4

\* What Unmask restores in a piece of the masked text that does not begin inside
\* of brackets are placeholders of the masked text.
LEMMA PieceTokens ==
  ASSUME NEW m \in Mappings, NEW w \in Texts, MaskedPlain(w, m),
         NEW a \in 0 .. Len(w), NEW b \in a .. Len(w), a > 0 => w[a] # "[",
         NEW s \in Unmask(SubSeq(w, a + 1, b), m)
  PROVE  /\ s[1] + a \in 1 .. Len(w) /\ s[2] + a \in 1 .. Len(w)
         /\ TokenSpan(w, s[1] + a, s[2] + a, m)
<1> DEFINE p == SubSeq(w, a + 1, b)
           i == s[1]
           e == s[2]
<1>0. Len(w) \in Nat /\ Len(m) \in Nat /\ DOMAIN m = 1 .. Len(m)
  BY TextIs, MappingIs
<1>1. a + 1 \in 1 .. Len(w) + 1 /\ b \in (a + 1) - 1 .. Len(w) /\ b - (a + 1) + 1 = b - a
  BY <1>0
<1>2. p \in Texts /\ Len(p) = b - a /\ \A j \in 1 .. b - a : p[j] = w[a + 1 + j - 1]
  BY <1>1, CutIs
<1>3. \A j \in 1 .. b - a : p[j] = w[j + a]
  <2>1. \A j \in 1 .. b - a : a + 1 + j - 1 = j + a
    BY <1>0
  <2> QED
    BY <1>2, <2>1
<1>4. /\ i \in Stops(UnmaskScan(p, m)) /\ i \in 1 .. b - a /\ e \in 1 .. b - a
      /\ Span(p, i, e, m) /\ i < e
  BY <1>2, UnmaskedSpan
<1> HIDE DEF p, i, e
<1>5. i + a \in 1 .. Len(w) /\ e + a \in 1 .. Len(w)
  BY <1>0, <1>4
<1>6. CASE TokenSpan(p, i, e, m)
  <2>1. /\ e - i - 2 \in DOMAIN m /\ p[i] = "[" /\ p[i + 1] = "p" /\ p[e] = "]"
        /\ \A j \in i + 2 .. e - 1 : p[j] = "1"
    BY <1>6 DEF TokenSpan
  <2>2. (e + a) - (i + a) - 2 = e - i - 2 /\ e + a <= Len(w) /\ i + 1 \in 1 .. b - a
        /\ (i + 1) + a = (i + a) + 1
    BY <1>0, <1>4
  <2>3. w[i + a] = "[" /\ w[(i + a) + 1] = "p" /\ w[e + a] = "]"
    <3>1. p[i] = w[i + a] /\ p[i + 1] = w[(i + 1) + a] /\ p[e] = w[e + a]
      BY <1>3, <1>4, <2>2
    <3> QED
      BY <2>1, <2>2, <3>1
  <2>4. ASSUME NEW j \in (i + a) + 2 .. (e + a) - 1
        PROVE  w[j] = "1"
    <3>1. j - a \in i + 2 .. e - 1 /\ j - a \in 1 .. b - a /\ (j - a) + a = j
      BY <1>0, <1>4
    <3>2. p[j - a] = w[(j - a) + a]
      BY <1>3, <3>1
    <3> QED
      BY <2>1, <3>1, <3>2
  <2>5. (e + a) - (i + a) - 2 \in DOMAIN m
    BY <2>1, <2>2
  <2>6. TokenSpan(w, i + a, e + a, m)
    BY <2>2, <2>3, <2>4, <2>5 DEF TokenSpan
  <2> QED
    BY <1>5, <2>6 DEF i, e
<1>7. CASE BareSpan(p, i, e, m)
  <2>1. p[i] = "p" /\ \A j \in i + 1 .. e : p[j] = "1"
    BY <1>7 DEF BareSpan
  <2>2. i + 1 \in i + 1 .. e /\ i + 1 \in 1 .. b - a /\ (i + 1) + a = (i + a) + 1
        /\ i + a < Len(w)
    BY <1>0, <1>4
  <2>3. w[i + a] = "p" /\ w[(i + a) + 1] = "1"
    <3>1. p[i] = w[i + a] /\ p[i + 1] = w[(i + 1) + a]
      BY <1>3, <1>4, <2>2
    <3> QED
      BY <2>1, <2>2, <3>1
  <2>4. w[(i + a) - 1] = "["
    BY <1>5, <2>2, <2>3 DEF MaskedPlain
  <2>5. CASE i = 1
    <3>1. (i + a) - 1 = a
      BY <1>0, <2>5
    <3>2. a > 0
      <4> SUFFICES ASSUME a = 0
                   PROVE  FALSE
        BY <1>0
      <4>1. i + a > 1
        BY <1>5, <2>2, <2>3 DEF MaskedPlain
      <4> QED
        BY <2>5, <4>1
    <3> QED
      BY <2>4, <3>1, <3>2
  <2>6. CASE i > 1
    <3>1. i - 1 \in 1 .. b - a /\ (i - 1) + a = (i + a) - 1
      BY <1>0, <1>4, <2>6
    <3>2. p[i - 1] = w[(i - 1) + a]
      BY <1>3, <3>1
    <3>3. p[i - 1] = "["
      BY <2>4, <3>1, <3>2
    <3> QED
      BY <1>2, <1>4, <2>6, <3>3, NoStopInBrackets
  <2> QED
    BY <1>0, <1>4, <2>5, <2>6
<1> QED
  BY <1>4, <1>6, <1>7 DEF Span

\* A cut never falls right behind an open bracket of the masked text.
LEMMA CutOutside ==
  ASSUME NEW m \in Mappings, NEW w \in Texts, MaskedPlain(w, m),
         NEW a \in 0 .. Len(w), NEW b \in a .. Len(w),
         NEW c, c = Cut(SubSeq(w, a + 1, b), m), c > 1
  PROVE  w[a + c - 1] # "["
<1> SUFFICES ASSUME w[a + c - 1] = "["
             PROVE  FALSE
  OBVIOUS
<1> DEFINE f == SubSeq(w, a + 1, b)
<1>0. Len(w) \in Nat
  BY TextIs
<1>1. a + 1 \in 1 .. Len(w) + 1 /\ b \in (a + 1) - 1 .. Len(w) /\ b - (a + 1) + 1 = b - a
  BY <1>0
<1>2. f \in Texts /\ Len(f) = b - a /\ \A j \in 1 .. b - a : f[j] = w[a + 1 + j - 1]
  BY <1>1, CutIs
<1>3. DOMAIN f = 1 .. b - a
  BY <1>2, TextIs
<1>4. /\ c \in 1 .. Len(f) + 1 /\ \A i \in Held(f, m) : c <= i
      /\ c \in Held(f, m) \cup {Len(f) + 1}
      /\ \A i \in bareAliasHoldStart(f, m) : \A j \in i .. Len(f) : f[j] \in {"p", "1"}
  BY <1>2, HeldIs
<1> HIDE DEF f
<1>5. /\ c \in 1 .. b - a + 1 /\ c - 1 \in 1 .. b - a /\ a + 1 + (c - 1) - 1 = a + c - 1
      /\ a + c - 1 \in 1 .. Len(w)
  BY <1>0, <1>2, <1>4
<1>6. f[c - 1] = "["
  BY <1>2, <1>5
<1>7. PICK e \in 1 .. Len(w) : TokenSpan(w, a + c - 1, e, m)
  BY <1>5 DEF MaskedPlain
<1>8. w[a + c] = "p" /\ m # <<>>
  <2>1. w[(a + c - 1) + 1] = "p"
    BY <1>7 DEF TokenSpan
  <2>2. (a + c - 1) + 1 = a + c
    BY <1>0, <1>5
  <2>3. m # <<>>
    BY <1>5, <1>7, SpanIs DEF Span
  <2> QED
    BY <2>1, <2>2, <2>3
<1>9. Held(f, m) = openBracket(f) \cup bareAliasHoldStart(f, m)
  BY <1>8 DEF Held
<1>10. ASSUME \A j \in (c - 1) + 1 .. Len(f) : f[j] \notin {"[", "]"}
       PROVE  FALSE
  <2>1. c - 1 \in openBracket(f)
    BY <1>3, <1>5, <1>6, <1>10 DEF openBracket
  <2>2. c <= c - 1
    BY <1>4, <1>9, <2>1
  <2> QED
    BY <1>0, <1>5, <2>2
<1>11. CASE c = Len(f) + 1
  <2>1. (c - 1) + 1 .. Len(f) = {}
    BY <1>0, <1>2, <1>11
  <2> QED
    BY <1>10, <2>1
<1>12. CASE c \in bareAliasHoldStart(f, m)
  <2>1. (c - 1) + 1 = c
    BY <1>0, <1>5
  <2>2. \A j \in c .. Len(f) : f[j] \in {"p", "1"}
    BY <1>4, <1>12
  <2>3. \A j \in (c - 1) + 1 .. Len(f) : f[j] \notin {"[", "]"}
    BY <2>1, <2>2
  <2> QED
    BY <1>10, <2>3
<1>13. CASE c \in openBracket(f)
  <2>1. c \in 1 .. b - a /\ f[c] = "["
    BY <1>3, <1>13 DEF openBracket
  <2>2. f[c] = w[a + 1 + c - 1]
    BY <1>2, <2>1
  <2>3. a + 1 + c - 1 = a + c
    BY <1>0, <1>5
  <2> QED
    BY <1>8, <2>1, <2>2, <2>3
<1> QED
  BY <1>4, <1>9, <1>11, <1>12, <1>13

\* Unmask finds every placeholder of the masked text.
LEMMA TokensFound ==
  ASSUME NEW m \in Mappings, NEW w \in Texts, MaskedPlain(w, m),
         NEW k \in 1 .. Len(w), NEW e \in 1 .. Len(w), TokenSpan(w, k, e, m)
  PROVE  <<k, e>> \in Unmask(w, m)
<1> DEFINE u == UnmaskScan(w, m)
<1>0. /\ IsScan(u) /\ DOMAIN u = 1 .. Len(w) /\ Len(w) \in Nat
      /\ \A j \in Stops(u) : j \in 1 .. Len(w)
  BY UnmaskScanIs, TextIs DEF Stops
<1>1. k \in Stops(u)
  <2> SUFFICES ASSUME k \notin Stops(u)
               PROVE  FALSE
    OBVIOUS
  <2>0. w[k] = "["
    BY DEF TokenSpan
  <2>1. PICK j \in Stops(u) : j < k /\ k < u[j]
    BY <1>0, StopsCover
  <2>2. j \in 1 .. Len(w)
    BY <1>0
  <2>3. CASE w[j] = "["
    <3>1. PICK f \in 1 .. Len(w) : TokenSpan(w, j, f, m)
      BY <2>2, <2>3 DEF MaskedPlain
    <3>2. IsToken(w, j, m) /\ Min(CloseAfter(w, j)) = f /\ f \in CloseAfter(w, j)
      <4>1. f \in Nat
        BY <1>0
      <4> QED
        BY <2>2, <3>1, <4>1, TokenSpanIs
    <3>3. u[j] = f + 1
      BY <1>0, <2>2, <2>3, <3>2 DEF UnmaskScan
    <3>4. k \in j + 1 .. f
      BY <1>0, <2>1, <2>2, <3>3
    <3>5. w[k] # "["
      BY <2>2, <3>1, <3>4, SpanIs DEF Span
    <3> QED
      BY <2>0, <3>5
  <2>4. CASE w[j] # "["
    <3>1. u[j] # j + 1 /\ u[j] \in j + 1 .. Len(w) + 1
      <4>1. u[j] \in j + 1 .. Len(w) + 1
        BY <2>2, UnmaskScanIs
      <4> QED
        BY <1>0, <2>1, <2>2, <4>1
    <3>2. BareSpan(w, j, u[j] - 1, m)
      BY <2>2, <2>4, <3>1, UnmaskScanIs
    <3>3. k \in j + 1 .. u[j] - 1
      BY <1>0, <2>1, <2>2, <3>1
    <3>4. w[k] = "1"
      BY <3>2, <3>3 DEF BareSpan
    <3> QED
      BY <2>0, <3>4
  <2> QED
    BY <2>3, <2>4
<1> QED
  BY <1>1, UnmaskIs

\* What a span of a placeholder in brackets says.
LEMMA TokenText ==
  ASSUME NEW m \in Mappings, NEW w \in Texts, NEW i \in 1 .. Len(w), NEW e \in 1 .. Len(w),
         TokenSpan(w, i, e, m)
  PROVE  SubSeq(w, i, e) = Token(e - i - 2) /\ e - i - 2 \in DOMAIN m /\ i < e
<1> DEFINE q == e - i - 2
           v == SubSeq(w, i, e)
<1>0. Len(w) \in Nat /\ Len(m) \in Nat /\ DOMAIN m = 1 .. Len(m)
  BY TextIs, MappingIs
<1>1. /\ q \in DOMAIN m /\ w[i] = "[" /\ w[i + 1] = "p" /\ w[e] = "]"
      /\ \A j \in i + 2 .. e - 1 : w[j] = "1"
  BY DEF TokenSpan
<1>2. q \in Nat /\ i < e /\ e - i + 1 = q + 3 /\ i \in 1 .. Len(w) + 1 /\ e \in i - 1 .. Len(w)
  BY <1>0, <1>1
<1>3. /\ Token(q) \in Texts /\ Len(Token(q)) = q + 3
      /\ Token(q)[1] = "[" /\ Token(q)[2] = "p" /\ Token(q)[q + 3] = "]"
      /\ \A k \in 3 .. q + 2 : Token(q)[k] = "1"
  BY <1>2, TokenIs
<1>4. v \in Texts /\ Len(v) = e - i + 1 /\ \A j \in 1 .. e - i + 1 : v[j] = w[i + j - 1]
  BY <1>2, CutIs
<1> HIDE DEF v
<1>5. ASSUME NEW j \in 1 .. q + 3
      PROVE  v[j] = Token(q)[j]
  <2>1. v[j] = w[i + j - 1]
    BY <1>2, <1>4
  <2>2. CASE j = 1
    BY <1>0, <1>1, <1>3, <2>1, <2>2
  <2>3. CASE j = 2
    <3>1. i + j - 1 = i + 1
      BY <1>0, <2>3
    <3> QED
      BY <1>1, <1>3, <2>1, <2>3, <3>1
  <2>4. CASE j = q + 3
    <3>1. i + j - 1 = e
      BY <1>0, <2>4
    <3> QED
      BY <1>1, <1>3, <2>1, <2>4, <3>1
  <2>5. CASE j \in 3 .. q + 2
    <3>1. i + j - 1 \in i + 2 .. e - 1
      BY <1>0, <2>5
    <3> QED
      BY <1>1, <1>3, <2>1, <2>5, <3>1
  <2>6. j = 1 \/ j = 2 \/ j = q + 3 \/ j \in 3 .. q + 2
    BY <1>2
  <2> QED
    BY <2>2, <2>3, <2>4, <2>5, <2>6
<1> HIDE DEF q
<1>6. v = Token(q)
  BY <1>2, <1>3, <1>4, <1>5, SameText
<1> QED
  BY <1>1, <1>2, <1>6 DEF v, q

\* A placeholder stands for one value.
LEMMA OriginalIs ==
  ASSUME NEW m \in Mappings, NEW n \in DOMAIN m
  PROVE  Original(Token(n), m) = m[n] /\ m[n] \in Texts
<1>0. Len(m) \in Nat /\ DOMAIN m = 1 .. Len(m) /\ \A k \in DOMAIN m : m[k] \in Texts
  BY DEF Mappings
<1>1. ASSUME NEW k \in DOMAIN m, Token(n) = Token(k) \/ Token(n) = Bare(k)
      PROVE  k = n
  <2>0. n \in Nat /\ k \in Nat
    BY <1>0
  <2>1. Len(Token(n)) = n + 3 /\ Token(n)[1] = "["
    BY <2>0, TokenIs
  <2>2. Len(Token(k)) = k + 3
    BY <2>0, TokenIs
  <2>3. Bare(k)[1] = "p"
    BY <2>0, BareIs
  <2>4. Token(n) # Bare(k)
    BY <2>1, <2>3
  <2>5. n + 3 = k + 3
    BY <1>1, <2>1, <2>2, <2>4
  <2> QED
    BY <2>0, <2>5
<1> DEFINE Is(k) == Token(n) = Token(k) \/ Token(n) = Bare(k)
<1>2. \E k \in DOMAIN m : Is(k)
  OBVIOUS
<1>3. (CHOOSE k \in DOMAIN m : Is(k)) = n
  <2>1. (CHOOSE k \in DOMAIN m : Is(k)) \in DOMAIN m /\ Is(CHOOSE k \in DOMAIN m : Is(k))
    BY <1>2, Zenon
  <2> QED
    BY <1>1, <2>1
<1>4. Original(Token(n), m) = m[CHOOSE k \in DOMAIN m : Is(k)]
  BY DEF Original
<1> QED
  BY <1>0, <1>3, <1>4

\* The placeholders of a text in brackets, and what stands in for each.
Tokens(w, m) == {s \in (1 .. Len(w)) \X (1 .. Len(w)) : TokenSpan(w, s[1], s[2], m)}
Values(w, m) == [s \in Tokens(w, m) |-> Original(Value(w, s), m)]

\* The spans of the placeholders can be replaced by their values.
LEMMA ValuesReplace ==
  ASSUME NEW m \in Mappings, NEW w \in Texts
  PROVE  /\ Replaces(Values(w, m), w) /\ DOMAIN Values(w, m) = Tokens(w, m)
         /\ \A s \in Tokens(w, m) : Values(w, m)[s] = m[s[2] - s[1] - 2]
<1>0. Len(w) \in Nat
  BY TextIs
<1>1. ASSUME NEW s \in Tokens(w, m)
      PROVE  /\ s[1] \in 1 .. Len(w) /\ s[2] \in s[1] .. Len(w) /\ s = <<s[1], s[2]>>
             /\ s[2] \in 1 .. Len(w) /\ TokenSpan(w, s[1], s[2], m)
             /\ Values(w, m)[s] = m[s[2] - s[1] - 2] /\ Values(w, m)[s] \in Texts
  <2>1. /\ s[1] \in 1 .. Len(w) /\ s[2] \in 1 .. Len(w) /\ s = <<s[1], s[2]>>
        /\ TokenSpan(w, s[1], s[2], m)
    BY DEF Tokens
  <2>2. /\ SubSeq(w, s[1], s[2]) = Token(s[2] - s[1] - 2)
        /\ s[2] - s[1] - 2 \in DOMAIN m /\ s[1] < s[2]
    BY <2>1, TokenText
  <2>3. Values(w, m)[s] = Original(Token(s[2] - s[1] - 2), m)
    BY <2>2 DEF Values, Value
  <2>4. /\ Original(Token(s[2] - s[1] - 2), m) = m[s[2] - s[1] - 2]
        /\ m[s[2] - s[1] - 2] \in Texts
    BY <2>2, OriginalIs
  <2>5. s[2] \in s[1] .. Len(w)
    BY <1>0, <2>1, <2>2
  <2> QED
    BY <2>1, <2>3, <2>4, <2>5
<1>2. ASSUME NEW s \in Tokens(w, m), NEW u \in Tokens(w, m), s[1] = u[1]
      PROVE  s = u
  <2>1. s[2] \in Nat /\ u[2] \in Nat
    BY <1>0, <1>1
  <2>2. Min(CloseAfter(w, s[1])) = s[2]
    BY <1>1, <2>1, TokenSpanIs
  <2>3. Min(CloseAfter(w, s[1])) = u[2]
    BY <1>1, <1>2, <2>1, TokenSpanIs
  <2>4. s[2] = u[2]
    BY <2>2, <2>3
  <2>5. s = <<s[1], s[2]>> /\ u = <<u[1], u[2]>>
    BY <1>1
  <2> QED
    BY <1>2, <2>4, <2>5, Zenon
<1>3. DOMAIN Values(w, m) = Tokens(w, m)
  BY DEF Values
<1> QED
  BY <1>1, <1>2, <1>3 DEF Replaces

\* A text is its two parts again.
LEMMA CutJoin ==
  ASSUME NEW t \in Texts, NEW i \in 1 .. Len(t), NEW j \in i .. Len(t) + 1
  PROVE  SubSeq(t, i, j - 1) \o SubSeq(t, j, Len(t)) = SubSeq(t, i, Len(t))
<1> DEFINE n == Len(t)
           x == SubSeq(t, i, j - 1)
           y == SubSeq(t, j, n)
           z == SubSeq(t, i, n)
<1>0. n \in Nat
  BY TextIs
<1>1. /\ i \in 1 .. n + 1 /\ j - 1 \in i - 1 .. n /\ j \in 1 .. n + 1 /\ n \in j - 1 .. n
      /\ n \in i - 1 .. n /\ (j - 1) - i + 1 = j - i
  BY <1>0
<1>2. x \in Texts /\ Len(x) = j - i /\ \A k \in 1 .. j - i : x[k] = t[i + k - 1]
  BY <1>1, CutIs
<1>3. y \in Texts /\ Len(y) = n - j + 1 /\ \A k \in 1 .. n - j + 1 : y[k] = t[j + k - 1]
  BY <1>1, CutIs
<1>4. z \in Texts /\ Len(z) = n - i + 1 /\ \A k \in 1 .. n - i + 1 : z[k] = t[i + k - 1]
  BY <1>1, CutIs
<1> HIDE DEF n, x, y, z
<1>5. /\ x \o y \in Texts /\ Len(x \o y) = Len(x) + Len(y)
      /\ \A k \in 1 .. Len(x) : (x \o y)[k] = x[k]
      /\ \A k \in Len(x) + 1 .. Len(x) + Len(y) : (x \o y)[k] = y[k - Len(x)]
  BY <1>2, <1>3, CatIs
<1>6. i \in Nat /\ j \in Nat /\ i <= j /\ j <= n + 1
  BY <1>0, <1>1 DEF n
<1>7. Len(x \o y) = n - i + 1
  BY <1>0, <1>2, <1>3, <1>5, <1>6
<1>8. ASSUME NEW k \in 1 .. n - i + 1
      PROVE  (x \o y)[k] = z[k]
  <2>1. CASE k <= j - i
    <3>1. k \in 1 .. j - i
      BY <1>6, <2>1
    <3> QED
      BY <1>2, <1>4, <1>5, <3>1
  <2>2. CASE k > j - i
    <3>1. /\ k \in Len(x) + 1 .. Len(x) + Len(y) /\ k - (j - i) \in 1 .. n - j + 1
          /\ j + (k - (j - i)) - 1 = i + k - 1
      BY <1>0, <1>2, <1>3, <1>6, <2>2
    <3>2. (x \o y)[k] = y[k - (j - i)]
      BY <1>2, <1>5, <3>1
    <3>3. y[k - (j - i)] = t[j + (k - (j - i)) - 1]
      BY <1>3, <3>1
    <3> QED
      BY <1>4, <3>1, <3>2, <3>3
  <2>3. k <= j - i \/ k > j - i
    BY <1>0, <1>6
  <2> QED
    BY <2>1, <2>2, <2>3
<1>9. x \o y = z
  BY <1>4, <1>5, <1>7, <1>8, SameText
<1> QED
  BY <1>9 DEF x, y, z, n

\* A part of one symbol.
LEMMA CutOne ==
  ASSUME NEW t \in Texts, NEW i \in 1 .. Len(t)
  PROVE  SubSeq(t, i, (i + 1) - 1) = <<t[i]>>
<1>0. Len(t) \in Nat /\ t[i] \in Chars
  BY TextIs
<1>1. i \in 1 .. Len(t) + 1 /\ (i + 1) - 1 \in i - 1 .. Len(t) /\ ((i + 1) - 1) - i + 1 = 1
  BY <1>0
<1>2. /\ SubSeq(t, i, (i + 1) - 1) \in Texts /\ Len(SubSeq(t, i, (i + 1) - 1)) = 1
      /\ \A j \in 1 .. 1 : SubSeq(t, i, (i + 1) - 1)[j] = t[i + j - 1]
  BY <1>1, CutIs
<1>3. <<t[i]>> \in Texts /\ Len(<<t[i]>>) = 1 /\ <<t[i]>>[1] = t[i]
  BY <1>0, OneIs
<1>4. SubSeq(t, i, (i + 1) - 1)[1] = t[i]
  <2>1. i + 1 - 1 = i
    BY <1>0
  <2> QED
    BY <1>2, <2>1
<1>5. \A j \in 1 .. 1 : SubSeq(t, i, (i + 1) - 1)[j] = <<t[i]>>[j]
  BY <1>3, <1>4
<1> QED
  BY <1>2, <1>3, <1>5, SameText

\* The whole of a text is the text.
LEMMA WholeText ==
  ASSUME NEW t \in Texts
  PROVE  SubSeq(t, 1, Len(t)) = t
<1>0. Len(t) \in Nat
  BY TextIs
<1>1. 1 \in 1 .. Len(t) + 1 /\ Len(t) \in 1 - 1 .. Len(t) /\ Len(t) - 1 + 1 = Len(t)
  BY <1>0
<1>2. SubSeq(t, 1, Len(t)) \in Texts /\ Len(SubSeq(t, 1, Len(t))) = Len(t)
      /\ \A j \in 1 .. Len(t) : SubSeq(t, 1, Len(t))[j] = t[1 + j - 1]
  BY <1>1, CutIs
<1>3. \A j \in 1 .. Len(t) : 1 + j - 1 = j
  BY <1>0
<1>4. \A j \in 1 .. Len(t) : SubSeq(t, 1, Len(t))[j] = t[j]
  BY <1>2, <1>3
<1> QED
  BY <1>2, <1>4, SameText

\* Restoring the placeholders of the masked text gives the text back.
LEMMA UnmaskMasked ==
  ASSUME NEW r, NEW rest, Masks(rest, r), Plain(r)
  PROVE  Replaced(rest[1], Values(rest[1], Assigned(r))) = r.text
<1> DEFINE t == r.text
           n == Len(t)
           K == MaskScan(r)
           S == Stops(K)
           w == rest[1]
           m == Assigned(r)
<1>0. /\ n \in Nat /\ t \in Texts /\ w \in Texts /\ Len(w) \in Nat /\ m \in Mappings
      /\ rest[n + 1] = <<>> /\ Request(r)
  BY RestIs, AssignedIs, TextIs DEF Masks
<1>1. Replaces(Values(w, m), w) /\ DOMAIN Values(w, m) = Tokens(w, m)
      /\ \A s \in Tokens(w, m) : Values(w, m)[s] = m[s[2] - s[1] - 2]
  BY <1>0, ValuesReplace
<1>2. PICK back : Replacing(back, w, Values(w, m)) /\ Replaced(w, Values(w, m)) = back[1]
  BY <1>0, <1>1, ReplacedRule
<1>3. \A i \in S : /\ i \in 1 .. n /\ K[i] \in i + 1 .. n + 1 /\ K[i] \in S \cup {n + 1}
                   /\ At(rest, i) \in 1 .. Len(w)
  BY BlockIs, BlockAt
<1>4. At(rest, n + 1) = Len(w) + 1
  <2>1. At(rest, n + 1) = Len(w) - 0 + 1
    BY <1>0, EmptyIs DEF At
  <2> QED
    BY <1>0, <2>1
<1> DEFINE G == {i \in 1 .. n + 1 : i \in S \cup {n + 1} => back[At(rest, i)] = SubSeq(t, i, n)}
<1>5. ASSUME NEW i \in S, back[At(rest, K[i])] = SubSeq(t, K[i], n)
      PROVE  back[At(rest, i)] = SubSeq(t, i, n)
  <2> DEFINE a == At(rest, i)
  <2>0. i \in 1 .. n /\ K[i] \in i + 1 .. n + 1 /\ a \in 1 .. Len(w) /\ K[i] \in i .. n + 1
    BY <1>0, <1>3
  <2>1. SubSeq(t, i, K[i] - 1) \o SubSeq(t, K[i], n) = SubSeq(t, i, n)
    BY <1>0, <2>0, CutJoin
  <2>2. CASE EndsAt(r, i) = {}
    <3>1. K[i] = i + 1
      BY <2>2, BlockIs
    <3>2. At(rest, i + 1) = a + 1 /\ w[a] = t[i]
      BY <2>2, BlockAt
    <3>3. w[a] # "["
      BY <2>2, <3>2 DEF Plain
    <3> HIDE DEF a, t, w, m
    <3>4. \A s \in Tokens(w, m) : s[1] # a
      BY <3>3 DEF Tokens, TokenSpan
    <3>5. back[a] = <<w[a]>> \o back[a + 1]
      BY <1>1, <1>2, <2>0, <3>4 DEF Replacing
    <3>6. <<t[i]>> = SubSeq(t, i, K[i] - 1)
      BY <1>0, <2>0, <3>1, CutOne
    <3>7. back[a + 1] = SubSeq(t, K[i], n)
      BY <1>5, <3>1, <3>2
    <3> HIDE DEF K, n
    <3>8. back[a] = SubSeq(t, i, K[i] - 1) \o SubSeq(t, K[i], n)
      BY <3>2, <3>5, <3>6, <3>7
    <3> QED
      BY <2>1, <3>8 DEF a
  <2>3. CASE EndsAt(r, i) # {}
    <3> DEFINE q == Number(r, i)
               s == <<a, a + q + 2>>
    <3>1. q \in DOMAIN m /\ m[q] = SubSeq(t, i, K[i] - 1)
      BY <2>3, BlockIs
    <3>2. a + q + 2 \in 1 .. Len(w) /\ TokenSpan(w, a, a + q + 2, m)
      BY <2>3, BlockToken
    <3>3. At(rest, K[i]) = a + q + 3
      BY <2>3, BlockAt
    <3>4. q \in Nat
      BY <1>0, <3>1, MappingIs
    <3> HIDE DEF a, q, t, w, m, K, n
    <3>5. s \in Tokens(w, m) /\ s[1] = a /\ s[2] = a + q + 2
      BY <2>0, <3>2 DEF Tokens
    <3> HIDE DEF s
    <3>6. s[2] - s[1] - 2 = q /\ s[2] + 1 = a + q + 3
      BY <2>0, <3>4, <3>5
    <3>7. Values(w, m)[s] = m[q]
      BY <1>1, <3>5, <3>6
    <3>8. back[s[1]] = Values(w, m)[s] \o back[s[2] + 1]
      BY <1>1, <1>2, <3>5 DEF Replacing
    <3>9. back[s[2] + 1] = SubSeq(t, K[i], n)
      BY <1>5, <3>3, <3>6
    <3>10. back[a] = SubSeq(t, i, K[i] - 1) \o SubSeq(t, K[i], n)
      BY <3>1, <3>5, <3>7, <3>8, <3>9
    <3> QED
      BY <2>1, <3>10 DEF a
  <2> QED
    BY <2>2, <2>3
<1>6. ASSUME NEW i \in 1 .. n + 1, \A j \in i + 1 .. n + 1 : j \in G
      PROVE  i \in G
  <2>1. CASE i = n + 1
    <3>1. back[Len(w) + 1] = <<>>
      BY <1>2 DEF Replacing
    <3>2. SubSeq(t, n + 1, n) = <<>>
      BY <1>0, TailIsEmpty
    <3> QED
      BY <1>4, <2>1, <3>1, <3>2
  <2>2. CASE i \in S
    <3>1. K[i] \in i + 1 .. n + 1 /\ K[i] \in S \cup {n + 1}
      BY <1>3, <2>2
    <3>2. K[i] \in G
      <4> HIDE DEF G
      <4> QED
        BY <1>6, <3>1
    <3>3. back[At(rest, K[i])] = SubSeq(t, K[i], n)
      BY <3>1, <3>2
    <3>4. back[At(rest, i)] = SubSeq(t, i, n)
      BY <1>5, <2>2, <3>3
    <3> QED
      BY <3>4
  <2> QED
    BY <2>1, <2>2
<1>7. 1 .. n + 1 \subseteq G
  <2> HIDE DEF G
  <2>1. n + 1 \in Nat
    BY <1>0
  <2> QED
    BY <1>6, <2>1, Downwards
<1>8. 1 \in S \cup {n + 1} /\ 1 \in 1 .. n + 1
  <2>1. CASE n = 0
    BY <2>1
  <2>2. CASE n > 0
    <3>1. 1 \in DOMAIN K
      BY <1>0, <2>2, MaskScanIs
    <3>2. 1 \in S
      BY <1>0, <3>1, MaskScanIs, StopsRule
    <3> QED
      BY <1>0, <3>2
  <2> QED
    BY <1>0, <2>1, <2>2
<1>9. back[At(rest, 1)] = SubSeq(t, 1, n)
  BY <1>7, <1>8
<1>10. At(rest, 1) = 1
  BY <1>0 DEF At
<1>11. SubSeq(t, 1, n) = t
  BY <1>0, WholeText
<1> QED
  BY <1>2, <1>9, <1>10, <1>11

\* What is restored of an echo are placeholders of the masked text, and nothing
\* leaves the buffer up to behind an open bracket.
Echoed ==
  echo /\ pc # "mask" /\ Plain(rq) =>
    /\ restored \subseteq Tokens(masked, mapping)
    /\ pc = "answer" /\ emitted > 0 => masked[emitted] # "["

\* Once the request is masked, masked and mapping are what ApplyMask made of it.
LEMMA MaskedRest ==
  ASSUME Buffered, pc # "mask"
  PROVE  \E rest : Masks(rest, rq) /\ masked = rest[1] /\ mapping = Assigned(rq)
<1>1. Request(rq)
  BY RestoreAssumption DEF Buffered
<1>2. masked = ApplyMask(rq, Assigned(rq)) /\ mapping = Assigned(rq)
  BY DEF Buffered
<1> QED
  BY <1>1, <1>2, ApplyMaskIs DEF Masks

\* The provider's echo of a plain text is plain.
LEMMA MaskedStaysPlain ==
  ASSUME Buffered, pc # "mask", Plain(rq)
  PROVE  MaskedPlain(masked, mapping)
BY MaskedRest, MaskedIsPlain

\* A piece of the masked text brings placeholders of it only.
LEMMA PieceEchoed ==
  ASSUME Buffered, pc = "answer", Plain(rq), emitted <= Len(masked),
         emitted > 0 => masked[emitted] # "[", NEW b \in emitted .. Len(masked)
  PROVE  Shifted(Unmask(SubSeq(masked, emitted + 1, b), mapping)) \subseteq Tokens(masked, mapping)
<1>0. mapping \in Mappings /\ masked \in Texts /\ MaskedPlain(masked, mapping)
      /\ emitted \in 0 .. Len(masked)
  <2>1. mapping \in Mappings /\ masked \in Texts /\ emitted \in 0 .. Len(text)
    BY DEF Buffered
  <2>2. Len(masked) \in Nat /\ Len(text) \in Nat
    BY <2>1, TextIs DEF Buffered
  <2>3. MaskedPlain(masked, mapping)
    BY MaskedStaysPlain
  <2> QED
    BY <2>1, <2>2, <2>3
<1> SUFFICES ASSUME NEW s \in Unmask(SubSeq(masked, emitted + 1, b), mapping)
             PROVE  <<s[1] + emitted, s[2] + emitted>> \in Tokens(masked, mapping)
  BY DEF Shifted
<1>1. /\ s[1] + emitted \in 1 .. Len(masked) /\ s[2] + emitted \in 1 .. Len(masked)
      /\ TokenSpan(masked, s[1] + emitted, s[2] + emitted, mapping)
  BY <1>0, PieceTokens
<1> QED
  BY <1>1 DEF Tokens

\* Every step restores only placeholders of an echo.
LEMMA EchoedNext ==
  Buffered /\ Echoed /\ [Next]_vars => Echoed'
<1> SUFFICES ASSUME Buffered, Echoed, [Next]_vars
             PROVE  Echoed'
  OBVIOUS
<1>0. /\ mapping \in Mappings /\ masked \in Texts /\ Len(masked) \in Nat /\ text \in Texts
      /\ Len(text) \in Nat /\ emitted \in 0 .. Len(text)
  BY TextIs DEF Buffered
<1>1. CASE Mask
  <2>1. text = <<>> /\ restored' = {} /\ emitted' = emitted
    BY <1>1 DEF Mask, Buffered, answer
  <2>2. emitted' = 0
    BY <1>0, <2>1, EmptyIs
  <2> QED
    BY <2>1, <2>2 DEF Echoed
<1>2. CASE Event
  <2> SUFFICES ASSUME echo, Plain(rq)
               PROVE  /\ restored' \subseteq Tokens(masked, mapping)
                      /\ emitted' > 0 => masked[emitted'] # "["
    BY <1>2 DEF Event, Echoed
  <2>1. PICK d \in Texts : Feed(d) /\ Starts(text \o d, masked)
    BY <1>2, EventIs
  <2>2. text' = text \o d /\ text' \in Texts
    BY <2>1, FeedStep
  <2>3. PICK c \in 1 .. Len(text') - emitted + 1 :
          /\ c = Cut(SubSeq(text', emitted + 1, Len(text')), mapping)
          /\ emitted' = emitted + c - 1 /\ emitted' \in emitted .. Len(text')
          /\ restored' = restored \cup
               Shifted(Unmask(SubSeq(text', emitted + 1, emitted'), mapping))
    BY <2>1, FeedStep
  <2>4. Starts(text', masked) /\ Len(text') \in Nat /\ Len(text') <= Len(masked)
    BY <2>1, <2>2, TextIs DEF Starts
  <2>5. /\ emitted \in Nat /\ emitted' \in Nat /\ emitted <= emitted' /\ emitted' <= Len(text')
        /\ c \in Nat
    BY <1>0, <2>3, <2>4
  <2>6. /\ emitted + 1 \in 1 .. Len(text') + 1 /\ Len(text') \in (emitted + 1) - 1 .. Len(text')
        /\ emitted' \in (emitted + 1) - 1 .. Len(text') /\ emitted <= Len(masked)
        /\ emitted' \in emitted .. Len(masked) /\ emitted \in 0 .. Len(masked)
        /\ Len(text') \in emitted .. Len(masked)
    BY <1>0, <2>4, <2>5
  <2>7. /\ SubSeq(text', emitted + 1, Len(text')) = SubSeq(masked, emitted + 1, Len(text'))
        /\ SubSeq(text', emitted + 1, emitted') = SubSeq(masked, emitted + 1, emitted')
    BY <1>0, <2>2, <2>4, <2>6, SameCut
  <2>8. /\ restored \subseteq Tokens(masked, mapping) /\ pc = "answer"
        /\ emitted > 0 => masked[emitted] # "["
    BY <1>2 DEF Event, Echoed
  <2>9. Shifted(Unmask(SubSeq(masked, emitted + 1, emitted'), mapping)) \subseteq Tokens(masked, mapping)
    BY <2>6, <2>8, PieceEchoed
  <2>10. restored' \subseteq Tokens(masked, mapping)
    BY <2>3, <2>7, <2>8, <2>9
  <2>11. ASSUME emitted' > 0
         PROVE  masked[emitted'] # "["
    <3>1. CASE c = 1
      <4>1. emitted' = emitted
        BY <2>3, <2>5, <3>1
      <4> QED
        BY <2>8, <2>11, <4>1
    <3>2. CASE c > 1
      <4>1. c = Cut(SubSeq(masked, emitted + 1, Len(text')), mapping)
        BY <2>3, <2>7
      <4>2. MaskedPlain(masked, mapping)
        BY <2>8, MaskedStaysPlain
      <4>3. masked[emitted + c - 1] # "["
        BY <1>0, <2>6, <3>2, <4>1, <4>2, CutOutside
      <4> QED
        BY <2>3, <4>3
    <3>3. c = 1 \/ c > 1
      BY <2>3, <2>5
    <3> QED
      BY <3>1, <3>2, <3>3
  <2> QED
    BY <2>10, <2>11
<1>3. CASE Flush
  <2> SUFFICES ASSUME echo, Plain(rq)
               PROVE  restored' \subseteq Tokens(masked, mapping)
    BY <1>3 DEF Flush, Echoed
  <2>1. /\ restored' = restored \cup Shifted(Unmask(buf, mapping)) /\ text = masked
        /\ buf = SubSeq(text, emitted + 1, Len(text)) /\ pc = "answer"
    BY <1>3 DEF Flush, Buffered
  <2>2. restored \subseteq Tokens(masked, mapping) /\ (emitted > 0 => masked[emitted] # "[")
    BY <2>1 DEF Echoed
  <2>3. emitted <= Len(masked) /\ Len(masked) \in emitted .. Len(masked)
    BY <1>0, <2>1
  <2>4. Shifted(Unmask(SubSeq(masked, emitted + 1, Len(masked)), mapping))
          \subseteq Tokens(masked, mapping)
    BY <2>1, <2>2, <2>3, PieceEchoed
  <2> QED
    BY <2>1, <2>2, <2>4
<1>4. CASE RestoreBody
  <2> SUFFICES ASSUME Plain(rq)
               PROVE  Unmask(masked, mapping) \subseteq Tokens(masked, mapping)
    BY <1>4 DEF RestoreBody, Echoed
  <2>1. MaskedPlain(masked, mapping)
    BY <1>4, MaskedStaysPlain DEF RestoreBody
  <2> SUFFICES ASSUME NEW s \in Unmask(masked, mapping)
               PROVE  s \in Tokens(masked, mapping)
    OBVIOUS
  <2>2. s[1] \in 1 .. Len(masked) /\ s[2] \in 1 .. Len(masked) /\ s = <<s[1], s[2]>>
    BY <1>0, UnmaskedSpan
  <2>3. /\ 0 \in 0 .. Len(masked) /\ Len(masked) \in 0 .. Len(masked) /\ 0 + 1 = 1 /\ ~ 0 > 0
        /\ s[1] + 0 = s[1] /\ s[2] + 0 = s[2]
    BY <1>0, <2>2
  <2>4. s \in Unmask(SubSeq(masked, 0 + 1, Len(masked)), mapping)
    BY <1>0, <2>3, WholeText
  <2>5. TokenSpan(masked, s[1] + 0, s[2] + 0, mapping)
    BY <1>0, <2>1, <2>3, <2>4, PieceTokens
  <2> QED
    BY <2>2, <2>3, <2>5 DEF Tokens
<1>5. CASE UNCHANGED vars
  BY <1>5 DEF vars, Echoed
<1> QED
  BY <1>1, <1>2, <1>3, <1>4, <1>5 DEF Next

\* At the end of an echo, exactly the placeholders of the masked text are
\* restored, and the client has its own text.
LEMMA EchoIsText ==
  ASSUME Buffered, Settled, Echoed, pc = "done", echo, Plain(rq)
  PROVE  Client = rq.text
<1>0. /\ text = masked /\ emitted = Len(masked) /\ masked \in Texts /\ mapping \in Mappings
      /\ Len(masked) \in Nat
  BY TextIs DEF Buffered
<1>1. restored \subseteq Tokens(masked, mapping)
  BY DEF Echoed
<1>2. ASSUME NEW s \in Tokens(masked, mapping)
      PROVE  s \in restored
  <2>1. /\ s[1] \in 1 .. Len(masked) /\ s[2] \in 1 .. Len(masked) /\ s = <<s[1], s[2]>>
        /\ TokenSpan(masked, s[1], s[2], mapping)
    BY DEF Tokens
  <2>2. MaskedPlain(masked, mapping)
    BY MaskedStaysPlain
  <2>3. s \in Unmask(masked, mapping)
    BY <1>0, <2>1, <2>2, TokensFound
  <2>4. Starts(text, text) /\ s[1] <= emitted
    BY <1>0, <2>1 DEF Starts
  <2> QED
    BY <1>0, <2>3, <2>4 DEF Settled
<1>3. restored = Tokens(masked, mapping)
  BY <1>1, <1>2
<1>4. SubSeq(text, 1, emitted) = masked
  BY <1>0, WholeText
<1>5. Client = Replaced(masked, Values(masked, mapping))
  BY <1>0, <1>3, <1>4 DEF Client, Values
<1>6. PICK rest : Masks(rest, rq) /\ masked = rest[1] /\ mapping = Assigned(rq)
  BY MaskedRest
<1>7. Replaced(rest[1], Values(rest[1], Assigned(rq))) = rq.text
  BY <1>6, UnmaskMasked
<1> QED
  BY <1>5, <1>6, <1>7

\* ApplyMask and Unmask are inverse for every text and every set of entities
\* whose text is plain outside of them: an echo of what the provider was sent
\* gives the client its own text back, restored at once or streamed in pieces
\* that are cut anywhere.
THEOREM EchoRoundTrips == Spec => []RoundTrip
<1> DEFINE Inv == Buffered /\ Settled /\ Echoed
<1>1. Init => Inv
  <2> SUFFICES ASSUME Init
               PROVE  Inv
    OBVIOUS
  <2>1. Buffered
    BY BufferedInit
  <2>2. emitted = 0 /\ pc = "mask"
    BY DEF Init
  <2>3. Settled
    BY <2>1, <2>2, SettledNone
  <2> QED
    BY <2>1, <2>2, <2>3 DEF Echoed
<1>2. Inv /\ [Next]_vars => Inv'
  BY BufferedNext, SettledNext, EchoedNext
<1>3. Inv => RoundTrip
  BY EchoIsText DEF RoundTrip
<1> QED
  BY <1>1, <1>2, <1>3, PTL DEF Spec

=============================================================================
