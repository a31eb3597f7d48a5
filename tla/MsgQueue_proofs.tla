-------------------------- MODULE MsgQueue_proofs --------------------------
(* Theorems about MsgQueue, for every set of threads and messages and for   *)
(* every depth.                                                             *)
EXTENDS MsgQueue, SequenceTheorems, WellFoundedInduction, TLAPS

-----------------------------------------------------------------------------
(* Filters of sequences.                                                    *)

\* A set of naturals that is not empty has a least member.
LEMMA Least ==
    ASSUME NEW T, T \subseteq Nat, T # {}
    PROVE  \E x \in T : \A y \in T : x <= y
<1> DEFINE R == OpToRel(<, Nat)
<1>1. IsWellFoundedOn(R, Nat)
    BY NatLessThanWellFounded
<1>2. \A i, j \in Nat : i < j => <<i, j>> \in R
    BY DEF OpToRel
<1> HIDE DEF R
<1>3. PICK x \in T : \A y \in T : ~(<<y, x>> \in R)
    BY <1>1, WFMin
<1>4. \A y \in T : x <= y
    <2> TAKE y \in T
    <2>1. x \in Nat /\ y \in Nat
        OBVIOUS
    <2>2. ~(y < x)
        BY <2>1, <1>2, <1>3
    <2> QED
        BY <2>1, <2>2
<1> QED
    BY <1>4

\* The function Keep is read from, up to m.
KeptTo(f, s, S, m) ==
    f = [n \in 0..m |->
           IF n = 0 THEN <<>>
           ELSE IF s[n] \in S THEN Append(f[n - 1], s[n]) ELSE f[n - 1]]

\* There is such a function.
LEMMA KeptExists ==
    ASSUME NEW T, NEW s \in Seq(T), NEW S
    PROVE  \A m \in Nat : \E f : KeptTo(f, s, S, m)
<1> DEFINE bad == {m \in Nat : ~ \E f : KeptTo(f, s, S, m)}
<1> SUFFICES ASSUME bad # {} PROVE FALSE
  OBVIOUS
<1>1. PICK m \in bad : \A k \in bad : m <= k
  BY Least
<1>2. m \in Nat
  BY <1>1
<1>3. m # 0
  <2>1. KeptTo([n \in 0..0 |-> <<>>], s, S, 0)
    BY DEF KeptTo
  <2> QED BY <1>1, <2>1
<1>4. m - 1 \in Nat /\ m - 1 \notin bad
  BY <1>1, <1>2, <1>3
<1>5. PICK f : KeptTo(f, s, S, m - 1)
  BY <1>4
<1> DEFINE g == [n \in 0..m |-> IF n < m THEN f[n]
                                ELSE IF s[m] \in S THEN Append(f[m - 1], s[m]) ELSE f[m - 1]]
<1>6. \A n \in 0..m : g[n] = IF n = 0 THEN <<>>
                             ELSE IF s[n] \in S THEN Append(g[n - 1], s[n]) ELSE g[n - 1]
  <2> TAKE n \in 0..m
  <2>1. CASE n = m
    BY <1>2, <1>3, <2>1
  <2>2. CASE n < m
    <3>1. n \in 0..(m - 1) /\ (n # 0 => n - 1 \in 0..m /\ n - 1 < m)
      BY <1>2, <2>2
    <3>2. f[n] = IF n = 0 THEN <<>>
                 ELSE IF s[n] \in S THEN Append(f[n - 1], s[n]) ELSE f[n - 1]
      BY <1>5, <3>1 DEF KeptTo
    <3> QED BY <2>2, <3>1, <3>2
  <2> QED BY <1>2, <2>1, <2>2
<1>7. KeptTo(g, s, S, m)
  <2> HIDE DEF g
  <2>1. g = [n \in 0..m |-> g[n]]
    BY DEF g
  <2> QED BY <1>6, <2>1 DEF KeptTo
<1> QED BY <1>1, <1>7

\* What a filter keeps: the elements of S, in their order.
LEMMA KeepFacts ==
    ASSUME NEW T, NEW s \in Seq(T), NEW S
    PROVE  /\ Keep(s, S) \in Seq(T)
           /\ ToSet(Keep(s, S)) = ToSet(s) \cap S
           /\ \A a, b \in DOMAIN Keep(s, S) : a < b =>
                 \E i, j \in DOMAIN s : i < j /\ Keep(s, S)[a] = s[i] /\ Keep(s, S)[b] = s[j]
<1> DEFINE N == Len(s)
<1>0. N \in Nat /\ DOMAIN s = 1..N /\ \A i \in 1..N : s[i] \in T
  OBVIOUS
<1>1. PICK f : KeptTo(f, s, S, N) /\ Keep(s, S) = f[N]
  <2>1. \E f : KeptTo(f, s, S, N)
    BY KeptExists, <1>0
  <2> QED BY <2>1 DEF Keep, KeptTo
<1> DEFINE good(n) ==
      /\ f[n] \in Seq(T)
      /\ \A x : x \in ToSet(f[n]) <=> x \in S /\ \E i \in 1..n : x = s[i]
      /\ \A a, b \in DOMAIN f[n] : a < b =>
            \E i, j \in 1..n : i < j /\ f[n][a] = s[i] /\ f[n][b] = s[j]
    bad == {n \in 0..N : ~good(n)}
<1>2. f[0] = <<>>
  BY <1>0, <1>1 DEF KeptTo
<1>3. \A n \in 1..N : f[n] = IF s[n] \in S THEN Append(f[n - 1], s[n]) ELSE f[n - 1]
  <2> TAKE n \in 1..N
  <2>1. n \in 0..N /\ n # 0
    BY <1>0
  <2> HIDE DEF N
  <2> QED BY <1>1, <2>1 DEF KeptTo
<1>4. good(0)
  BY <1>2 DEF ToSet
<1>5. ASSUME NEW n \in 1..N, good(n - 1)
      PROVE  good(n)
  <2>0. n - 1 \in Nat /\ n \in Nat /\ 1..n = 1..(n - 1) \cup {n} /\ n \notin 1..(n - 1)
    BY <1>0
  <2>1. CASE s[n] \notin S
    <3>1. f[n] = f[n - 1]
      BY <1>3, <2>1
    <3>2. \A x : x \in ToSet(f[n - 1]) <=> x \in S /\ \E i \in 1..(n - 1) : x = s[i]
      BY <1>5
    <3>3. \A x : x \in ToSet(f[n]) <=> x \in S /\ \E i \in 1..n : x = s[i]
      BY <2>0, <2>1, <3>1, <3>2
    <3>4. \A a, b \in DOMAIN f[n - 1] : a < b =>
             \E i, j \in 1..n : i < j /\ f[n - 1][a] = s[i] /\ f[n - 1][b] = s[j]
      BY <1>5, <2>0
    <3>5. f[n] \in Seq(T)
      BY <1>5, <3>1
    <3> QED BY <3>1, <3>3, <3>4, <3>5
  <2>2. CASE s[n] \in S
    <3> DEFINE p == f[n - 1]
    <3>1. p \in Seq(T) /\ s[n] \in T /\ f[n] = Append(p, s[n])
      BY <1>0, <1>3, <1>5, <2>2
    <3>2. Len(p) \in Nat /\ DOMAIN p = 1..Len(p) /\ DOMAIN f[n] = 1..(Len(p) + 1)
      BY <3>1
    <3>3. f[n] \in Seq(T) /\ f[n][Len(p) + 1] = s[n] /\ \A a \in DOMAIN p : f[n][a] = p[a]
      BY <3>1, <3>2
    <3>4. ToSet(f[n]) = ToSet(p) \cup {s[n]}
      BY <3>2, <3>3, SMTT(30) DEF ToSet
    <3>5. \A x : x \in ToSet(f[n]) <=> x \in S /\ \E i \in 1..n : x = s[i]
      BY <1>5, <2>0, <2>2, <3>4
    <3>6. \A a \in DOMAIN p : \E i \in 1..(n - 1) : p[a] = s[i]
      BY <1>5 DEF ToSet
    <3>7. ASSUME NEW a \in DOMAIN f[n], NEW b \in DOMAIN f[n], a < b
          PROVE  \E i, j \in 1..n : i < j /\ f[n][a] = s[i] /\ f[n][b] = s[j]
      <4>1. a \in DOMAIN p
        BY <3>2, <3>7
      <4>2. CASE b \in DOMAIN p
        BY <1>5, <2>0, <3>3, <3>7, <4>1, <4>2
      <4>3. CASE b = Len(p) + 1
        <5>1. PICK i \in 1..(n - 1) : p[a] = s[i]
          BY <3>6, <4>1
        <5>2. i < n /\ i \in 1..n /\ n \in 1..n
          BY <2>0
        <5> QED BY <3>3, <4>1, <4>3, <5>1, <5>2
      <4> QED BY <3>2, <4>2, <4>3
    <3> QED BY <3>3, <3>5, <3>7
  <2> QED BY <2>1, <2>2
<1>6. good(N)
  <2> SUFFICES ASSUME bad # {} PROVE FALSE
    BY <1>0
  <2> HIDE DEF good
  <2>0. bad \subseteq Nat
    BY <1>0
  <2> HIDE DEF bad
  <2>1. PICK n \in bad : \A k \in bad : n <= k
    BY <2>0, Least
  <2> USE DEF bad
  <2>2. n \in 1..N
    BY <1>0, <1>4, <2>1
  <2>3. n - 1 \in 0..N /\ n - 1 \notin bad
    BY <1>0, <2>1, <2>2
  <2> QED BY <1>5, <2>1, <2>2, <2>3
<1>7. \A x : x \in ToSet(s) <=> \E i \in 1..N : x = s[i]
  BY <1>0 DEF ToSet
<1>8. ToSet(Keep(s, S)) = ToSet(s) \cap S
  BY <1>1, <1>6, <1>7
<1>9. \A a, b \in DOMAIN f[N] : a < b =>
         \E i, j \in 1..N : i < j /\ f[N][a] = s[i] /\ f[N][b] = s[j]
  BY <1>6
<1>10. f[N] \in Seq(T)
  BY <1>6
<1> HIDE DEF good, bad, N
<1>11. \A a, b \in DOMAIN Keep(s, S) : a < b =>
          \E i, j \in DOMAIN s : i < j /\ Keep(s, S)[a] = s[i] /\ Keep(s, S)[b] = s[j]
  BY <1>0, <1>1, <1>9
<1>12. Keep(s, S) \in Seq(T)
  BY <1>1, <1>10
<1> QED BY <1>8, <1>11, <1>12

\* A filter of an injective sequence is injective.
LEMMA KeepInjective ==
    ASSUME NEW T, NEW s \in Seq(T), NEW S, IsInjective(s)
    PROVE  IsInjective(Keep(s, S))
<1> DEFINE k == Keep(s, S)
<1>1. /\ k \in Seq(T)
      /\ \A a, b \in DOMAIN k : a < b => \E i, j \in DOMAIN s : i < j /\ k[a] = s[i] /\ k[b] = s[j]
  BY KeepFacts
<1> HIDE DEF k
<1>2. \A a, b \in DOMAIN k : a < b => k[a] # k[b]
  BY <1>1 DEF IsInjective
<1>3. \A a, b \in DOMAIN k : a # b => a < b \/ b < a
  BY <1>1
<1>4. IsInjective(k)
  BY <1>2, <1>3 DEF IsInjective
<1> QED BY <1>4 DEF k

-----------------------------------------------------------------------------
LEMMA KeptSteps ==
    ASSUME NEW f, NEW s, NEW S, NEW m \in Nat, KeptTo(f, s, S, m)
    PROVE  f[0] = <<>> /\ \A n \in 1..m : f[n] = IF s[n] \in S THEN Append(f[n - 1], s[n]) ELSE f[n - 1]
<1>1. f[0] = <<>>
  BY DEF KeptTo
<1>2. ASSUME NEW n \in 1..m PROVE f[n] = IF s[n] \in S THEN Append(f[n - 1], s[n]) ELSE f[n - 1]
  <2>1. n \in 0..m /\ n # 0
    OBVIOUS
  <2> QED BY <2>1 DEF KeptTo
<1> QED BY <1>1, <1>2

\* What comes first is kept first.
LEMMA KeepCons ==
    ASSUME NEW T, NEW s \in Seq(T), NEW x \in T, NEW S
    PROVE  Keep(<<x>> \o s, S) = (IF x \in S THEN <<x>> ELSE <<>>) \o Keep(s, S)
<1> DEFINE N == Len(s)
           c == <<x>> \o s
           p == IF x \in S THEN <<x>> ELSE <<>>
<1>0. /\ N \in Nat /\ c \in Seq(T) /\ Len(c) = N + 1 /\ c[1] = x
      /\ \A n \in 1..N : c[n + 1] = s[n] /\ s[n] \in T
  OBVIOUS
<1>1. PICK f : KeptTo(f, s, S, N) /\ Keep(s, S) = f[N]
  <2>1. \E f : KeptTo(f, s, S, N)
    BY KeptExists, <1>0
  <2> QED BY <2>1 DEF Keep, KeptTo
<1>2. PICK g : KeptTo(g, c, S, N + 1) /\ Keep(c, S) = g[N + 1]
  <2> HIDE DEF c
  <2>1. \E g : KeptTo(g, c, S, N + 1)
    <3>1. N + 1 \in Nat
      BY <1>0
    <3> HIDE DEF N
    <3> QED BY KeptExists, <1>0, <3>1
  <2> QED BY <1>0, <2>1 DEF Keep, KeptTo
<1> HIDE DEF c, N
<1>3. f[0] = <<>> /\ \A n \in 1..N : f[n] = IF s[n] \in S THEN Append(f[n - 1], s[n]) ELSE f[n - 1]
  BY <1>0, <1>1, KeptSteps
<1>4. g[0] = <<>> /\ \A n \in 1..(N + 1) : g[n] = IF c[n] \in S THEN Append(g[n - 1], c[n]) ELSE g[n - 1]
  <2>1. N + 1 \in Nat
    BY <1>0
  <2> QED BY <1>2, <2>1, KeptSteps
<1>5. g[1] = p
  <2>1. 1 \in 1..(N + 1) /\ 1 - 1 = 0
    BY <1>0
  <2>2. g[1] = IF x \in S THEN Append(<<>>, x) ELSE <<>>
    BY <1>0, <1>4, <2>1
  <2>3. Append(<<>>, x) = <<x>>
    OBVIOUS
  <2> QED BY <2>2, <2>3
<1> DEFINE good(n) == f[n] \in Seq(T) /\ g[n + 1] = p \o f[n]
           bad == {n \in 0..N : ~good(n)}
<1>6. good(0)
  BY <1>3, <1>5
<1>7. ASSUME NEW n \in 1..N, good(n - 1) PROVE good(n)
  <2>1. /\ n \in Nat /\ n - 1 \in Nat /\ n + 1 \in 1..(N + 1) /\ (n + 1) - 1 = n /\ (n - 1) + 1 = n
    BY <1>0
  <2>2. g[n + 1] = IF s[n] \in S THEN Append(g[n], s[n]) ELSE g[n]
    BY <1>0, <1>4, <2>1
  <2>3. f[n - 1] \in Seq(T) /\ g[n] = p \o f[n - 1]
    BY <1>7, <2>1
  <2>4. p \in Seq(T) /\ s[n] \in T
    BY <1>0
  <2> HIDE DEF p
  <2>5. CASE s[n] \in S
    <3> DEFINE q == f[n - 1]
               y == s[n]
    <3>1. q \in Seq(T) /\ y \in T /\ <<y>> \in Seq(T)
      BY <2>3, <2>4
    <3>2. f[n] = Append(q, y) /\ g[n + 1] = Append(g[n], y) /\ g[n] = p \o q
      BY <1>3, <2>2, <2>3, <2>5
    <3> HIDE DEF q, y
    <3>3. f[n] = q \o <<y>> /\ f[n] \in Seq(T)
      BY <3>1, <3>2, AppendIsConcat, AppendProperties
    <3>4. g[n] \in Seq(T)
      BY <2>4, <3>1, <3>2, ConcatProperties
    <3>5. g[n + 1] = g[n] \o <<y>>
      BY <3>1, <3>2, <3>4, AppendIsConcat
    <3>6. (p \o q) \o <<y>> = p \o (q \o <<y>>)
      BY <2>4, <3>1, ConcatAssociative
    <3> QED BY <3>2, <3>3, <3>5, <3>6
  <2>6. CASE s[n] \notin S
    BY <1>3, <2>2, <2>3, <2>6
  <2> QED BY <2>5, <2>6
<1> HIDE DEF good
<1>8. good(N)
  <2> SUFFICES ASSUME bad # {} PROVE FALSE
    <3>1. N \in 0..N
      BY <1>0
    <3> QED BY <3>1
  <2>0. bad \subseteq Nat
    BY <1>0
  <2> HIDE DEF bad
  <2>1. PICK n \in bad : \A k \in bad : n <= k
    BY <2>0, Least
  <2> USE DEF bad
  <2>2. n \in 1..N
    BY <1>0, <1>6, <2>1
  <2>3. n - 1 \in 0..N /\ n - 1 \notin bad
    BY <1>0, <2>1, <2>2
  <2> QED BY <1>7, <2>1, <2>2, <2>3
<1> HIDE DEF bad
<1> QED BY <1>1, <1>2, <1>8 DEF c, good

\* Two filters that agree on a sequence keep the same of it.
LEMMA KeepSame ==
    ASSUME NEW T, NEW s \in Seq(T), NEW S, NEW R, \A x \in ToSet(s) : x \in S <=> x \in R
    PROVE  Keep(s, S) = Keep(s, R)
<1> DEFINE N == Len(s)
<1>0. N \in Nat /\ \A n \in 1..N : s[n] \in S <=> s[n] \in R
  BY DEF ToSet
<1>1. PICK f : KeptTo(f, s, S, N) /\ Keep(s, S) = f[N]
  <2>1. \E f : KeptTo(f, s, S, N)
    BY KeptExists, <1>0
  <2> QED BY <2>1 DEF Keep, KeptTo
<1>2. PICK g : KeptTo(g, s, R, N) /\ Keep(s, R) = g[N]
  <2>1. \E g : KeptTo(g, s, R, N)
    BY KeptExists, <1>0
  <2> QED BY <2>1 DEF Keep, KeptTo
<1> HIDE DEF N
<1>3. f[0] = <<>> /\ \A n \in 1..N : f[n] = IF s[n] \in S THEN Append(f[n - 1], s[n]) ELSE f[n - 1]
  BY <1>0, <1>1, KeptSteps
<1>4. g[0] = <<>> /\ \A n \in 1..N : g[n] = IF s[n] \in R THEN Append(g[n - 1], s[n]) ELSE g[n - 1]
  BY <1>0, <1>2, KeptSteps
<1> DEFINE bad == {n \in 0..N : f[n] # g[n]}
<1>5. f[N] = g[N]
  <2> SUFFICES ASSUME bad # {} PROVE FALSE
    BY <1>0
  <2>0. bad \subseteq Nat
    BY <1>0
  <2> HIDE DEF bad
  <2>1. PICK n \in bad : \A k \in bad : n <= k
    BY <2>0, Least
  <2> USE DEF bad
  <2>2. n \in 1..N
    BY <1>0, <1>3, <1>4, <2>1
  <2>3. n - 1 \in 0..N /\ n - 1 \notin bad
    BY <1>0, <2>1, <2>2
  <2> QED BY <1>0, <1>3, <1>4, <2>1, <2>2, <2>3
<1> QED BY <1>1, <1>2, <1>5

-----------------------------------------------------------------------------
(* Lists as sets of their members.                                          *)

LEMMA ContainsIsIn == ASSUME NEW T, NEW s \in Seq(T), NEW x PROVE Contains(s, x) <=> x \in ToSet(s)
BY DEF Contains, ToSet

LEMMA ConsFacts ==
    ASSUME NEW T, NEW s \in Seq(T), NEW x \in T
    PROVE  /\ <<x>> \o s \in Seq(T) /\ <<x>> \o s # <<>>
           /\ Head(<<x>> \o s) = x /\ Tail(<<x>> \o s) = s /\ (<<x>> \o s)[1] = x
           /\ ToSet(<<x>> \o s) = {x} \cup ToSet(s)
           /\ IsInjective(s) /\ x \notin ToSet(s) => IsInjective(<<x>> \o s)
<1> DEFINE c == <<x>> \o s
<1>1. /\ c \in Seq(T) /\ Len(c) = Len(s) + 1 /\ DOMAIN c = 1..(Len(s) + 1) /\ Len(s) \in Nat
      /\ DOMAIN s = 1..Len(s) /\ c[1] = x /\ \A i \in 1..Len(s) : c[i + 1] = s[i]
  OBVIOUS
<1> HIDE DEF c
<1>2. \A i \in DOMAIN c : i = 1 \/ (i - 1 \in DOMAIN s /\ c[i] = s[i - 1])
  <2> TAKE i \in DOMAIN c
  <2>1. CASE i # 1
    <3>1. i - 1 \in 1..Len(s) /\ (i - 1) + 1 = i
      BY <1>1, <2>1
    <3> QED BY <1>1, <3>1
  <2> QED BY <2>1
<1>3. c # <<>> /\ Head(c) = x
  BY <1>1
<1>4. Tail(c) = s
  <2>1. Tail(c) \in Seq(T) /\ Len(Tail(c)) = Len(s) /\ \A i \in 1..Len(s) : Tail(c)[i] = s[i]
    BY <1>1, <1>3, HeadTailProperties
  <2> QED BY <2>1, SeqEqual
<1>5. ToSet(c) = {x} \cup ToSet(s)
  <2>1. ASSUME NEW e \in ToSet(c) PROVE e \in {x} \cup ToSet(s)
    BY <1>1, <1>2 DEF ToSet
  <2>2. ASSUME NEW e \in ToSet(s) PROVE e \in ToSet(c)
    <3>1. PICK i \in 1..Len(s) : s[i] = e
      BY <1>1 DEF ToSet
    <3>2. i + 1 \in DOMAIN c /\ c[i + 1] = e
      BY <1>1, <3>1
    <3> QED BY <3>2 DEF ToSet
  <2>3. x \in ToSet(c)
    <3>1. 1 \in DOMAIN c
      BY <1>1
    <3> QED BY <1>1, <3>1 DEF ToSet
  <2> QED BY <2>1, <2>2, <2>3
<1>6. ASSUME IsInjective(s), x \notin ToSet(s) PROVE IsInjective(c)
  <2>1. \A i \in DOMAIN s : s[i] # x
    BY <1>6 DEF ToSet
  <2>2. \A i, j \in DOMAIN s : s[i] = s[j] => i = j
    BY <1>6 DEF IsInjective
  <2>3. ASSUME NEW i \in DOMAIN c, NEW j \in DOMAIN c, c[i] = c[j] PROVE i = j
    <3>1. i \in Nat /\ j \in Nat
      BY <1>1
    <3>2. CASE i = 1
      BY <1>1, <1>2, <2>1, <2>3, <3>2
    <3>3. CASE j = 1
      BY <1>1, <1>2, <2>1, <2>3, <3>3
    <3>4. CASE i # 1 /\ j # 1
      <4>1. i - 1 = j - 1
        BY <1>2, <2>2, <2>3, <3>4
      <4> QED BY <3>1, <4>1
    <3> QED BY <3>2, <3>3, <3>4
  <2> QED BY <2>3 DEF IsInjective
<1> QED BY <1>1, <1>3, <1>4, <1>5, <1>6 DEF c

LEMMA TailFacts ==
    ASSUME NEW T, NEW s \in Seq(T), s # <<>>
    PROVE  /\ Head(s) \in T /\ Head(s) = s[1] /\ Tail(s) \in Seq(T)
           /\ s = <<Head(s)>> \o Tail(s)
           /\ ToSet(s) = {Head(s)} \cup ToSet(Tail(s))
           /\ IsInjective(s) => IsInjective(Tail(s)) /\ Head(s) \notin ToSet(Tail(s))
<1>1. /\ Head(s) \in T /\ Head(s) = s[1] /\ Tail(s) \in Seq(T) /\ Len(s) \in Nat \ {0}
      /\ DOMAIN s = 1..Len(s) /\ DOMAIN Tail(s) = 1..(Len(s) - 1)
      /\ \A i \in 1..(Len(s) - 1) : Tail(s)[i] = s[i + 1]
  <2>1. Len(s) \in Nat \ {0}
    BY EmptySeq, LenProperties
  <2> QED BY <2>1, HeadTailProperties, LenProperties
<1>2. s = <<Head(s)>> \o Tail(s)
  <2> DEFINE h == Head(s)
             u == Tail(s)
             c == <<h>> \o u
  <2>1. h \in T /\ u \in Seq(T) /\ Len(u) = Len(s) - 1
    BY <1>1
  <2> HIDE DEF h, u
  <2>2. c \in Seq(T) /\ Len(c) = Len(u) + 1 /\ c[1] = h /\ \A i \in 1..Len(u) : c[i + 1] = u[i]
    BY <2>1
  <2> HIDE DEF c
  <2>3. ASSUME NEW i \in 1..Len(s) PROVE s[i] = c[i]
    <3>1. CASE i = 1
      BY <1>1, <2>2, <3>1 DEF h
    <3>2. CASE i # 1
      <4>1. i - 1 \in 1..(Len(s) - 1) /\ (i - 1) + 1 = i
        BY <1>1, <3>2
      <4> QED BY <1>1, <2>1, <2>2, <4>1 DEF u
    <3> QED BY <3>1, <3>2
  <2>4. Len(c) = Len(s)
    BY <1>1, <2>1, <2>2
  <2>5. s = c
    BY <2>2, <2>3, <2>4, SeqEqual
  <2> QED BY <2>5 DEF c, h, u
<1>3. ToSet(s) = {Head(s)} \cup ToSet(Tail(s))
  <2> DEFINE h == Head(s)
             u == Tail(s)
  <2>1. h \in T /\ u \in Seq(T) /\ s = <<h>> \o u
    BY <1>1, <1>2
  <2> HIDE DEF h, u
  <2>2. ToSet(s) = {h} \cup ToSet(u)
    BY <2>1, ConsFacts
  <2> QED BY <2>2 DEF h, u
<1>4. ASSUME IsInjective(s) PROVE IsInjective(Tail(s)) /\ Head(s) \notin ToSet(Tail(s))
  <2>1. \A i, j \in DOMAIN s : s[i] = s[j] => i = j
    BY <1>4 DEF IsInjective
  <2>2. ASSUME NEW i \in DOMAIN Tail(s)
        PROVE  i \in Nat /\ i + 1 \in DOMAIN s /\ Tail(s)[i] = s[i + 1] /\ i + 1 # 1 /\ 1 \in DOMAIN s
    BY <1>1
  <2>3. ASSUME NEW i \in DOMAIN Tail(s) PROVE Tail(s)[i] # Head(s)
    <3>1. i \in Nat /\ i + 1 \in DOMAIN s /\ Tail(s)[i] = s[i + 1] /\ i + 1 # 1 /\ 1 \in DOMAIN s
      BY <2>2
    <3> QED BY <1>1, <2>1, <3>1
  <2>4. ASSUME NEW i \in DOMAIN Tail(s), NEW j \in DOMAIN Tail(s), Tail(s)[i] = Tail(s)[j] PROVE i = j
    <3>1. i + 1 = j + 1
      BY <2>1, <2>2, <2>4
    <3> QED BY <2>2, <3>1
  <2>5. Head(s) \notin ToSet(Tail(s))
    BY <2>3 DEF ToSet
  <2>6. IsInjective(Tail(s))
    BY <2>4 DEF IsInjective
  <2> QED BY <2>5, <2>6
<1> QED BY <1>1, <1>2, <1>3, <1>4

LEMMA ConcatFacts ==
    ASSUME NEW T, NEW s \in Seq(T), NEW u \in Seq(T)
    PROVE  /\ s \o u \in Seq(T) /\ ToSet(s \o u) = ToSet(s) \cup ToSet(u)
           /\ IsInjective(s) /\ IsInjective(u) /\ ToSet(s) \cap ToSet(u) = {} => IsInjective(s \o u)
<1> DEFINE c == s \o u
           n == Len(s)
<1>1. /\ c \in Seq(T) /\ n \in Nat /\ Len(u) \in Nat /\ DOMAIN c = 1..(n + Len(u))
      /\ DOMAIN s = 1..n /\ DOMAIN u = 1..Len(u)
      /\ \A i \in 1..n : c[i] = s[i]
      /\ \A i \in (n + 1)..(n + Len(u)) : c[i] = u[i - n]
  BY ConcatProperties, LenProperties
<1> HIDE DEF c, n
<1>2. ASSUME NEW i \in DOMAIN c PROVE \/ i \in DOMAIN s /\ c[i] = s[i]
                                      \/ i - n \in DOMAIN u /\ c[i] = u[i - n]
  <2>1. CASE i <= n
    BY <1>1, <2>1
  <2>2. CASE ~(i <= n)
    <3>1. i \in (n + 1)..(n + Len(u)) /\ i - n \in 1..Len(u)
      BY <1>1, <2>2
    <3> QED BY <1>1, <3>1
  <2> QED BY <2>1, <2>2
<1>3. ToSet(c) = ToSet(s) \cup ToSet(u)
  <2>1. ToSet(c) \subseteq ToSet(s) \cup ToSet(u)
    BY <1>2 DEF ToSet
  <2>2. ASSUME NEW i \in DOMAIN s PROVE s[i] \in ToSet(c)
    <3>1. i \in DOMAIN c /\ c[i] = s[i]
      BY <1>1
    <3> QED BY <3>1 DEF ToSet
  <2>3. ASSUME NEW i \in DOMAIN u PROVE u[i] \in ToSet(c)
    <3>1. n + i \in (n + 1)..(n + Len(u)) /\ n + i \in DOMAIN c /\ (n + i) - n = i
      BY <1>1
    <3>2. c[n + i] = u[i]
      BY <1>1, <3>1
    <3> QED BY <3>1, <3>2 DEF ToSet
  <2> QED BY <2>1, <2>2, <2>3 DEF ToSet
<1>4. ASSUME IsInjective(s), IsInjective(u), ToSet(s) \cap ToSet(u) = {} PROVE IsInjective(c)
  <2>1. /\ \A i, j \in DOMAIN s : s[i] = s[j] => i = j
        /\ \A i, j \in DOMAIN u : u[i] = u[j] => i = j
    BY <1>4 DEF IsInjective
  <2>2. \A i \in DOMAIN s, j \in DOMAIN u : s[i] # u[j]
    BY <1>4 DEF ToSet
  <2>3. ASSUME NEW i \in DOMAIN c, NEW j \in DOMAIN c, c[i] = c[j] PROVE i = j
    <3>1. i \in Nat /\ j \in Nat
      BY <1>1
    <3>2. CASE i \in DOMAIN s /\ c[i] = s[i]
      BY <1>2, <2>1, <2>2, <2>3, <3>2
    <3>3. CASE i - n \in DOMAIN u /\ c[i] = u[i - n]
      <4>1. j - n \in DOMAIN u /\ c[j] = u[j - n]
        BY <1>2, <2>2, <2>3, <3>3
      <4>2. i - n = j - n
        BY <2>1, <2>3, <3>3, <4>1
      <4> QED BY <1>1, <3>1, <4>2
    <3> QED BY <1>2, <3>2, <3>3
  <2> QED BY <2>3 DEF IsInjective
<1> QED BY <1>1, <1>3, <1>4 DEF c

LEMMA AppendFacts ==
    ASSUME NEW T, NEW s \in Seq(T), NEW x \in T
    PROVE  /\ Append(s, x) \in Seq(T) /\ ToSet(Append(s, x)) = ToSet(s) \cup {x}
           /\ IsInjective(s) /\ x \notin ToSet(s) => IsInjective(Append(s, x))
<1> DEFINE u == <<x>>
<1>1. Append(s, x) = s \o u /\ u \in Seq(T)
  BY AppendIsConcat
<1>2. ToSet(u) = {x} /\ IsInjective(u)
  BY DEF ToSet, IsInjective
<1> HIDE DEF u
<1> QED BY <1>1, <1>2, ConcatFacts

LEMMA UnlinkFacts ==
    ASSUME NEW T, NEW s \in Seq(T), NEW x
    PROVE  /\ Unlink(s, x) \in Seq(T) /\ ToSet(Unlink(s, x)) = ToSet(s) \ {x}
           /\ IsInjective(s) => IsInjective(Unlink(s, x))
<1> DEFINE R == ToSet(s) \ {x}
<1> HIDE DEF R
<1>1. Keep(s, R) \in Seq(T) /\ ToSet(Keep(s, R)) = ToSet(s) \cap R
  BY KeepFacts
<1>2. IsInjective(s) => IsInjective(Keep(s, R))
  BY KeepInjective
<1>3. Unlink(s, x) = Keep(s, R)
  BY DEF Unlink, R
<1> QED BY <1>1, <1>2, <1>3 DEF R

\* The messages of a list of entries or frames.
LEMMA IdsFacts ==
    ASSUME NEW T, NEW s \in Seq(T), \A x \in T : x.m \in Msgs
    PROVE  /\ Ids(s) \in Seq(Msgs) /\ ToSet(Ids(s)) = {x.m : x \in ToSet(s)}
           /\ s = <<>> => Ids(s) = <<>>
           /\ \A x \in T : Ids(<<x>> \o s) = <<x.m>> \o Ids(s)
           /\ IsInjective(s) /\ (\A x, y \in ToSet(s) : x.m = y.m => x = y) => IsInjective(Ids(s))
<1>1. /\ Len(s) \in Nat /\ DOMAIN s = 1..Len(s) /\ \A i \in 1..Len(s) : s[i] \in T
      /\ Ids(s) = [i \in 1..Len(s) |-> s[i].m]
  BY DEF Ids
<1>2. Ids(s) \in Seq(Msgs) /\ Len(Ids(s)) = Len(s) /\ DOMAIN Ids(s) = 1..Len(s)
      /\ \A i \in 1..Len(s) : Ids(s)[i] = s[i].m
  BY <1>1
<1>3. ToSet(Ids(s)) = {x.m : x \in ToSet(s)}
  BY <1>1, <1>2 DEF ToSet
<1>4. ASSUME s = <<>> PROVE Ids(s) = <<>>
  BY <1>4, <1>1, <1>2
<1>5. ASSUME NEW x \in T PROVE Ids(<<x>> \o s) = <<x.m>> \o Ids(s)
  <2> DEFINE c == <<x>> \o s
             e == x.m
             u == Ids(s)
             d == <<e>> \o u
  <2>1. /\ c \in Seq(T) /\ Len(c) = Len(s) + 1 /\ c[1] = x /\ \A i \in 1..Len(s) : c[i + 1] = s[i]
        /\ DOMAIN c = 1..Len(c) /\ \A i \in 1..Len(c) : c[i] \in T
    BY <1>1
  <2> HIDE DEF c
  <2>2. /\ Ids(c) \in Seq(Msgs) /\ Len(Ids(c)) = Len(c) /\ \A i \in 1..Len(c) : Ids(c)[i] = c[i].m
    <3>1. Ids(c) = [i \in 1..Len(c) |-> c[i].m]
      BY <2>1 DEF Ids
    <3>2. Len(c) \in Nat
      BY <2>1
    <3> QED BY <2>1, <3>1, <3>2
  <2>3. e \in Msgs /\ u \in Seq(Msgs) /\ Len(u) = Len(s)
    BY <1>2
  <2>4. e = x.m /\ \A i \in 1..Len(s) : u[i] = s[i].m
    BY <1>2
  <2> HIDE DEF e, u
  <2>5. d \in Seq(Msgs) /\ Len(d) = Len(u) + 1 /\ d[1] = e /\ \A i \in 1..Len(u) : d[i + 1] = u[i]
    BY <2>3
  <2> HIDE DEF d
  <2>6. ASSUME NEW i \in 1..Len(c) PROVE Ids(c)[i] = d[i]
    <3>1. CASE i = 1
      BY <2>1, <2>2, <2>4, <2>5, <3>1
    <3>2. CASE i # 1
      <4>1. i - 1 \in 1..Len(s) /\ (i - 1) + 1 = i
        BY <1>1, <2>1, <3>2
      <4>2. Ids(c)[i] = s[i - 1].m
        BY <2>1, <2>2, <4>1
      <4>3. d[i] = s[i - 1].m
        BY <2>3, <2>4, <2>5, <4>1
      <4> QED BY <4>2, <4>3
    <3> QED BY <3>1, <3>2
  <2>7. Len(d) = Len(Ids(c))
    BY <2>1, <2>2, <2>3, <2>5
  <2>8. Ids(c) = d
    BY <2>2, <2>5, <2>6, <2>7, SeqEqual
  <2> QED BY <2>8 DEF c, d, e, u
<1>6. ASSUME IsInjective(s), \A x, y \in ToSet(s) : x.m = y.m => x = y PROVE IsInjective(Ids(s))
  <2>1. \A i, j \in DOMAIN s : s[i].m = s[j].m => i = j
    BY <1>6 DEF IsInjective, ToSet
  <2> QED BY <1>1, <1>2, <2>1 DEF IsInjective
<1> QED BY <1>2, <1>3, <1>4, <1>5, <1>6

-----------------------------------------------------------------------------
(* The inductive invariant, in parts.                                       *)

Entry == [k : {"message", "answer"}, m : Msgs]
Frame == [k : {"proc", "wait"}, m : Msgs, replied : BOOLEAN, block : BOOLEAN]
Rec == [st : {"none", "notify", "live", "freed"}, sender : Threads \cup {None},
        receiver : Threads \cup {None}, replied : BOOLEAN,
        answer : Answers \cup {None}, deadline : BOOLEAN,
        kind : {"sync", "notify", "callback"},
        from : Threads \cup {None}, to : Threads \cup {None}]

\* What holds of the record r of message m, whoever is alive.
RecOK(m, r) ==
    /\ r.st \in {"none", "notify"} =>
          r.sender = None /\ r.receiver = None /\ r.kind = "notify" /\ ~r.replied
    /\ r.st \in {"live", "freed"} => r.kind \in {"sync", "callback"}
    /\ r.st = "live" <=> r.sender # None \/ r.receiver # None
    /\ r.deadline => r.kind = "sync"
    /\ r.sender # None => r.sender # r.to
    /\ r.receiver # None => r.receiver = r.to
    /\ r.kind = "callback" /\ r.replied => r.sender = None
    /\ r.sender # None /\ ~r.replied => r.receiver # None
    /\ r.replied => r.answer \in {m, "timeout", "denied"}
    /\ ~r.replied => r.answer = None

\* The records, the threads they name, and what they were denied for.
RecInv ==
    \A m \in Msgs :
       /\ RecOK(m, res[m])
       /\ res[m].sender # None => res[m].sender \in alive
       /\ res[m].receiver # None => res[m].receiver \in alive
       /\ res[m].answer = "denied" => res[m].to \notin alive

\* The lists of the sender's side hold what names the sender.
SendInv ==
    \A t \in Threads :
       /\ IsInjective(sends[t]) /\ IsInjective(calls[t])
       /\ \A m \in Msgs :
             /\ m \in ToSet(sends[t]) <=> res[m].sender = t /\ res[m].kind = "sync"
             /\ m \in ToSet(calls[t]) <=> res[m].sender = t /\ res[m].kind = "callback"

\* The lists of the receiver's side hold what names the receiver, once.
RecvInv ==
    \A t \in Threads :
       /\ IsInjective(recv[t]) /\ IsInjective(sent[t])
       /\ \A m \in Msgs :
             /\ m \in ToSet(recv[t]) => Message(m) \notin ToSet(sent[t]) /\ res[m].st # "notify"
             /\ res[m].st # "notify" =>
                   (m \in ToSet(recv[t]) \/ Message(m) \in ToSet(sent[t]) <=> res[m].receiver = t)

\* A callback on its way is the only one for its message, and has not been told.
AnswerInv ==
    /\ \A m \in Msgs, t \in Threads : Answer(m) \in ToSet(sent[t]) =>
          /\ res[m].kind = "callback" /\ res[m].replied /\ told[m] = <<>>
          /\ \A u \in Threads : Answer(m) \in ToSet(sent[u]) => u = t
    /\ \A m \in Msgs : told[m] # <<>> =>
          told[m] = <<res[m].answer>> /\ res[m].replied /\ res[m].sender = None

\* A frame is of a message that was sent; a thread waits for no notification.
FrameInv ==
    \A t \in Threads : \A f \in ToSet(frames[t]) :
       res[f.m].st # "none" /\ (f.k = "wait" => res[f.m].st # "notify")

-----------------------------------------------------------------------------
(* What becomes of a record.                                                *)

\* What no change of a live record touches.
Goes(r, q) ==
    /\ r.st = "live" /\ q.st \in {"live", "freed"} /\ q.kind = r.kind /\ q.to = r.to
    /\ q.receiver \in {None, r.receiver} /\ q.sender \in {None, r.sender}
    /\ r.replied => q.replied /\ q.answer = r.answer

\* A record one of whose sides has let go, if it was the last.
LEMMA SettleFacts ==
    ASSUME NEW m \in Msgs, NEW r \in Rec, r.st = "live",
           r.kind \in {"sync", "callback"}, r.deadline => r.kind = "sync",
           r.sender # None => r.sender # r.to, r.receiver # None => r.receiver = r.to,
           r.kind = "callback" /\ r.replied => r.sender = None,
           r.sender # None /\ ~r.replied => r.receiver # None,
           r.replied => r.answer \in {m, "timeout", "denied"}, ~r.replied => r.answer = None
    PROVE  /\ Settle(r) \in Rec /\ RecOK(m, Settle(r)) /\ Settle(r).st \in {"live", "freed"}
           /\ Settle(r).sender = r.sender /\ Settle(r).receiver = r.receiver
           /\ Settle(r).kind = r.kind /\ Settle(r).to = r.to
           /\ Settle(r).replied = r.replied /\ Settle(r).answer = r.answer
<1>1. CASE r.sender = None /\ r.receiver = None
  <2> DEFINE q == [r EXCEPT !.st = "freed"]
  <2>1. Settle(r) = q
    BY <1>1 DEF Settle
  <2>2. /\ q \in Rec /\ q.st = "freed" /\ q.sender = r.sender /\ q.receiver = r.receiver
        /\ q.kind = r.kind /\ q.to = r.to /\ q.replied = r.replied /\ q.answer = r.answer
        /\ q.deadline = r.deadline
    BY DEF Rec
  <2> HIDE DEF q
  <2>3. RecOK(m, q)
    BY <1>1, <2>2 DEF RecOK
  <2> QED BY <2>1, <2>2, <2>3
<1>2. CASE ~(r.sender = None /\ r.receiver = None)
  <2>1. Settle(r) = r
    BY <1>2 DEF Settle
  <2>2. RecOK(m, r)
    BY <1>2 DEF RecOK
  <2> QED BY <2>1, <2>2
<1> QED BY <1>1, <1>2

\* The sender lets go.
LEMMA LetGoFacts ==
    ASSUME NEW m \in Msgs, NEW r \in Rec, RecOK(m, r), r.sender # None
    PROVE  LET q == Settle([r EXCEPT !.sender = None])
           IN  /\ q \in Rec /\ RecOK(m, q) /\ Goes(r, q)
               /\ q.sender = None /\ q.receiver = r.receiver /\ q.replied = r.replied /\ q.answer = r.answer
<1> DEFINE p == [r EXCEPT !.sender = None]
<1>1. /\ p \in Rec /\ p.st = r.st /\ p.sender = None /\ p.receiver = r.receiver
      /\ p.kind = r.kind /\ p.to = r.to /\ p.replied = r.replied /\ p.answer = r.answer
      /\ p.deadline = r.deadline
  BY DEF Rec
<1> HIDE DEF p
<1>2. r.st = "live"
  BY DEF RecOK
<1>3. /\ Settle(p) \in Rec /\ RecOK(m, Settle(p)) /\ Settle(p).st \in {"live", "freed"}
      /\ Settle(p).sender = p.sender /\ Settle(p).receiver = p.receiver
      /\ Settle(p).kind = p.kind /\ Settle(p).to = p.to
      /\ Settle(p).replied = p.replied /\ Settle(p).answer = p.answer
  BY <1>1, <1>2, SettleFacts DEF RecOK
<1> QED BY <1>1, <1>2, <1>3 DEF p, Goes

\* An answer is stored in a record that has none.
LEMMA StoreFacts ==
    ASSUME NEW m \in Msgs, NEW r \in Rec, NEW a \in {m, "timeout", "denied"}, r.st = "live", ~r.replied,
           r.kind \in {"sync", "callback"},
           r.sender # None => r.sender # r.to, r.receiver # None => r.receiver = r.to
    PROVE  LET q == Store(r, a)
           IN  /\ q \in Rec /\ RecOK(m, q) /\ Goes(r, q)
               /\ q.sender = (IF r.kind = "callback" THEN None ELSE r.sender)
               /\ q.receiver = r.receiver /\ q.replied /\ q.answer = a
<1> DEFINE s == IF r.kind = "callback" THEN None ELSE r.sender
           p == [r EXCEPT !.replied = TRUE, !.answer = a, !.deadline = FALSE]
           w == IF r.kind = "callback" THEN [p EXCEPT !.sender = None] ELSE p
<1>0. a \in Answers
  BY DEF Answers
<1>1. /\ p \in Rec /\ p.st = r.st /\ p.sender = r.sender /\ p.receiver = r.receiver
      /\ p.kind = r.kind /\ p.to = r.to /\ p.replied /\ p.answer = a /\ ~p.deadline
  BY <1>0 DEF Rec
<1> HIDE DEF p
<1>2. /\ w \in Rec /\ w.st = r.st /\ w.sender = s /\ w.receiver = r.receiver
      /\ w.kind = r.kind /\ w.to = r.to /\ w.replied /\ w.answer = a /\ ~w.deadline
  <2>1. CASE r.kind = "callback"
    <3> DEFINE v == [p EXCEPT !.sender = None]
    <3>1. /\ v \in Rec /\ v.st = p.st /\ v.sender = None /\ v.receiver = p.receiver
          /\ v.kind = p.kind /\ v.to = p.to /\ v.replied = p.replied /\ v.answer = p.answer
          /\ v.deadline = p.deadline
      BY <1>1 DEF Rec
    <3> HIDE DEF v
    <3>2. w = v
      BY <2>1 DEF v
    <3> QED BY <1>1, <2>1, <3>1, <3>2
  <2>2. CASE r.kind # "callback"
    BY <1>1, <2>2
  <2> QED BY <2>1, <2>2
<1>3. Store(r, a) = Settle(w)
  BY DEF Store, p
<1>4. s # None => s # r.to
  OBVIOUS
<1>5. s \in {None, r.sender} /\ (r.kind = "callback" => s = None)
  OBVIOUS
<1> HIDE DEF w, s
<1>6. /\ Settle(w) \in Rec /\ RecOK(m, Settle(w)) /\ Settle(w).st \in {"live", "freed"}
      /\ Settle(w).sender = w.sender /\ Settle(w).receiver = w.receiver
      /\ Settle(w).kind = w.kind /\ Settle(w).to = w.to
      /\ Settle(w).replied = w.replied /\ Settle(w).answer = w.answer
  BY <1>2, <1>4, <1>5, SettleFacts, ZenonT(40)
<1> QED BY <1>2, <1>3, <1>5, <1>6 DEF Goes, s

\* Whoever had a callback for the answer that counts no longer names the record.
SenderAfter(r) == IF Calls(r) THEN None ELSE r.sender

\* The receiver is done, or has ended.
LEMMA AnsweredFacts ==
    ASSUME NEW m \in Msgs, NEW r \in Rec, RecOK(m, r), r.receiver # None, NEW a \in {m, "timeout", "denied"}
    PROVE  LET q == Answered(r, a)
           IN  /\ q \in Rec /\ RecOK(m, q) /\ Goes(r, q)
               /\ q.sender = SenderAfter(r) /\ q.receiver = None
               /\ Calls(r) => q.replied
               /\ q.answer \in {r.answer, a}
<1> DEFINE p == [r EXCEPT !.receiver = None]
<1>1. /\ p \in Rec /\ p.st = r.st /\ p.sender = r.sender /\ p.receiver = None
      /\ p.kind = r.kind /\ p.to = r.to /\ p.replied = r.replied /\ p.answer = r.answer
      /\ p.deadline = r.deadline
  BY DEF Rec
<1>2. Answered(r, a) = IF r.sender = None \/ r.replied THEN Settle(p) ELSE Store(p, a)
  BY DEF Answered
<1> HIDE DEF p
<1>3. r.st = "live" /\ r.kind \in {"sync", "callback"}
  BY DEF RecOK
<1>4. CASE r.sender = None \/ r.replied
  <2>1. /\ Settle(p) \in Rec /\ RecOK(m, Settle(p)) /\ Settle(p).st \in {"live", "freed"}
        /\ Settle(p).sender = p.sender /\ Settle(p).receiver = p.receiver
        /\ Settle(p).kind = p.kind /\ Settle(p).to = p.to
        /\ Settle(p).replied = p.replied /\ Settle(p).answer = p.answer
    BY <1>1, <1>3, <1>4, SettleFacts DEF RecOK
  <2>2. ~Calls(r)
    BY <1>4 DEF Calls
  <2> QED BY <1>1, <1>2, <1>3, <1>4, <2>1, <2>2 DEF Goes, SenderAfter
<1>5. CASE ~(r.sender = None \/ r.replied)
  <2>1. /\ Store(p, a) \in Rec /\ RecOK(m, Store(p, a)) /\ Goes(p, Store(p, a))
        /\ Store(p, a).sender = (IF p.kind = "callback" THEN None ELSE p.sender)
        /\ Store(p, a).receiver = p.receiver /\ Store(p, a).replied /\ Store(p, a).answer = a
    BY <1>1, <1>3, <1>5, StoreFacts DEF RecOK
  <2>2. Calls(r) <=> r.kind = "callback"
    BY <1>5 DEF Calls
  <2> QED BY <1>1, <1>2, <1>3, <1>5, <2>1, <2>2 DEF Goes, SenderAfter
<1> QED BY <1>4, <1>5

\* ReplyMessage.
LEMMA EarlyFacts ==
    ASSUME NEW m \in Msgs, NEW r \in Rec, RecOK(m, r), r.receiver # None, NEW a \in {m, "timeout", "denied"}
    PROVE  LET q == EarlyAnswered(r, a)
           IN  /\ q \in Rec /\ RecOK(m, q) /\ Goes(r, q)
               /\ q.sender = SenderAfter(r) /\ q.receiver = r.receiver
               /\ q.replied /\ q.answer \in {r.answer, a}
<1>1. r.st = "live" /\ r.kind \in {"sync", "callback"}
  BY DEF RecOK
<1>2. CASE r.replied
  BY <1>1, <1>2 DEF EarlyAnswered, Goes, SenderAfter, Calls
<1>3. CASE ~r.replied
  <2>1. /\ Store(r, a) \in Rec /\ RecOK(m, Store(r, a)) /\ Goes(r, Store(r, a))
        /\ Store(r, a).sender = (IF r.kind = "callback" THEN None ELSE r.sender)
        /\ Store(r, a).receiver = r.receiver /\ Store(r, a).replied /\ Store(r, a).answer = a
    BY <1>1, <1>3, StoreFacts DEF RecOK
  <2>2. SenderAfter(r) = IF r.kind = "callback" THEN None ELSE r.sender
    BY <1>3 DEF SenderAfter, Calls
  <2> QED BY <1>3, <2>1, <2>2 DEF EarlyAnswered
<1> QED BY <1>2, <1>3

\* The deadline passes.
LEMMA ExpireFacts ==
    ASSUME NEW m \in Msgs, NEW r \in Rec, RecOK(m, r), r.sender # None, r.deadline, ~r.replied,
           NEW b \in BOOLEAN
    PROVE  LET q == Store(IF b THEN [r EXCEPT !.receiver = None] ELSE r, "timeout")
           IN  /\ q \in Rec /\ RecOK(m, q) /\ Goes(r, q)
               /\ q.sender = r.sender /\ q.receiver = (IF b THEN None ELSE r.receiver)
               /\ q.replied /\ q.answer = "timeout"
<1> DEFINE p == [r EXCEPT !.receiver = None]
<1>1. /\ p \in Rec /\ p.st = r.st /\ p.sender = r.sender /\ p.receiver = None
      /\ p.kind = r.kind /\ p.to = r.to /\ p.replied = r.replied /\ p.answer = r.answer
      /\ p.deadline = r.deadline
  BY DEF Rec
<1> HIDE DEF p
<1>2. r.st = "live" /\ r.kind = "sync"
  BY DEF RecOK
<1>3. CASE b
  <2> DEFINE q == Store(p, "timeout")
  <2>1. /\ q \in Rec /\ RecOK(m, q) /\ Goes(p, q)
        /\ q.sender = (IF p.kind = "callback" THEN None ELSE p.sender)
        /\ q.receiver = p.receiver /\ q.replied /\ q.answer = "timeout"
    BY <1>1, <1>2, StoreFacts DEF RecOK
  <2> HIDE DEF q
  <2>2. Store(IF b THEN [r EXCEPT !.receiver = None] ELSE r, "timeout") = q
    BY <1>3 DEF p, q
  <2> QED BY <1>1, <1>2, <1>3, <2>1, <2>2 DEF Goes
<1>4. CASE ~b
  <2> DEFINE q == Store(r, "timeout")
  <2>1. /\ q \in Rec /\ RecOK(m, q) /\ Goes(r, q)
        /\ q.sender = (IF r.kind = "callback" THEN None ELSE r.sender)
        /\ q.receiver = r.receiver /\ q.replied /\ q.answer = "timeout"
    BY <1>2, StoreFacts DEF RecOK
  <2> HIDE DEF q
  <2>2. Store(IF b THEN [r EXCEPT !.receiver = None] ELSE r, "timeout") = q
    BY <1>4 DEF q
  <2> QED BY <1>2, <1>4, <2>1, <2>2
<1> QED BY <1>3, <1>4

-----------------------------------------------------------------------------
(* What the steps do to the lists.                                          *)

LEMMA TypeFacts ==
    TypeOK <=> /\ alive \subseteq Threads /\ sent \in [Threads -> Seq(Entry)] /\ res \in [Msgs -> Rec]
               /\ sends \in [Threads -> Seq(Msgs)] /\ calls \in [Threads -> Seq(Msgs)]
               /\ recv \in [Threads -> Seq(Msgs)] /\ frames \in [Threads -> Seq(Frame)]
               /\ told \in [Msgs -> Seq(Answers)] /\ pumping \subseteq Msgs
BY DEF TypeOK, Entry, Rec, Frame

LEMMA EntryFacts ==
    /\ \A m \in Msgs : Message(m) \in Entry /\ Answer(m) \in Entry
    /\ \A m, x : Message(m) # Answer(x)
    /\ \A m, x : Message(m) = Message(x) => m = x
    /\ \A m, x : Answer(m) = Answer(x) => m = x
    /\ \A e \in Entry : e.m \in Msgs /\ (e = Message(e.m) \/ e = Answer(e.m))
    /\ \A e \in Entry : e.k = "message" <=> e = Message(e.m)
    /\ \A m : Message(m).m = m /\ Answer(m).m = m /\ Message(m).k = "message" /\ Answer(m).k = "answer"
<1>1. \A m \in Msgs : Message(m) \in Entry /\ Answer(m) \in Entry
  BY DEF Message, Answer, Entry
<1>2. \A m : Message(m).m = m /\ Answer(m).m = m /\ Message(m).k = "message" /\ Answer(m).k = "answer"
  BY DEF Message, Answer
<1>3. /\ \A m, x : Message(m) # Answer(x)
      /\ \A m, x : Message(m) = Message(x) => m = x
      /\ \A m, x : Answer(m) = Answer(x) => m = x
  BY <1>2
<1>4. \A e \in Entry : e.m \in Msgs /\ (e = Message(e.m) \/ e = Answer(e.m))
  BY DEF Message, Answer, Entry
<1>5. \A e \in Entry : e.k = "message" <=> e = Message(e.m)
  BY <1>2, <1>4
<1> QED BY <1>1, <1>2, <1>3, <1>4, <1>5

\* The callbacks that go out to one thread.
LEMMA DeliverFacts ==
    ASSUME NEW u, NEW ms \in Seq(Msgs)
    PROVE  /\ Deliver(u, ms) \in Seq(Entry)
           /\ ToSet(Deliver(u, ms)) = {Answer(m) : m \in {x \in ToSet(ms) : Calls(res[x]) /\ res[x].sender = u}}
           /\ IsInjective(ms) => IsInjective(Deliver(u, ms))
<1> DEFINE R == {m \in Msgs : Calls(res[m]) /\ res[m].sender = u}
           k == Keep(ms, R)
           d == [i \in DOMAIN k |-> Answer(k[i])]
<1>1. Deliver(u, ms) = d
  BY DEF Deliver
<1>2. \A x \in Msgs : x \in R <=> Calls(res[x]) /\ res[x].sender = u
  OBVIOUS
<1>3. ToSet(ms) \subseteq Msgs
  BY DEF ToSet
<1> HIDE DEF R
<1>4. k \in Seq(Msgs) /\ ToSet(k) = ToSet(ms) \cap R
  BY KeepFacts
<1>5. IsInjective(ms) => IsInjective(k)
  BY KeepInjective
<1> HIDE DEF k
<1>6. Len(k) \in Nat /\ DOMAIN k = 1..Len(k) /\ \A i \in 1..Len(k) : k[i] \in Msgs
  BY <1>4
<1>7. d \in Seq(Entry) /\ DOMAIN d = 1..Len(k) /\ \A i \in 1..Len(k) : d[i] = Answer(k[i])
  BY <1>6, EntryFacts
<1> HIDE DEF d
<1>8. ToSet(d) = {Answer(m) : m \in ToSet(k)}
  BY <1>6, <1>7 DEF ToSet
<1>9. IsInjective(ms) => IsInjective(d)
  BY <1>5, <1>6, <1>7, EntryFacts DEF IsInjective
<1>10. ToSet(k) = {x \in ToSet(ms) : Calls(res[x]) /\ res[x].sender = u}
  BY <1>2, <1>3, <1>4
<1> QED BY <1>1, <1>7, <1>8, <1>9, <1>10

\* The records the receiver t is to answer.
LEMMA OwedFacts ==
    ASSUME TypeOK, RecvInv, RecInv, NEW t \in Threads
    PROVE  /\ Owed(t) \in Seq(Msgs) /\ IsInjective(Owed(t))
           /\ ToSet(Owed(t)) = {m \in Msgs : res[m].receiver = t}
<1> DEFINE R == {e \in ToSet(sent[t]) : e.k = "message" /\ res[e.m].st # "notify"}
           q == Keep(sent[t], R)
           v == Ids(q)
<1>1. /\ sent[t] \in Seq(Entry) /\ recv[t] \in Seq(Msgs) /\ IsInjective(sent[t]) /\ IsInjective(recv[t])
  BY TypeFacts DEF RecvInv
<1>2. Owed(t) = recv[t] \o v
  BY DEF Owed
<1>3. R \subseteq ToSet(sent[t]) /\ ToSet(sent[t]) \subseteq Entry
  BY <1>1 DEF ToSet
<1>4. \A m \in Msgs : Message(m) \in R <=> Message(m) \in ToSet(sent[t]) /\ res[m].st # "notify"
  BY EntryFacts
<1>5. \A e \in R : e = Message(e.m) /\ e.m \in Msgs
  BY <1>3, EntryFacts
<1> HIDE DEF R
<1>6. q \in Seq(Entry) /\ ToSet(q) = ToSet(sent[t]) \cap R
  BY <1>1, KeepFacts
<1>7. IsInjective(q)
  BY <1>1, KeepInjective
<1>8. ToSet(q) = R
  BY <1>3, <1>6
<1> HIDE DEF q
<1>9. \A e \in Entry : e.m \in Msgs
  BY EntryFacts
<1>10. v \in Seq(Msgs) /\ ToSet(v) = {e.m : e \in ToSet(q)}
  BY <1>6, <1>9, IdsFacts
<1>11. IsInjective(v)
  <2>1. \A x, y \in ToSet(q) : x.m = y.m => x = y
    BY <1>5, <1>8
  <2> QED BY <1>6, <1>7, <1>9, <2>1, IdsFacts
<1> HIDE DEF v
<1>12. ToSet(v) = {m \in Msgs : Message(m) \in ToSet(sent[t]) /\ res[m].st # "notify"}
  <2>1. ASSUME NEW x \in ToSet(v) PROVE x \in Msgs /\ Message(x) \in ToSet(sent[t]) /\ res[x].st # "notify"
    <3>1. PICK e \in R : x = e.m
      BY <1>8, <1>10
    <3>2. e = Message(x) /\ x \in Msgs
      BY <1>5, <3>1
    <3> QED BY <1>4, <3>1, <3>2
  <2>2. ASSUME NEW m \in Msgs, Message(m) \in ToSet(sent[t]), res[m].st # "notify" PROVE m \in ToSet(v)
    <3>1. Message(m) \in R /\ Message(m).m = m
      BY <1>4, <2>2, EntryFacts
    <3> QED BY <1>8, <1>10, <3>1
  <2> QED BY <2>1, <2>2
<1>13. ToSet(recv[t]) \subseteq Msgs
  BY <1>1 DEF ToSet
<1>14. ToSet(recv[t]) \cap ToSet(v) = {}
  BY <1>12, <1>13 DEF RecvInv
<1>15. ASSUME NEW m \in Msgs PROVE m \in ToSet(recv[t]) \cup ToSet(v) <=> res[m].receiver = t
  <2>1. CASE res[m].st = "notify"
    <3>1. res[m].receiver = None
      BY <2>1 DEF RecInv, RecOK
    <3> QED BY <1>12, <2>1, <3>1, EndAssumption DEF RecvInv
  <2>2. CASE res[m].st # "notify"
    BY <1>12, <2>2 DEF RecvInv
  <2> QED BY <2>1, <2>2
<1>16. ToSet(v) \subseteq Msgs
  BY <1>12
<1>17. ToSet(recv[t] \o v) = ToSet(recv[t]) \cup ToSet(v)
  BY <1>1, <1>10, ConcatFacts
<1>18. IsInjective(recv[t] \o v) /\ recv[t] \o v \in Seq(Msgs)
  BY <1>1, <1>10, <1>11, <1>14, ConcatFacts
<1> QED BY <1>2, <1>13, <1>15, <1>16, <1>17, <1>18

-----------------------------------------------------------------------------
(* The stacks.                                                              *)

\* The messages of the frames of kind k in fs, less notifications.
Named(fs, k, rs) == Ids(Keep(fs, {f \in ToSet(fs) : f.k = k /\ rs[f.m].st # "notify"}))

LEMMA StackFacts ==
    StackMatches <=> \A t \in alive : recv[t] = Named(frames[t], "proc", res) /\ sends[t] = Named(frames[t], "wait", res)
BY DEF StackMatches, Part, Named

LEMMA FrameFacts ==
    /\ \A f \in Frame : f.m \in Msgs /\ f.k \in {"proc", "wait"}
    /\ \A m \in Msgs, b \in BOOLEAN : Proc(m) \in Frame /\ Wait(m, b) \in Frame
    /\ \A m, b : Proc(m).m = m /\ Proc(m).k = "proc" /\ Wait(m, b).m = m /\ Wait(m, b).k = "wait"
BY DEF Frame, Proc, Wait

LEMMA NamedSame ==
    ASSUME NEW fs \in Seq(Frame), NEW k, NEW rs, NEW qs,
           \A f \in ToSet(fs) : rs[f.m].st = "notify" <=> qs[f.m].st = "notify"
    PROVE  Named(fs, k, rs) = Named(fs, k, qs)
<1> DEFINE A == {f \in ToSet(fs) : f.k = k /\ rs[f.m].st # "notify"}
           B == {f \in ToSet(fs) : f.k = k /\ qs[f.m].st # "notify"}
<1>1. A = B
  OBVIOUS
<1> QED BY <1>1 DEF Named

LEMMA NamedCons ==
    ASSUME NEW fs \in Seq(Frame), NEW f \in Frame, NEW k, NEW rs
    PROVE  /\ Named(fs, k, rs) \in Seq(Msgs)
           /\ Named(<<f>> \o fs, k, rs) =
                 IF f.k = k /\ rs[f.m].st # "notify" THEN <<f.m>> \o Named(fs, k, rs) ELSE Named(fs, k, rs)
<1> DEFINE c == <<f>> \o fs
           A == {x \in ToSet(c) : x.k = k /\ rs[x.m].st # "notify"}
           B == {x \in ToSet(fs) : x.k = k /\ rs[x.m].st # "notify"}
           a == Keep(fs, A)
           b == Keep(fs, B)
<1>1. ToSet(c) = {f} \cup ToSet(fs)
  BY ConsFacts
<1>2. f \in A <=> f.k = k /\ rs[f.m].st # "notify"
  BY <1>1
<1>3. \A x \in ToSet(fs) : x \in A <=> x \in B
  BY <1>1
<1>4. Named(fs, k, rs) = Ids(b) /\ Named(c, k, rs) = Ids(Keep(c, A))
  BY DEF Named
<1> HIDE DEF A, B
<1>5. a = b
  BY <1>3, KeepSame
<1>6. Keep(c, A) = (IF f \in A THEN <<f>> ELSE <<>>) \o a
  BY KeepCons
<1>7. b \in Seq(Frame)
  BY KeepFacts
<1> HIDE DEF a, b, c
<1>8. Ids(b) \in Seq(Msgs) /\ Ids(<<f>> \o b) = <<f.m>> \o Ids(b)
  BY <1>7, FrameFacts, IdsFacts
<1>9. CASE f \in A
  BY <1>2, <1>4, <1>5, <1>6, <1>8, <1>9 DEF c
<1>10. CASE f \notin A
  <2>1. Keep(c, A) = b
    BY <1>5, <1>6, <1>7, <1>10, ConcatEmptySeq
  <2> QED BY <1>2, <1>4, <1>8, <1>10, <2>1 DEF c
<1> QED BY <1>9, <1>10

\* The server's stacks below the innermost frame.
LEMMA TopFacts ==
    ASSUME TypeOK, FrameInv, StackMatches, NEW t \in alive, frames[t] # <<>>
    PROVE  LET f == frames[t][1]
               fs == Tail(frames[t])
           IN  /\ f \in Frame /\ f \in ToSet(frames[t]) /\ fs \in Seq(Frame) /\ frames[t] = <<f>> \o fs
               /\ ToSet(frames[t]) = {f} \cup ToSet(fs)
               /\ f.k = "proc" => sends[t] = Named(fs, "wait", res)
               /\ f.k = "proc" /\ res[f.m].st = "notify" => recv[t] = Named(fs, "proc", res)
               /\ f.k = "proc" /\ res[f.m].st # "notify" =>
                     recv[t] # <<>> /\ Head(recv[t]) = f.m /\ Tail(recv[t]) = Named(fs, "proc", res)
               /\ f.k = "wait" =>
                     /\ sends[t] # <<>> /\ Head(sends[t]) = f.m /\ Tail(sends[t]) = Named(fs, "wait", res)
                     /\ recv[t] = Named(fs, "proc", res)
<1> DEFINE f == frames[t][1]
           fs == Tail(frames[t])
<1>0. t \in Threads /\ frames[t] \in Seq(Frame)
  BY TypeFacts
<1>1. f \in Frame /\ fs \in Seq(Frame) /\ frames[t] = <<f>> \o fs /\ ToSet(frames[t]) = {f} \cup ToSet(fs)
  BY <1>0, TailFacts
<1>2. recv[t] = Named(frames[t], "proc", res) /\ sends[t] = Named(frames[t], "wait", res)
  BY StackFacts
<1>3. f.m \in Msgs /\ f.k \in {"proc", "wait"} /\ (f.k = "wait" => res[f.m].st # "notify")
  BY <1>0, <1>1, FrameFacts DEF FrameInv
<1> DEFINE p == Named(fs, "proc", res)
           w == Named(fs, "wait", res)
           e == f.m
<1> HIDE DEF f, fs
<1>4. /\ p \in Seq(Msgs) /\ w \in Seq(Msgs)
      /\ recv[t] = IF f.k = "proc" /\ res[f.m].st # "notify" THEN <<f.m>> \o p ELSE p
      /\ sends[t] = IF f.k = "wait" /\ res[f.m].st # "notify" THEN <<f.m>> \o w ELSE w
  BY <1>1, <1>2, NamedCons
<1>5. e \in Msgs
  BY <1>3
<1> HIDE DEF p, w, e
<1>6. /\ <<e>> \o p # <<>> /\ Head(<<e>> \o p) = e /\ Tail(<<e>> \o p) = p
      /\ <<e>> \o w # <<>> /\ Head(<<e>> \o w) = e /\ Tail(<<e>> \o w) = w
  BY <1>4, <1>5, ConsFacts
<1>7. /\ f.k = "proc" => sends[t] = w
      /\ f.k = "proc" /\ res[f.m].st = "notify" => recv[t] = p
      /\ f.k = "proc" /\ res[f.m].st # "notify" =>
            recv[t] # <<>> /\ Head(recv[t]) = f.m /\ Tail(recv[t]) = p
      /\ f.k = "wait" =>
            /\ sends[t] # <<>> /\ Head(sends[t]) = f.m /\ Tail(sends[t]) = w
            /\ recv[t] = p
  BY <1>3, <1>4, <1>6 DEF e
<1> QED BY <1>1, <1>7 DEF f, fs, p, w

-----------------------------------------------------------------------------
(* Steps that send nothing: every record stays or goes its way.             *)

Inv == TypeOK /\ RecInv /\ SendInv /\ RecvInv /\ AnswerInv /\ FrameInv /\ StackMatches

ResStep ==
    /\ res' \in [Msgs -> Rec]
    /\ \A x \in Msgs : RecOK(x, res'[x]) /\ (res'[x] = res[x] \/ Goes(res[x], res'[x]))

LEMMA ResFacts ==
    ASSUME ResStep, NEW x \in Msgs
    PROVE  /\ res'[x].st = "notify" <=> res[x].st = "notify"
           /\ res'[x].st = "none" <=> res[x].st = "none"
           /\ res'[x].kind = res[x].kind /\ res'[x].to = res[x].to
           /\ res'[x].sender \in {None, res[x].sender} /\ res'[x].receiver \in {None, res[x].receiver}
           /\ res[x].replied => res'[x].replied /\ res'[x].answer = res[x].answer
BY DEF ResStep, Goes

\* One record changes.
LEMMA OneRes ==
    ASSUME TypeOK, RecInv, NEW m \in Msgs, NEW q \in Rec, RecOK(m, q), Goes(res[m], q),
           res' = [res EXCEPT ![m] = q]
    PROVE  ResStep /\ res'[m] = q /\ \A x \in Msgs : x # m => res'[x] = res[x]
<1>1. res \in [Msgs -> Rec]
  BY TypeFacts
<1>2. res'[m] = q /\ \A x \in Msgs : x # m => res'[x] = res[x]
  BY <1>1
<1>3. res' \in [Msgs -> Rec]
  BY <1>1
<1> QED BY <1>2, <1>3 DEF ResStep, RecInv

LEMMA SameRes == ASSUME TypeOK, RecInv, res' = res PROVE ResStep
BY TypeFacts DEF ResStep, RecInv

LEMMA RecStep ==
    ASSUME RecInv, ResStep, alive' \subseteq alive,
           \A x \in Msgs : /\ res'[x].sender # None => res'[x].sender \in alive'
                           /\ res'[x].receiver # None => res'[x].receiver \in alive'
                           /\ res'[x].answer = "denied" => res[x].answer = "denied" \/ res[x].to \notin alive'
    PROVE  RecInv'
<1> SUFFICES ASSUME NEW x \in Msgs PROVE /\ RecOK(x, res'[x])
                                         /\ res'[x].sender # None => res'[x].sender \in alive'
                                         /\ res'[x].receiver # None => res'[x].receiver \in alive'
                                         /\ res'[x].answer = "denied" => res'[x].to \notin alive'
  BY DEF RecInv, RecOK
<1>1. RecOK(x, res'[x]) /\ res'[x].to = res[x].to
  BY ResFacts DEF ResStep
<1>2. res[x].answer = "denied" => res[x].to \notin alive
  BY DEF RecInv
<1> QED BY <1>1, <1>2

\* The same where nobody ends.
LEMMA RecStay ==
    ASSUME RecInv, ResStep, alive' = alive,
           \A x \in Msgs : res'[x].answer = "denied" => res[x].answer = "denied"
    PROVE  RecInv'
<1>1. \A x \in Msgs : /\ res'[x].sender # None => res'[x].sender \in alive'
                      /\ res'[x].receiver # None => res'[x].receiver \in alive'
  BY ResFacts DEF RecInv
<1> QED BY <1>1, RecStep

LEMMA SendStep ==
    ASSUME SendInv, ResStep,
           \A u \in Threads : /\ IsInjective(sends'[u]) /\ IsInjective(calls'[u])
                              /\ \A x \in Msgs :
                                    /\ x \in ToSet(sends'[u]) <=> x \in ToSet(sends[u]) /\ res'[x].sender = u
                                    /\ x \in ToSet(calls'[u]) <=> x \in ToSet(calls[u]) /\ res'[x].sender = u
    PROVE  SendInv'
<1> SUFFICES ASSUME NEW u \in Threads, NEW x \in Msgs
             PROVE  /\ x \in ToSet(sends'[u]) <=> res'[x].sender = u /\ res'[x].kind = "sync"
                    /\ x \in ToSet(calls'[u]) <=> res'[x].sender = u /\ res'[x].kind = "callback"
  BY DEF SendInv
<1>1. /\ x \in ToSet(sends[u]) <=> res[x].sender = u /\ res[x].kind = "sync"
      /\ x \in ToSet(calls[u]) <=> res[x].sender = u /\ res[x].kind = "callback"
  BY DEF SendInv
<1>2. res'[x].kind = res[x].kind /\ res'[x].sender \in {None, res[x].sender} /\ u # None
  BY ResFacts, EndAssumption
<1> QED BY <1>1, <1>2

LEMMA RecvStep ==
    ASSUME RecvInv, ResStep,
           \A u \in Threads :
              /\ IsInjective(recv'[u]) /\ IsInjective(sent'[u])
              /\ \A x \in Msgs :
                    /\ x \in ToSet(recv'[u]) => Message(x) \notin ToSet(sent'[u]) /\ res[x].st # "notify"
                    /\ res[x].st # "notify" =>
                          (x \in ToSet(recv'[u]) \/ Message(x) \in ToSet(sent'[u]) <=>
                             (x \in ToSet(recv[u]) \/ Message(x) \in ToSet(sent[u])) /\ res'[x].receiver = u)
    PROVE  RecvInv'
<1> SUFFICES ASSUME NEW u \in Threads, NEW x \in Msgs
             PROVE  /\ x \in ToSet(recv'[u]) => Message(x) \notin ToSet(sent'[u]) /\ res'[x].st # "notify"
                    /\ res'[x].st # "notify" =>
                          (x \in ToSet(recv'[u]) \/ Message(x) \in ToSet(sent'[u]) <=> res'[x].receiver = u)
  BY DEF RecvInv, Message
<1>1. res[x].st # "notify" =>
         (x \in ToSet(recv[u]) \/ Message(x) \in ToSet(sent[u]) <=> res[x].receiver = u)
  BY DEF RecvInv
<1>2. /\ res'[x].st = "notify" <=> res[x].st = "notify"
      /\ res'[x].receiver \in {None, res[x].receiver} /\ u # None
  BY ResFacts, EndAssumption
<1> QED BY <1>1, <1>2

LEMMA AnswerStep ==
    ASSUME AnswerInv, ResStep, told' = told,
           \A x \in Msgs, u \in Threads : Answer(x) \in ToSet(sent'[u]) =>
              \/ Answer(x) \in ToSet(sent[u])
              \/ Calls(res[x]) /\ res[x].sender = u /\ res'[x].replied
    PROVE  AnswerInv'
<1>1. ASSUME NEW x \in Msgs, NEW u \in Threads, Answer(x) \in ToSet(sent'[u])
      PROVE  /\ res'[x].kind = "callback" /\ res'[x].replied /\ told'[x] = <<>>
             /\ \A v \in Threads : Answer(x) \in ToSet(sent'[v]) => v = u
  <2>1. res'[x].kind = res[x].kind /\ (res[x].replied => res'[x].replied)
    BY ResFacts
  <2>2. Calls(res[x]) => ~res[x].replied /\ res[x].kind = "callback"
    BY DEF Calls
  <2>3. CASE Answer(x) \in ToSet(sent[u])
    BY <2>1, <2>2, <2>3 DEF AnswerInv
  <2>4. CASE Calls(res[x]) /\ res[x].sender = u /\ res'[x].replied
    BY <2>1, <2>2, <2>4 DEF AnswerInv
  <2> QED BY <1>1, <2>3, <2>4
<1>2. ASSUME NEW x \in Msgs, told'[x] # <<>>
      PROVE  told'[x] = <<res'[x].answer>> /\ res'[x].replied /\ res'[x].sender = None
  <2>1. told[x] = <<res[x].answer>> /\ res[x].replied /\ res[x].sender = None
    BY <1>2 DEF AnswerInv
  <2>2. res'[x].replied /\ res'[x].answer = res[x].answer /\ res'[x].sender \in {None, res[x].sender}
    BY <2>1, ResFacts
  <2> QED BY <2>1, <2>2
<1> QED BY <1>1, <1>2 DEF AnswerInv, Answer

LEMMA FrameStep ==
    ASSUME ResStep, frames' \in [Threads -> Seq(Frame)],
           \A u \in Threads : \A f \in ToSet(frames'[u]) :
              res[f.m].st # "none" /\ (f.k = "wait" => res[f.m].st # "notify")
    PROVE  FrameInv'
<1> SUFFICES ASSUME NEW u \in Threads, NEW f \in ToSet(frames'[u])
             PROVE  res'[f.m].st # "none" /\ (f.k = "wait" => res'[f.m].st # "notify")
  BY DEF FrameInv
<1>1. f \in Frame
  BY DEF ToSet
<1> QED BY <1>1, FrameFacts, ResFacts

LEMMA StackStep ==
    ASSUME ResStep, frames' \in [Threads -> Seq(Frame)], alive' \subseteq Threads,
           \A u \in alive' : recv'[u] = Named(frames'[u], "proc", res) /\ sends'[u] = Named(frames'[u], "wait", res)
    PROVE  StackMatches'
<1>1. ASSUME NEW u \in alive', NEW k PROVE Named(frames'[u], k, res) = Named(frames'[u], k, res')
  <2> DEFINE fs == frames'[u]
  <2>1. fs \in Seq(Frame)
    OBVIOUS
  <2>2. \A f \in ToSet(fs) : f.m \in Msgs
    BY <2>1, FrameFacts DEF ToSet
  <2>3. \A f \in ToSet(fs) : res[f.m].st = "notify" <=> res'[f.m].st = "notify"
    BY <2>2, ResFacts
  <2> HIDE DEF fs
  <2>4. Named(fs, k, res) = Named(fs, k, res')
    BY <2>1, <2>3, NamedSame
  <2> QED BY <2>4 DEF fs
<1>2. \A u \in alive' : recv'[u] = Named(frames'[u], "proc", res') /\ sends'[u] = Named(frames'[u], "wait", res')
  BY <1>1
<1>3. (\A t \in alive : recv[t] = Named(frames[t], "proc", res) /\ sends[t] = Named(frames[t], "wait", res))'
  BY <1>2 DEF Named, Ids
<1> QED BY <1>3 DEF StackMatches, Part, Named, Ids


-----------------------------------------------------------------------------
(* The operations.                                                          *)

\* Storing an answer: a callback goes out, and the record leaves its sender's list.
LEMMA Store1Facts ==
    ASSUME Inv, NEW m \in Msgs, NEW a, NEW q \in Rec, RecOK(m, q), Goes(res[m], q),
           q.sender = SenderAfter(res[m]), Calls(res[m]) => q.replied, Store1(m, a, q)
    PROVE  /\ ResStep /\ res'[m] = q /\ \A x \in Msgs : x # m => res'[x] = res[x]
           /\ sent' \in [Threads -> Seq(Entry)] /\ calls' \in [Threads -> Seq(Msgs)]
           /\ \A u \in Threads :
                 /\ IsInjective(sent'[u]) /\ IsInjective(calls'[u])
                 /\ \A x \in Msgs :
                       /\ Message(x) \in ToSet(sent'[u]) <=> Message(x) \in ToSet(sent[u])
                       /\ Answer(x) \in ToSet(sent'[u]) =>
                             \/ Answer(x) \in ToSet(sent[u])
                             \/ Calls(res[x]) /\ res[x].sender = u /\ res'[x].replied
                       /\ x \in ToSet(calls'[u]) <=> x \in ToSet(calls[u]) /\ res'[x].sender = u
                       /\ x \in ToSet(sends[u]) <=> x \in ToSet(sends[u]) /\ res'[x].sender = u
<1>1. /\ res' = [res EXCEPT ![m] = q]
      /\ sent' = [u \in Threads |-> sent[u] \o Deliver(u, <<m>>)]
      /\ calls' = [u \in Threads |-> IF Calls(res[m]) THEN Unlink(calls[u], m) ELSE calls[u]]
  BY DEF Store1
<1>2. ResStep /\ res'[m] = q /\ \A x \in Msgs : x # m => res'[x] = res[x]
  BY <1>1, OneRes DEF Inv
<1>3. ASSUME NEW u \in Threads
      PROVE  /\ sent'[u] \in Seq(Entry) /\ IsInjective(sent'[u])
             /\ \A x \in Msgs :
                   /\ Message(x) \in ToSet(sent'[u]) <=> Message(x) \in ToSet(sent[u])
                   /\ Answer(x) \in ToSet(sent'[u]) =>
                         \/ Answer(x) \in ToSet(sent[u])
                         \/ Calls(res[x]) /\ res[x].sender = u /\ res'[x].replied
  <2> DEFINE one == <<m>>
             d == Deliver(u, one)
             s == sent[u]
  <2>1. one \in Seq(Msgs) /\ ToSet(one) = {m} /\ IsInjective(one)
    BY DEF ToSet, IsInjective
  <2>2. d \in Seq(Entry) /\ IsInjective(d) /\ ToSet(d) = {Answer(x) : x \in {y \in {m} : Calls(res[y]) /\ res[y].sender = u}}
    <3> HIDE DEF one
    <3>1. QED BY <2>1, DeliverFacts
  <2>3. s \in Seq(Entry) /\ IsInjective(s)
    BY TypeFacts DEF Inv, RecvInv
  <2>4. Answer(m) \in ToSet(d) => Answer(m) \notin ToSet(s)
    BY <2>2, EntryFacts DEF Inv, AnswerInv, Calls
  <2>5. ToSet(s) \cap ToSet(d) = {}
    BY <2>2, <2>4
  <2>6. sent'[u] = s \o d
    BY <1>1
  <2>7. s \o d \in Seq(Entry) /\ ToSet(s \o d) = ToSet(s) \cup ToSet(d) /\ IsInjective(s \o d)
    <3> HIDE DEF s, d
    <3>1. QED BY <2>2, <2>3, <2>5, ConcatFacts
  <2>8. \A x \in Msgs : Message(x) \notin ToSet(d)
    BY <2>2, EntryFacts
  <2>9. \A x \in Msgs : Answer(x) \in ToSet(d) => x = m /\ Calls(res[m]) /\ res[m].sender = u
    BY <2>2, EntryFacts
  <2>10. QED
    BY <1>2, <2>6, <2>7, <2>8, <2>9
<1>4. ASSUME NEW u \in Threads
      PROVE  /\ calls'[u] \in Seq(Msgs) /\ IsInjective(calls'[u])
             /\ \A x \in Msgs : x \in ToSet(calls'[u]) <=> x \in ToSet(calls[u]) /\ res'[x].sender = u
  <2>1. calls[u] \in Seq(Msgs) /\ IsInjective(calls[u])
    BY TypeFacts DEF Inv, SendInv
  <2>2. \A x \in Msgs : x \in ToSet(calls[u]) => res[x].sender = u /\ res[x].kind = "callback"
    BY DEF Inv, SendInv
  <2>3. u # None
    BY EndAssumption
  <2>4. CASE Calls(res[m])
    <3>1. calls'[u] = Unlink(calls[u], m)
      BY <1>1, <2>4
    <3>2. Unlink(calls[u], m) \in Seq(Msgs) /\ IsInjective(Unlink(calls[u], m))
          /\ ToSet(Unlink(calls[u], m)) = ToSet(calls[u]) \ {m}
      BY <2>1, UnlinkFacts
    <3>3. res'[m].sender = None
      BY <1>2, <2>4 DEF SenderAfter
    <3>4. QED
      BY <1>2, <2>2, <2>3, <3>1, <3>2, <3>3
  <2>5. CASE ~Calls(res[m])
    <3>1. calls'[u] = calls[u]
      BY <1>1, <2>5
    <3>2. res'[m].sender = res[m].sender
      BY <1>2, <2>5 DEF SenderAfter
    <3>3. QED
      BY <1>2, <2>1, <2>2, <3>1, <3>2
  <2>6. QED
    BY <2>4, <2>5
<1>5. ASSUME NEW u \in Threads, NEW x \in Msgs, x \in ToSet(sends[u])
      PROVE  res'[x].sender = u
  <2>1. res[x].sender = u /\ res[x].kind = "sync"
    BY <1>5 DEF Inv, SendInv
  <2>2. ~Calls(res[x])
    BY <2>1 DEF Calls
  <2>3. QED
    BY <1>2, <2>1, <2>2 DEF SenderAfter
<1>6. sent' \in [Threads -> Seq(Entry)] /\ calls' \in [Threads -> Seq(Msgs)]
  BY <1>1, <1>3, <1>4
<1>7. QED
  BY <1>2, <1>3, <1>4, <1>5, <1>6


\* The callback of SendMessageCallback runs.
LEMMA PumpType == ASSUME TypeOK, NEW t \in Threads, Receive(t) PROVE pumping' \subseteq Msgs
<1>1. pumping \subseteq Msgs /\ frames[t] \in Seq(Frame)
  BY TypeFacts
<1>2. CASE Waiting(t)
  <2>1. frames[t] # <<>>
    BY <1>2 DEF Waiting
  <2>2. frames[t][1] \in Frame
    BY <1>1, <2>1
  <2>3. frames[t][1].m \in Msgs
    BY <2>2 DEF Frame
  <2>4. QED
    BY <1>1, <1>2, <2>3 DEF Receive
<1>3. CASE ~Waiting(t)
  BY <1>1, <1>3 DEF Receive
<1>4. QED
  BY <1>2, <1>3

LEMMA ReceiveAnswer ==
    ASSUME Inv, NEW t \in Threads, Receive(t), Head(sent[t]).k = "answer"
    PROVE  Inv'
<1> DEFINE e == Head(sent[t])
           x == e.m
<1>1. /\ t \in alive /\ sent[t] # <<>> /\ sent' = [sent EXCEPT ![t] = Tail(@)]
      /\ told' = [told EXCEPT ![x] = Append(@, res[x].answer)]
      /\ alive' = alive /\ res' = res /\ sends' = sends /\ calls' = calls /\ recv' = recv /\ frames' = frames
  BY DEF Receive
<1>2. /\ alive \subseteq Threads /\ sent \in [Threads -> Seq(Entry)] /\ res \in [Msgs -> Rec]
      /\ sends \in [Threads -> Seq(Msgs)] /\ calls \in [Threads -> Seq(Msgs)]
      /\ recv \in [Threads -> Seq(Msgs)] /\ frames \in [Threads -> Seq(Frame)]
      /\ told \in [Msgs -> Seq(Answers)] /\ pumping \subseteq Msgs
  BY TypeFacts DEF Inv
<1>3. /\ e \in Entry /\ Tail(sent[t]) \in Seq(Entry) /\ ToSet(sent[t]) = {e} \cup ToSet(Tail(sent[t]))
      /\ IsInjective(Tail(sent[t])) /\ e \notin ToSet(Tail(sent[t]))
  <2>1. sent[t] \in Seq(Entry) /\ IsInjective(sent[t])
    BY <1>2 DEF Inv, RecvInv
  <2>2. QED
    BY <1>1, <2>1, TailFacts
<1>4. x \in Msgs /\ e = Answer(x)
  BY <1>3, EntryFacts
<1>5. /\ res[x].kind = "callback" /\ res[x].replied /\ told[x] = <<>>
      /\ \A u \in Threads : Answer(x) \in ToSet(sent[u]) => u = t
  BY <1>3, <1>4 DEF Inv, AnswerInv
<1>6. res[x].sender = None /\ res[x].answer \in Answers
  BY <1>4, <1>5 DEF Inv, RecInv, RecOK, Answers
<1> HIDE DEF e, x
<1>7. \A u \in Threads : sent'[u] = IF u = t THEN Tail(sent[t]) ELSE sent[u]
  BY <1>1, <1>2
<1>8. /\ told'[x] = <<res[x].answer>> /\ \A y \in Msgs : y # x => told'[y] = told[y]
      /\ told' \in [Msgs -> Seq(Answers)]
  BY <1>1, <1>2, <1>4, <1>5, <1>6
<1>9. TypeOK'
  <2>1. sent' \in [Threads -> Seq(Entry)]
    BY <1>1, <1>2, <1>3
  <2>2. QED
    BY <1>1, <1>2, <1>8, <2>1, PumpType, TypeFacts DEF Inv, TypeOK, Entry, Rec, Frame
<1>10. RecInv' /\ SendInv' /\ FrameInv' /\ StackMatches'
  <2>1. RecInv' /\ SendInv' /\ FrameInv'
    BY <1>1 DEF Inv, RecInv, RecOK, SendInv, FrameInv
  <2>2. ResStep
    BY <1>1, SameRes DEF Inv
  <2>3. \A u \in alive' : recv'[u] = Named(frames'[u], "proc", res) /\ sends'[u] = Named(frames'[u], "wait", res)
    BY <1>1, StackFacts DEF Inv
  <2>4. QED
    BY <1>1, <1>2, <2>1, <2>2, <2>3, StackStep
<1>11. RecvInv'
  <2>1. ASSUME NEW u \in Threads
        PROVE  /\ IsInjective(sent'[u])
               /\ \A y \in Msgs : Message(y) \in ToSet(sent'[u]) <=> Message(y) \in ToSet(sent[u])
    BY <1>3, <1>4, <1>7, EntryFacts DEF Inv, RecvInv
  <2>2. QED
    BY <1>1, <2>1 DEF Inv, RecvInv
<1>12. AnswerInv'
  <2>1. \A y \in Msgs, u \in Threads : Answer(y) \in ToSet(sent'[u]) => Answer(y) \in ToSet(sent[u]) /\ y # x
    BY <1>3, <1>4, <1>5, <1>7
  <2>2. \A y \in Msgs, u \in Threads : Answer(y) \in ToSet(sent'[u]) =>
          /\ res'[y].kind = "callback" /\ res'[y].replied /\ told'[y] = <<>>
          /\ \A v \in Threads : Answer(y) \in ToSet(sent'[v]) => v = u
    BY <1>1, <1>8, <2>1 DEF Inv, AnswerInv
  <2>3. \A y \in Msgs : told'[y] # <<>> =>
          told'[y] = <<res'[y].answer>> /\ res'[y].replied /\ res'[y].sender = None
    BY <1>1, <1>5, <1>6, <1>8 DEF Inv, AnswerInv
  <2>4. QED
    BY <2>2, <2>3 DEF AnswerInv
<1>13. QED
  BY <1>9, <1>10, <1>11, <1>12 DEF Inv

\* A window procedure is entered.
LEMMA ReceiveMessage ==
    ASSUME Inv, NEW t \in Threads, Receive(t), Head(sent[t]).k # "answer"
    PROVE  Inv'
<1> DEFINE e == Head(sent[t])
           x == e.m
<1>1. /\ t \in alive /\ sent[t] # <<>> /\ sent' = [sent EXCEPT ![t] = Tail(@)]
      /\ recv' = IF res[x].st = "notify" THEN recv ELSE [recv EXCEPT ![t] = Push(@, x)]
      /\ frames' = [frames EXCEPT ![t] = <<Proc(x)>> \o @]
      /\ alive' = alive /\ res' = res /\ sends' = sends /\ calls' = calls /\ told' = told
  BY DEF Receive
<1>2. /\ alive \subseteq Threads /\ sent \in [Threads -> Seq(Entry)] /\ res \in [Msgs -> Rec]
      /\ sends \in [Threads -> Seq(Msgs)] /\ calls \in [Threads -> Seq(Msgs)]
      /\ recv \in [Threads -> Seq(Msgs)] /\ frames \in [Threads -> Seq(Frame)]
      /\ told \in [Msgs -> Seq(Answers)] /\ pumping \subseteq Msgs
  BY TypeFacts DEF Inv
<1>3. /\ e \in Entry /\ Tail(sent[t]) \in Seq(Entry) /\ ToSet(sent[t]) = {e} \cup ToSet(Tail(sent[t]))
      /\ IsInjective(Tail(sent[t])) /\ e \notin ToSet(Tail(sent[t]))
  <2>1. sent[t] \in Seq(Entry) /\ IsInjective(sent[t])
    BY <1>2 DEF Inv, RecvInv
  <2>2. QED
    BY <1>1, <2>1, TailFacts
<1>4. x \in Msgs /\ e = Message(x)
  BY <1>3, EntryFacts
<1>5. /\ x \notin ToSet(recv[t]) /\ (res[x].st # "notify" => res[x].receiver = t)
  BY <1>3, <1>4 DEF Inv, RecvInv
<1>6. res[x].st # "none"
  BY <1>4, <1>5, EndAssumption DEF Inv, RecInv, RecOK
<1>7. Proc(x) \in Frame /\ Proc(x).m = x /\ Proc(x).k = "proc"
  BY <1>4, FrameFacts
<1> HIDE DEF e, x
<1>8. \A u \in Threads : sent'[u] = IF u = t THEN Tail(sent[t]) ELSE sent[u]
  BY <1>1, <1>2
<1>9. ASSUME NEW u \in Threads, u # t PROVE recv'[u] = recv[u] /\ frames'[u] = frames[u]
  BY <1>1, <1>2, <1>9
<1>10. /\ recv'[t] = (IF res[x].st = "notify" THEN recv[t] ELSE <<x>> \o recv[t])
       /\ frames'[t] = <<Proc(x)>> \o frames[t]
  BY <1>1, <1>2 DEF Push
<1>11. /\ recv'[t] \in Seq(Msgs) /\ IsInjective(recv'[t])
       /\ ToSet(recv'[t]) = ToSet(recv[t]) \cup (IF res[x].st = "notify" THEN {} ELSE {x})
  <2>1. recv[t] \in Seq(Msgs) /\ IsInjective(recv[t])
    BY <1>2 DEF Inv, RecvInv
  <2>2. <<x>> \o recv[t] \in Seq(Msgs) /\ IsInjective(<<x>> \o recv[t]) /\ ToSet(<<x>> \o recv[t]) = {x} \cup ToSet(recv[t])
    BY <1>4, <1>5, <2>1, ConsFacts
  <2>3. QED
    BY <1>10, <2>1, <2>2
<1>12. /\ frames'[t] \in Seq(Frame) /\ ToSet(frames'[t]) = {Proc(x)} \cup ToSet(frames[t])
  BY <1>2, <1>7, <1>10, ConsFacts
<1>13. frames' \in [Threads -> Seq(Frame)] /\ recv' \in [Threads -> Seq(Msgs)] /\ sent' \in [Threads -> Seq(Entry)]
  <2>1. frames' = [frames EXCEPT ![t] = frames'[t]]
    BY <1>1, <1>2, <1>10
  <2>2. recv' = [recv EXCEPT ![t] = recv'[t]]
    BY <1>1, <1>2, <1>10 DEF Push
  <2>3. QED
    BY <1>1, <1>2, <1>3, <1>11, <1>12, <2>1, <2>2
<1>14. TypeOK'
  BY <1>1, <1>2, <1>13, PumpType DEF Inv, TypeOK, Entry, Rec, Frame
<1>15. ResStep
  BY <1>1, SameRes DEF Inv
<1>16. RecInv' /\ SendInv'
  BY <1>1 DEF Inv, RecInv, RecOK, SendInv
<1>17. RecvInv'
  <2>1. ASSUME NEW u \in Threads
        PROVE  /\ IsInjective(recv'[u]) /\ IsInjective(sent'[u])
               /\ \A y \in Msgs :
                     /\ y \in ToSet(recv'[u]) => Message(y) \notin ToSet(sent'[u]) /\ res[y].st # "notify"
                     /\ res[y].st # "notify" =>
                          (y \in ToSet(recv'[u]) \/ Message(y) \in ToSet(sent'[u]) <=>
                             (y \in ToSet(recv[u]) \/ Message(y) \in ToSet(sent[u])) /\ res'[y].receiver = u)
    <3>2. /\ IsInjective(recv[u]) /\ IsInjective(sent[u])
          /\ \A y \in Msgs :
                /\ y \in ToSet(recv[u]) => Message(y) \notin ToSet(sent[u]) /\ res[y].st # "notify"
                /\ res[y].st # "notify" =>
                      (y \in ToSet(recv[u]) \/ Message(y) \in ToSet(sent[u]) <=> res[y].receiver = u)
      BY DEF Inv, RecvInv
    <3>3. CASE u # t
      BY <1>1, <1>8, <1>9, <3>2, <3>3
    <3>4. CASE u = t
      BY <1>1, <1>3, <1>4, <1>8, <1>11, <3>2, <3>4, EntryFacts
    <3>5. QED
      BY <3>3, <3>4
  <2>2. QED
    BY <1>15, <2>1, RecvStep DEF Inv
<1>18. AnswerInv'
  <2>1. \A y \in Msgs, u \in Threads : Answer(y) \in ToSet(sent'[u]) => Answer(y) \in ToSet(sent[u])
    BY <1>3, <1>8
  <2>2. QED
    BY <1>1, <1>15, <2>1, AnswerStep DEF Inv
<1>19. FrameInv'
  <2>1. \A u \in Threads : \A f \in ToSet(frames'[u]) : res[f.m].st # "none" /\ (f.k = "wait" => res[f.m].st # "notify")
    BY <1>6, <1>7, <1>9, <1>12 DEF Inv, FrameInv
  <2>2. QED
    BY <1>13, <1>15, <2>1, FrameStep
<1>20. StackMatches'
  <2>1. \A u \in alive : recv[u] = Named(frames[u], "proc", res) /\ sends[u] = Named(frames[u], "wait", res)
    BY StackFacts DEF Inv
  <2>2. /\ Named(frames'[t], "proc", res) =
              IF res[x].st # "notify" THEN <<x>> \o Named(frames[t], "proc", res) ELSE Named(frames[t], "proc", res)
        /\ Named(frames'[t], "wait", res) = Named(frames[t], "wait", res)
    <3> DEFINE p == Proc(x)
               fs == frames[t]
    <3>1. fs \in Seq(Frame) /\ p \in Frame /\ p.m = x /\ p.k = "proc" /\ frames'[t] = <<p>> \o fs
      BY <1>2, <1>7, <1>10
    <3> HIDE DEF p
    <3>2. /\ Named(<<p>> \o fs, "proc", res) =
                IF p.k = "proc" /\ res[p.m].st # "notify" THEN <<p.m>> \o Named(fs, "proc", res) ELSE Named(fs, "proc", res)
          /\ Named(<<p>> \o fs, "wait", res) =
                IF p.k = "wait" /\ res[p.m].st # "notify" THEN <<p.m>> \o Named(fs, "wait", res) ELSE Named(fs, "wait", res)
      BY <3>1, NamedCons, ZenonT(40)
    <3>3. QED
      BY <3>1, <3>2
  <2>3. \A u \in alive' : recv'[u] = Named(frames'[u], "proc", res) /\ sends'[u] = Named(frames'[u], "wait", res)
    BY <1>1, <1>2, <1>9, <1>10, <2>1, <2>2
  <2>4. QED
    BY <1>1, <1>2, <1>13, <1>15, <2>3, StackStep
<1>21. QED
  BY <1>14, <1>16, <1>17, <1>18, <1>19, <1>20 DEF Inv


LEMMA ExceptFirst ==
    ASSUME NEW T, NEW s \in Seq(T), s # <<>>, NEW y \in T
    PROVE  [s EXCEPT ![1] = y] = <<y>> \o Tail(s)
<1>1. /\ Len(s) \in Nat /\ Len(s) >= 1 /\ DOMAIN s = 1..Len(s) /\ Len(Tail(s)) = Len(s) - 1 /\ Tail(s) \in Seq(T)
      /\ \A i \in 1..(Len(s) - 1) : Tail(s)[i] = s[i + 1]
  BY HeadTailProperties
<1> DEFINE a == [s EXCEPT ![1] = y]
           b == <<y>> \o Tail(s)
<1>2. a \in Seq(T) /\ Len(a) = Len(s) /\ a[1] = y /\ \A i \in 2..Len(s) : a[i] = s[i]
  BY <1>1
<1>3. b \in Seq(T) /\ Len(b) = Len(s) /\ b[1] = y /\ \A i \in 2..Len(s) : b[i] = Tail(s)[i - 1]
  <2>1. <<y>> \in Seq(T) /\ Len(<<y>>) = 1 /\ <<y>>[1] = y
    OBVIOUS
  <2>2. QED
    BY <1>1, <2>1, ConcatProperties
<1>4. \A i \in 1..Len(s) : a[i] = b[i]
  <2>1. ASSUME NEW i \in 2..Len(s) PROVE a[i] = b[i]
    <3>1. i - 1 \in 1..(Len(s) - 1) /\ i - 1 + 1 = i
      BY <1>1
    <3>2. Tail(s)[i - 1] = s[i]
      BY <1>1, <3>1
    <3>3. QED
      BY <1>2, <1>3, <3>2
  <2>2. QED
    BY <1>1, <1>2, <1>3, <2>1
<1>5. QED
  BY <1>2, <1>3, <1>4, SeqEqual

\* The record that the innermost procedure is to answer.
LEMMA OwnRecord ==
    ASSUME Inv, NEW t \in Threads, t \in alive, InProc(t), res[frames[t][1].m].st # "notify"
    PROVE  LET m == frames[t][1].m
           IN  /\ m \in Msgs /\ recv[t] # <<>> /\ Head(recv[t]) = m
               /\ res[m] \in Rec /\ RecOK(m, res[m]) /\ res[m].receiver = t /\ t # None
               /\ m \in ToSet(recv[t])
<1> DEFINE m == frames[t][1].m
<1>1. /\ frames[t][1] \in Frame /\ recv[t] # <<>> /\ Head(recv[t]) = m
  BY TopFacts DEF Inv, InProc
<1>2. m \in Msgs
  BY <1>1, FrameFacts
<1>3. recv[t] \in Seq(Msgs) /\ res[m] \in Rec
  BY <1>2, TypeFacts DEF Inv
<1>4. m \in ToSet(recv[t])
  <2>1. ToSet(recv[t]) = {Head(recv[t])} \cup ToSet(Tail(recv[t]))
    BY <1>1, <1>3, TailFacts
  <2>2. QED
    BY <1>1, <2>1
<1>5. res[m].receiver = t
  BY <1>2, <1>4 DEF Inv, RecvInv
<1>6. QED
  BY <1>1, <1>2, <1>3, <1>4, <1>5, EndAssumption DEF Inv, RecInv

LEMMA ReplyStep ==
    ASSUME Inv, NEW t \in Threads, ReplyMessage(t)
    PROVE  Inv'
<1> DEFINE f == frames[t][1]
           fs == Tail(frames[t])
           g == [f EXCEPT !.replied = TRUE]
           m == f.m
           q == EarlyAnswered(res[m], m)
<1>1. /\ t \in alive /\ InProc(t) /\ res[m].st # "notify"
      /\ frames' = [frames EXCEPT ![t][1].replied = TRUE]
      /\ alive' = alive /\ sends' = sends /\ recv' = recv /\ told' = told /\ pumping' = pumping
  BY DEF ReplyMessage
<1>2. /\ m \in Msgs /\ recv[t] # <<>> /\ Head(recv[t]) = m
      /\ res[m] \in Rec /\ RecOK(m, res[m]) /\ res[m].receiver = t /\ t # None
  BY <1>1, OwnRecord
<1>3. Store1(m, m, q)
  BY <1>2 DEF ReplyMessage
<1>4. /\ q \in Rec /\ RecOK(m, q) /\ Goes(res[m], q)
      /\ q.sender = SenderAfter(res[m]) /\ q.receiver = res[m].receiver
      /\ q.replied /\ q.answer \in {res[m].answer, m}
  BY <1>2, EarlyFacts
<1>5. /\ alive \subseteq Threads /\ sent \in [Threads -> Seq(Entry)] /\ res \in [Msgs -> Rec]
      /\ sends \in [Threads -> Seq(Msgs)] /\ calls \in [Threads -> Seq(Msgs)]
      /\ recv \in [Threads -> Seq(Msgs)] /\ frames \in [Threads -> Seq(Frame)]
      /\ told \in [Msgs -> Seq(Answers)] /\ pumping \subseteq Msgs
  BY TypeFacts DEF Inv
<1>6. /\ f \in Frame /\ fs \in Seq(Frame) /\ frames[t] # <<>> /\ ToSet(frames[t]) = {f} \cup ToSet(fs)
      /\ frames[t] = <<f>> \o fs
  BY <1>1, TopFacts DEF Inv, InProc
<1>7. g \in Frame /\ g.m = f.m /\ g.k = f.k
  BY <1>6 DEF Frame
<1>8. \A u \in Threads : frames'[u] = IF u = t THEN <<g>> \o fs ELSE frames[u]
  <2>1. frames' = [frames EXCEPT ![t] = [frames[t] EXCEPT ![1] = g]]
    BY <1>1, <1>5, <1>6
  <2>2. [frames[t] EXCEPT ![1] = g] = <<g>> \o fs
    <3> HIDE DEF g
    <3>1. QED BY <1>5, <1>6, <1>7, ExceptFirst
  <2>3. QED
    BY <1>5, <2>1, <2>2
<1>9. frames' \in [Threads -> Seq(Frame)]
  <2>1. <<g>> \o fs \in Seq(Frame)
    <3> HIDE DEF g, fs
    <3>1. QED BY <1>6, <1>7, ConsFacts
  <2>2. frames' = [u \in Threads |-> frames'[u]]
    BY <1>1, <1>5
  <2>3. QED
    BY <1>5, <1>8, <2>1, <2>2
<1> HIDE DEF g, q, f, fs
<1>10. /\ ResStep /\ res'[m] = q /\ \A x \in Msgs : x # m => res'[x] = res[x]
       /\ sent' \in [Threads -> Seq(Entry)] /\ calls' \in [Threads -> Seq(Msgs)]
       /\ \A u \in Threads :
             /\ IsInjective(sent'[u]) /\ IsInjective(calls'[u])
             /\ \A x \in Msgs :
                   /\ Message(x) \in ToSet(sent'[u]) <=> Message(x) \in ToSet(sent[u])
                   /\ Answer(x) \in ToSet(sent'[u]) =>
                         \/ Answer(x) \in ToSet(sent[u])
                         \/ Calls(res[x]) /\ res[x].sender = u /\ res'[x].replied
                   /\ x \in ToSet(calls'[u]) <=> x \in ToSet(calls[u]) /\ res'[x].sender = u
                   /\ x \in ToSet(sends[u]) <=> x \in ToSet(sends[u]) /\ res'[x].sender = u
  BY <1>2, <1>3, <1>4, Store1Facts
<1>11. TypeOK'
  BY <1>1, <1>5, <1>9, <1>10 DEF TypeOK, Entry, Rec, Frame, ResStep
<1>12. RecInv'
  <2>1. m # "denied"
    BY <1>2, AnswerAssumption
  <2>2. \A x \in Msgs : res'[x].answer = "denied" => res[x].answer = "denied"
    BY <1>4, <1>10, <2>1
  <2>3. QED
    BY <1>1, <1>10, <2>2, RecStay DEF Inv
<1>13. SendInv'
  BY <1>1, <1>10, SendStep DEF Inv, SendInv
<1>14. RecvInv'
  <2>1. \A x \in Msgs : res'[x].receiver = res[x].receiver
    BY <1>4, <1>10
  <2>2. \A u \in Threads :
           /\ IsInjective(recv'[u]) /\ IsInjective(sent'[u])
           /\ \A x \in Msgs :
                 /\ x \in ToSet(recv'[u]) => Message(x) \notin ToSet(sent'[u]) /\ res[x].st # "notify"
                 /\ res[x].st # "notify" =>
                       (x \in ToSet(recv'[u]) \/ Message(x) \in ToSet(sent'[u]) <=>
                          (x \in ToSet(recv[u]) \/ Message(x) \in ToSet(sent[u])) /\ res'[x].receiver = u)
    BY <1>1, <1>10, <2>1, SMTT(30) DEF Inv, RecvInv
  <2>3. QED
    BY <1>10, <2>2, RecvStep DEF Inv
<1>15. AnswerInv'
  BY <1>1, <1>10, AnswerStep DEF Inv
<1>16. FrameInv'
  <2>1. ToSet(<<g>> \o fs) = {g} \cup ToSet(fs)
    BY <1>6, <1>7, ConsFacts
  <2>2. ASSUME NEW u \in Threads, NEW h \in ToSet(frames'[u])
        PROVE  res[h.m].st # "none" /\ (h.k = "wait" => res[h.m].st # "notify")
    <3>1. CASE h \in ToSet(frames[u])
      BY <3>1 DEF Inv, FrameInv
    <3>2. CASE h \notin ToSet(frames[u])
      <4>1. u = t /\ h = g /\ f \in ToSet(frames[t])
        BY <1>6, <1>8, <2>1, <3>2
      <4>2. QED
        BY <1>7, <4>1 DEF Inv, FrameInv
    <3>3. QED
      BY <3>1, <3>2
  <2>3. QED
    BY <1>9, <1>10, <2>2, FrameStep
<1>17. StackMatches'
  <2>1. \A u \in alive : recv[u] = Named(frames[u], "proc", res) /\ sends[u] = Named(frames[u], "wait", res)
    BY StackFacts DEF Inv
  <2>2. Named(<<g>> \o fs, "proc", res) = Named(<<f>> \o fs, "proc", res)
        /\ Named(<<g>> \o fs, "wait", res) = Named(<<f>> \o fs, "wait", res)
    <3>1. ASSUME NEW k, NEW h \in {f, g}
          PROVE  Named(<<h>> \o fs, k, res) =
                    IF f.k = k /\ res[f.m].st # "notify" THEN <<f.m>> \o Named(fs, k, res) ELSE Named(fs, k, res)
      <4>1. h \in Frame /\ h.k = f.k /\ h.m = f.m
        BY <1>6, <1>7
      <4>2. Named(<<h>> \o fs, k, res) =
                    IF h.k = k /\ res[h.m].st # "notify" THEN <<h.m>> \o Named(fs, k, res) ELSE Named(fs, k, res)
        BY <1>6, <4>1, NamedCons
      <4>3. QED
        BY <4>1, <4>2
    <3>2. QED
      BY <3>1
  <2>3. \A u \in alive' : recv'[u] = Named(frames'[u], "proc", res) /\ sends'[u] = Named(frames'[u], "wait", res)
    BY <1>1, <1>5, <1>6, <1>8, <2>1, <2>2
  <2>4. QED
    BY <1>1, <1>5, <1>9, <1>10, <2>3, StackStep
<1>18. QED
  BY <1>11, <1>12, <1>13, <1>14, <1>15, <1>16, <1>17 DEF Inv


\* The innermost frame is left.
LEMMA PopFacts ==
    ASSUME Inv, NEW t \in Threads, t \in alive, frames[t] # <<>>, frames' = [frames EXCEPT ![t] = Tail(@)]
    PROVE  /\ frames' \in [Threads -> Seq(Frame)] /\ frames'[t] = Tail(frames[t])
           /\ \A u \in Threads : u # t => frames'[u] = frames[u]
           /\ \A u \in Threads : \A f \in ToSet(frames'[u]) :
                 res[f.m].st # "none" /\ (f.k = "wait" => res[f.m].st # "notify")
<1>1. Tail(frames[t]) \in Seq(Frame) /\ ToSet(frames[t]) = {frames[t][1]} \cup ToSet(Tail(frames[t]))
  BY TopFacts DEF Inv
<1>2. frames \in [Threads -> Seq(Frame)]
  BY TypeFacts DEF Inv
<1>3. frames'[t] = Tail(frames[t]) /\ \A u \in Threads : u # t => frames'[u] = frames[u]
  BY <1>2
<1>4. \A u \in Threads : ToSet(frames'[u]) \subseteq ToSet(frames[u])
  BY <1>1, <1>3
<1>5. QED
  BY <1>1, <1>2, <1>3, <1>4 DEF Inv, FrameInv

LEMMA ReturnNotify ==
    ASSUME Inv, NEW t \in Threads, Return(t), res[frames[t][1].m].st = "notify"
    PROVE  Inv'
<1>1. /\ t \in alive /\ InProc(t) /\ frames' = [frames EXCEPT ![t] = Tail(@)]
      /\ alive' = alive /\ sends' = sends /\ recv' = recv /\ told' = told /\ pumping' = pumping
      /\ res' = res /\ sent' = sent /\ calls' = calls
  BY DEF Return
<1>2. /\ alive \subseteq Threads /\ sent \in [Threads -> Seq(Entry)] /\ res \in [Msgs -> Rec]
      /\ sends \in [Threads -> Seq(Msgs)] /\ calls \in [Threads -> Seq(Msgs)]
      /\ recv \in [Threads -> Seq(Msgs)] /\ frames \in [Threads -> Seq(Frame)]
      /\ told \in [Msgs -> Seq(Answers)] /\ pumping \subseteq Msgs
  BY TypeFacts DEF Inv
<1>3. /\ frames' \in [Threads -> Seq(Frame)] /\ frames'[t] = Tail(frames[t])
      /\ \A u \in Threads : u # t => frames'[u] = frames[u]
      /\ \A u \in Threads : \A f \in ToSet(frames'[u]) :
            res[f.m].st # "none" /\ (f.k = "wait" => res[f.m].st # "notify")
  BY <1>1, PopFacts DEF InProc
<1>4. ResStep
  BY <1>1, SameRes DEF Inv
<1>5. TypeOK'
  BY <1>1, <1>2, <1>3 DEF TypeOK, Entry, Rec, Frame
<1>6. RecInv' /\ SendInv' /\ RecvInv' /\ AnswerInv'
  BY <1>1 DEF Inv, RecInv, RecOK, SendInv, RecvInv, AnswerInv
<1>7. FrameInv'
  BY <1>3, <1>4, FrameStep
<1>8. StackMatches'
  <2>1. recv[t] = Named(Tail(frames[t]), "proc", res) /\ sends[t] = Named(Tail(frames[t]), "wait", res)
    BY <1>1, TopFacts DEF Inv, InProc
  <2>2. \A u \in alive' : recv'[u] = Named(frames'[u], "proc", res) /\ sends'[u] = Named(frames'[u], "wait", res)
    BY <1>1, <1>2, <1>3, <2>1, StackFacts DEF Inv
  <2>3. QED
    BY <1>1, <1>2, <1>3, <1>4, <2>2, StackStep
<1>9. QED
  BY <1>5, <1>6, <1>7, <1>8 DEF Inv

LEMMA ReturnAnswer ==
    ASSUME Inv, NEW t \in Threads, Return(t), res[frames[t][1].m].st # "notify"
    PROVE  Inv'
<1> DEFINE m == frames[t][1].m
           q == Answered(res[m], m)
<1>1. /\ t \in alive /\ InProc(t) /\ frames' = [frames EXCEPT ![t] = Tail(@)]
      /\ alive' = alive /\ sends' = sends /\ told' = told /\ pumping' = pumping
  BY DEF Return
<1>2. /\ m \in Msgs /\ recv[t] # <<>> /\ Head(recv[t]) = m
      /\ res[m] \in Rec /\ RecOK(m, res[m]) /\ res[m].receiver = t /\ t # None
      /\ m \in ToSet(recv[t]) /\ res[m].st # "notify"
  BY <1>1, OwnRecord
<1>3. Store1(m, m, q) /\ recv' = [recv EXCEPT ![t] = Tail(@)]
  BY <1>2 DEF Return
<1>4. /\ q \in Rec /\ RecOK(m, q) /\ Goes(res[m], q)
      /\ q.sender = SenderAfter(res[m]) /\ q.receiver = None
      /\ (Calls(res[m]) => q.replied) /\ q.answer \in {res[m].answer, m}
  BY <1>2, AnsweredFacts
<1>5. /\ alive \subseteq Threads /\ sent \in [Threads -> Seq(Entry)] /\ res \in [Msgs -> Rec]
      /\ sends \in [Threads -> Seq(Msgs)] /\ calls \in [Threads -> Seq(Msgs)]
      /\ recv \in [Threads -> Seq(Msgs)] /\ frames \in [Threads -> Seq(Frame)]
      /\ told \in [Msgs -> Seq(Answers)] /\ pumping \subseteq Msgs
  BY TypeFacts DEF Inv
<1>6. /\ frames' \in [Threads -> Seq(Frame)] /\ frames'[t] = Tail(frames[t])
      /\ \A u \in Threads : u # t => frames'[u] = frames[u]
      /\ \A u \in Threads : \A f \in ToSet(frames'[u]) :
            res[f.m].st # "none" /\ (f.k = "wait" => res[f.m].st # "notify")
  BY <1>1, PopFacts DEF InProc
<1>7. /\ Tail(recv[t]) \in Seq(Msgs) /\ IsInjective(Tail(recv[t]))
      /\ ToSet(Tail(recv[t])) = ToSet(recv[t]) \ {m}
  <2>1. recv[t] \in Seq(Msgs) /\ IsInjective(recv[t])
    BY <1>5 DEF Inv, RecvInv
  <2>2. /\ Tail(recv[t]) \in Seq(Msgs) /\ ToSet(recv[t]) = {Head(recv[t])} \cup ToSet(Tail(recv[t]))
        /\ IsInjective(Tail(recv[t])) /\ Head(recv[t]) \notin ToSet(Tail(recv[t]))
    BY <1>2, <2>1, TailFacts
  <2>3. QED
    BY <1>2, <2>2
<1> HIDE DEF q, m
<1>8. /\ ResStep /\ res'[m] = q /\ \A x \in Msgs : x # m => res'[x] = res[x]
      /\ sent' \in [Threads -> Seq(Entry)] /\ calls' \in [Threads -> Seq(Msgs)]
      /\ \A u \in Threads :
            /\ IsInjective(sent'[u]) /\ IsInjective(calls'[u])
            /\ \A x \in Msgs :
                  /\ Message(x) \in ToSet(sent'[u]) <=> Message(x) \in ToSet(sent[u])
                  /\ Answer(x) \in ToSet(sent'[u]) =>
                        \/ Answer(x) \in ToSet(sent[u])
                        \/ Calls(res[x]) /\ res[x].sender = u /\ res'[x].replied
                  /\ x \in ToSet(calls'[u]) <=> x \in ToSet(calls[u]) /\ res'[x].sender = u
                  /\ x \in ToSet(sends[u]) <=> x \in ToSet(sends[u]) /\ res'[x].sender = u
  BY <1>2, <1>3, <1>4, Store1Facts
<1>9. \A u \in Threads : recv'[u] = IF u = t THEN Tail(recv[t]) ELSE recv[u]
  BY <1>3, <1>5
<1>10. TypeOK'
  <2>1. recv' \in [Threads -> Seq(Msgs)]
    BY <1>3, <1>5, <1>7
  <2>2. QED
    BY <1>1, <1>5, <1>6, <1>8, <2>1 DEF TypeOK, Entry, Rec, Frame, ResStep
<1>11. RecInv'
  <2>1. m # "denied"
    BY <1>2, AnswerAssumption
  <2>2. \A x \in Msgs : res'[x].answer = "denied" => res[x].answer = "denied"
    BY <1>4, <1>8, <2>1
  <2>3. QED
    BY <1>1, <1>8, <2>2, RecStay DEF Inv
<1>12. SendInv'
  BY <1>1, <1>8, SendStep DEF Inv, SendInv
<1>13. RecvInv'
  <2>1. ASSUME NEW u \in Threads
        PROVE  /\ IsInjective(recv'[u]) /\ IsInjective(sent'[u])
               /\ \A x \in Msgs :
                     /\ x \in ToSet(recv'[u]) => Message(x) \notin ToSet(sent'[u]) /\ res[x].st # "notify"
                     /\ res[x].st # "notify" =>
                           (x \in ToSet(recv'[u]) \/ Message(x) \in ToSet(sent'[u]) <=>
                              (x \in ToSet(recv[u]) \/ Message(x) \in ToSet(sent[u])) /\ res'[x].receiver = u)
    <3>1. /\ IsInjective(recv[u]) /\ IsInjective(sent[u])
          /\ \A x \in Msgs :
                /\ x \in ToSet(recv[u]) => Message(x) \notin ToSet(sent[u]) /\ res[x].st # "notify"
                /\ res[x].st # "notify" =>
                      (x \in ToSet(recv[u]) \/ Message(x) \in ToSet(sent[u]) <=> res[x].receiver = u)
      BY DEF Inv, RecvInv
    <3>2. u # None
      BY EndAssumption
    <3>3. IsInjective(recv'[u]) /\ IsInjective(sent'[u]) /\ ToSet(recv'[u]) = ToSet(recv[u]) \ {m}
      <4>1. u # t => m \notin ToSet(recv[u])
        BY <1>2, <3>1
      <4>2. CASE u = t
        BY <1>7, <1>8, <1>9, <4>2
      <4>3. CASE u # t
        BY <1>8, <1>9, <3>1, <4>1, <4>3
      <4>4. QED
        BY <4>2, <4>3
    <3>4. Message(m) \notin ToSet(sent[u])
      BY <1>2, <3>1
    <3>5. QED
      BY <1>4, <1>8, <3>1, <3>2, <3>3, <3>4
  <2>2. QED
    BY <1>8, <2>1, RecvStep DEF Inv
<1>14. AnswerInv'
  BY <1>1, <1>8, AnswerStep DEF Inv
<1>15. FrameInv'
  BY <1>6, <1>8, FrameStep
<1>16. StackMatches'
  <2>1. Tail(recv[t]) = Named(Tail(frames[t]), "proc", res) /\ sends[t] = Named(Tail(frames[t]), "wait", res)
    BY <1>1, TopFacts DEF Inv, InProc
  <2>2. \A u \in alive' : recv'[u] = Named(frames'[u], "proc", res) /\ sends'[u] = Named(frames'[u], "wait", res)
    BY <1>1, <1>5, <1>6, <1>9, <2>1, StackFacts DEF Inv
  <2>3. QED
    BY <1>1, <1>5, <1>6, <1>8, <2>2, StackStep
<1>17. QED
  BY <1>10, <1>11, <1>12, <1>13, <1>14, <1>15, <1>16 DEF Inv

\* The sender takes its answer.
LEMMA CollectStep ==
    ASSUME Inv, NEW t \in Threads, Collect(t)
    PROVE  Inv'
<1> DEFINE m == frames[t][1].m
           q == Settle([res[m] EXCEPT !.sender = None])
<1>1. /\ t \in alive /\ Waiting(t) /\ HasResult(t) /\ frames' = [frames EXCEPT ![t] = Tail(@)]
      /\ told' = [told EXCEPT ![m] = Append(@, res[Head(sends[t])].answer)]
      /\ res' = [res EXCEPT ![Head(sends[t])] = Settle([@ EXCEPT !.sender = None])]
      /\ sends' = [sends EXCEPT ![t] = Tail(@)]
      /\ alive' = alive /\ sent' = sent /\ calls' = calls /\ recv' = recv /\ pumping' = pumping
  BY DEF Collect
<1>2. /\ alive \subseteq Threads /\ sent \in [Threads -> Seq(Entry)] /\ res \in [Msgs -> Rec]
      /\ sends \in [Threads -> Seq(Msgs)] /\ calls \in [Threads -> Seq(Msgs)]
      /\ recv \in [Threads -> Seq(Msgs)] /\ frames \in [Threads -> Seq(Frame)]
      /\ told \in [Msgs -> Seq(Answers)] /\ pumping \subseteq Msgs
  BY TypeFacts DEF Inv
<1>3. /\ frames[t][1] \in Frame /\ sends[t] # <<>> /\ Head(sends[t]) = m
      /\ Tail(sends[t]) = Named(Tail(frames[t]), "wait", res) /\ recv[t] = Named(Tail(frames[t]), "proc", res)
  BY <1>1, TopFacts DEF Inv, Waiting
<1>4. m \in Msgs
  BY <1>3, FrameFacts
<1>5. /\ Tail(sends[t]) \in Seq(Msgs) /\ IsInjective(Tail(sends[t]))
      /\ ToSet(sends[t]) = {m} \cup ToSet(Tail(sends[t])) /\ m \notin ToSet(Tail(sends[t]))
  <2>1. sends[t] \in Seq(Msgs) /\ IsInjective(sends[t])
    BY <1>2 DEF Inv, SendInv
  <2>2. /\ Tail(sends[t]) \in Seq(Msgs) /\ ToSet(sends[t]) = {Head(sends[t])} \cup ToSet(Tail(sends[t]))
        /\ IsInjective(Tail(sends[t])) /\ Head(sends[t]) \notin ToSet(Tail(sends[t]))
    BY <1>3, <2>1, TailFacts
  <2>3. QED
    BY <1>3, <2>2
<1>6. /\ frames' \in [Threads -> Seq(Frame)] /\ frames'[t] = Tail(frames[t])
      /\ \A u \in Threads : u # t => frames'[u] = frames[u]
      /\ \A u \in Threads : \A f \in ToSet(frames'[u]) :
            res[f.m].st # "none" /\ (f.k = "wait" => res[f.m].st # "notify")
  BY <1>1, PopFacts DEF Waiting
<1>7. res[m].sender = t /\ res[m].kind = "sync" /\ t # None
  BY <1>4, <1>5, EndAssumption DEF Inv, SendInv
<1>8. res[m] \in Rec /\ RecOK(m, res[m]) /\ res[m].replied
  BY <1>1, <1>2, <1>3, <1>4 DEF Inv, RecInv, HasResult, Awaited
<1>9. /\ q \in Rec /\ RecOK(m, q) /\ Goes(res[m], q) /\ q.sender = None /\ q.receiver = res[m].receiver
      /\ q.replied = res[m].replied /\ q.answer = res[m].answer
  BY <1>4, <1>7, <1>8, LetGoFacts, ZenonT(40)
<1>10. res' = [res EXCEPT ![m] = q]
  BY <1>1, <1>3
<1> HIDE DEF q, m
<1>11. /\ ResStep /\ res'[m] = q /\ \A x \in Msgs : x # m => res'[x] = res[x]
  BY <1>4, <1>9, <1>10, OneRes DEF Inv
<1>12. told[m] = <<>> /\ res[m].answer \in Answers
  BY <1>4, <1>7, <1>8 DEF Inv, AnswerInv, RecOK, Answers
<1>13. /\ told'[m] = <<res[m].answer>> /\ \A y \in Msgs : y # m => told'[y] = told[y]
       /\ told' \in [Msgs -> Seq(Answers)]
  BY <1>1, <1>2, <1>3, <1>4, <1>12
<1>14. \A u \in Threads : sends'[u] = IF u = t THEN Tail(sends[t]) ELSE sends[u]
  BY <1>1, <1>2
<1>15. TypeOK'
  <2>1. sends' \in [Threads -> Seq(Msgs)]
    BY <1>1, <1>2, <1>5
  <2>2. QED
    BY <1>1, <1>2, <1>6, <1>11, <1>13, <2>1 DEF TypeOK, Entry, Rec, Frame, ResStep
<1>16. RecInv'
  <2>1. \A x \in Msgs : res'[x].answer = "denied" => res[x].answer = "denied"
    BY <1>9, <1>11
  <2>2. QED
    BY <1>1, <1>11, <2>1, RecStay DEF Inv
<1>17. SendInv'
  <2>1. ASSUME NEW u \in Threads
        PROVE  /\ IsInjective(sends'[u]) /\ IsInjective(calls'[u])
               /\ \A x \in Msgs :
                     /\ x \in ToSet(sends'[u]) <=> x \in ToSet(sends[u]) /\ res'[x].sender = u
                     /\ x \in ToSet(calls'[u]) <=> x \in ToSet(calls[u]) /\ res'[x].sender = u
    <3>1. /\ IsInjective(sends[u]) /\ IsInjective(calls[u])
          /\ \A x \in Msgs :
                /\ x \in ToSet(sends[u]) <=> res[x].sender = u /\ res[x].kind = "sync"
                /\ x \in ToSet(calls[u]) <=> res[x].sender = u /\ res[x].kind = "callback"
      BY DEF Inv, SendInv
    <3>2. u # None
      BY EndAssumption
    <3>3. IsInjective(sends'[u]) /\ ToSet(sends'[u]) = ToSet(sends[u]) \ {m}
      BY <1>4, <1>5, <1>7, <1>14, <3>1
    <3>4. QED
      BY <1>1, <1>7, <1>9, <1>11, <3>1, <3>2, <3>3
  <2>2. QED
    BY <1>11, <2>1, SendStep DEF Inv
<1>18. RecvInv'
  <2>1. \A x \in Msgs : res'[x].receiver = res[x].receiver
    BY <1>9, <1>11
  <2>2. \A u \in Threads :
           /\ IsInjective(recv'[u]) /\ IsInjective(sent'[u])
           /\ \A x \in Msgs :
                 /\ x \in ToSet(recv'[u]) => Message(x) \notin ToSet(sent'[u]) /\ res[x].st # "notify"
                 /\ res[x].st # "notify" =>
                       (x \in ToSet(recv'[u]) \/ Message(x) \in ToSet(sent'[u]) <=>
                          (x \in ToSet(recv[u]) \/ Message(x) \in ToSet(sent[u])) /\ res'[x].receiver = u)
    BY <1>1, <2>1 DEF Inv, RecvInv
  <2>3. QED
    BY <1>11, <2>2, RecvStep DEF Inv
<1>19. AnswerInv'
  <2>1. ASSUME NEW y \in Msgs, NEW u \in Threads, Answer(y) \in ToSet(sent'[u])
        PROVE  /\ res'[y].kind = "callback" /\ res'[y].replied /\ told'[y] = <<>>
               /\ \A v \in Threads : Answer(y) \in ToSet(sent'[v]) => v = u
    <3>1. /\ res[y].kind = "callback" /\ res[y].replied /\ told[y] = <<>>
          /\ \A v \in Threads : Answer(y) \in ToSet(sent[v]) => v = u
      BY <1>1, <2>1 DEF Inv, AnswerInv
    <3>2. y # m
      BY <1>7, <3>1
    <3>3. QED
      BY <1>1, <1>11, <1>13, <3>1, <3>2
  <2>2. \A y \in Msgs : told'[y] # <<>> =>
          told'[y] = <<res'[y].answer>> /\ res'[y].replied /\ res'[y].sender = None
    BY <1>8, <1>9, <1>11, <1>13 DEF Inv, AnswerInv
  <2>3. QED
    BY <2>1, <2>2 DEF AnswerInv
<1>20. FrameInv'
  BY <1>6, <1>11, FrameStep
<1>21. StackMatches'
  <2>1. \A u \in alive' : recv'[u] = Named(frames'[u], "proc", res) /\ sends'[u] = Named(frames'[u], "wait", res)
    BY <1>1, <1>2, <1>3, <1>6, <1>14, StackFacts DEF Inv
  <2>2. QED
    BY <1>1, <1>2, <1>6, <1>11, <2>1, StackStep
<1>22. QED
  BY <1>15, <1>16, <1>17, <1>18, <1>19, <1>20, <1>21 DEF Inv


\* The deadline passes.
LEMMA ExpireStep ==
    ASSUME Inv, NEW m \in Msgs, Expire(m)
    PROVE  Inv'
<1> DEFINE b == Queued(m)
           q == Store(IF b THEN [res[m] EXCEPT !.receiver = None] ELSE res[m], "timeout")
<1>1. /\ res[m].st = "live" /\ res[m].sender # None /\ res[m].deadline /\ ~res[m].replied
      /\ sent' = [u \in Threads |-> IF u = res[m].receiver THEN Unlink(sent[u], Message(m)) ELSE sent[u]]
      /\ res' = [res EXCEPT ![m] = q]
      /\ alive' = alive /\ sends' = sends /\ calls' = calls /\ recv' = recv /\ frames' = frames /\ told' = told /\ pumping' = pumping
  BY DEF Expire
<1>2. /\ alive \subseteq Threads /\ sent \in [Threads -> Seq(Entry)] /\ res \in [Msgs -> Rec]
      /\ sends \in [Threads -> Seq(Msgs)] /\ calls \in [Threads -> Seq(Msgs)]
      /\ recv \in [Threads -> Seq(Msgs)] /\ frames \in [Threads -> Seq(Frame)]
      /\ told \in [Msgs -> Seq(Answers)] /\ pumping \subseteq Msgs
  BY TypeFacts DEF Inv
<1>3. res[m] \in Rec /\ RecOK(m, res[m])
  BY <1>2 DEF Inv, RecInv
<1>4. res[m].receiver \in Threads /\ res[m].st # "notify"
  BY <1>1, <1>3 DEF RecOK, Rec
<1>5. b = (Message(m) \in ToSet(sent[res[m].receiver])) /\ b \in BOOLEAN
  <2>1. sent[res[m].receiver] \in Seq(Entry) /\ res[m].receiver # None
    BY <1>2, <1>4, EndAssumption
  <2>2. QED
    BY <2>1, ContainsIsIn DEF Queued
<1>6. /\ q \in Rec /\ RecOK(m, q) /\ Goes(res[m], q) /\ q.sender = res[m].sender
      /\ q.receiver = (IF b THEN None ELSE res[m].receiver) /\ q.replied /\ q.answer = "timeout"
  <2>1. b \in BOOLEAN
    BY <1>5
  <2> DEFINE r == res[m]
  <2>2. r \in Rec /\ RecOK(m, r) /\ r.sender # None /\ r.deadline /\ ~r.replied
    BY <1>1, <1>3
  <2> HIDE DEF b, r
  <2>3. LET w == Store(IF b THEN [r EXCEPT !.receiver = None] ELSE r, "timeout")
        IN  /\ w \in Rec /\ RecOK(m, w) /\ Goes(r, w) /\ w.sender = r.sender
            /\ w.receiver = (IF b THEN None ELSE r.receiver) /\ w.replied /\ w.answer = "timeout"
    BY <2>1, <2>2, ExpireFacts
  <2>4. QED
    BY <2>3 DEF r
<1> HIDE DEF q, b
<1>7. /\ ResStep /\ res'[m] = q /\ \A x \in Msgs : x # m => res'[x] = res[x]
  BY <1>1, <1>6, OneRes DEF Inv
<1>8. ASSUME NEW u \in Threads
      PROVE  /\ sent'[u] \in Seq(Entry) /\ IsInjective(sent'[u])
             /\ ToSet(sent'[u]) = IF u = res[m].receiver THEN ToSet(sent[u]) \ {Message(m)} ELSE ToSet(sent[u])
  <2>1. sent[u] \in Seq(Entry) /\ IsInjective(sent[u])
    BY <1>2 DEF Inv, RecvInv
  <2>2. sent'[u] = IF u = res[m].receiver THEN Unlink(sent[u], Message(m)) ELSE sent[u]
    BY <1>1
  <2>3. /\ Unlink(sent[u], Message(m)) \in Seq(Entry) /\ IsInjective(Unlink(sent[u], Message(m)))
        /\ ToSet(Unlink(sent[u], Message(m))) = ToSet(sent[u]) \ {Message(m)}
    BY <2>1, UnlinkFacts
  <2>4. QED
    BY <2>1, <2>2, <2>3
<1>9. TypeOK'
  <2>1. sent' \in [Threads -> Seq(Entry)]
    <3>1. sent' = [u \in Threads |-> sent'[u]]
      BY <1>1
    <3>2. QED
      BY <1>8, <3>1
  <2>2. QED
    BY <1>1, <1>2, <1>7, <2>1 DEF TypeOK, Entry, Rec, Frame, ResStep
<1>10. RecInv'
  <2>1. \A x \in Msgs : res'[x].answer = "denied" => res[x].answer = "denied"
    BY <1>6, <1>7
  <2>2. QED
    BY <1>1, <1>7, <2>1, RecStay DEF Inv
<1>11. SendInv'
  <2>1. \A x \in Msgs : res'[x].sender = res[x].sender
    BY <1>6, <1>7
  <2>2. QED
    BY <1>1, <1>7, <2>1, SendStep DEF Inv, SendInv
<1>12. RecvInv'
  <2>1. ASSUME NEW u \in Threads
        PROVE  /\ IsInjective(recv'[u]) /\ IsInjective(sent'[u])
               /\ \A x \in Msgs :
                     /\ x \in ToSet(recv'[u]) => Message(x) \notin ToSet(sent'[u]) /\ res[x].st # "notify"
                     /\ res[x].st # "notify" =>
                           (x \in ToSet(recv'[u]) \/ Message(x) \in ToSet(sent'[u]) <=>
                              (x \in ToSet(recv[u]) \/ Message(x) \in ToSet(sent[u])) /\ res'[x].receiver = u)
    <3>1. /\ IsInjective(recv[u]) /\ IsInjective(sent[u])
          /\ \A x \in Msgs :
                /\ x \in ToSet(recv[u]) => Message(x) \notin ToSet(sent[u]) /\ res[x].st # "notify"
                /\ res[x].st # "notify" =>
                      (x \in ToSet(recv[u]) \/ Message(x) \in ToSet(sent[u]) <=> res[x].receiver = u)
      BY DEF Inv, RecvInv
    <3>2. u # None
      BY EndAssumption
    <3>3. ASSUME NEW x \in Msgs, x # m
          PROVE  /\ res'[x] = res[x] /\ (Message(x) \in ToSet(sent'[u]) <=> Message(x) \in ToSet(sent[u]))
      <4>1. Message(x) # Message(m)
        BY <3>3, EntryFacts
      <4>2. QED
        BY <1>7, <1>8, <3>3, <4>1
    <3>4. CASE u # res[m].receiver
      <4>1. m \notin ToSet(recv[u]) /\ Message(m) \notin ToSet(sent[u]) /\ Message(m) \notin ToSet(sent'[u])
        BY <1>4, <1>8, <3>1, <3>4
      <4>2. QED
        BY <1>1, <1>8, <3>1, <3>3, <4>1
    <3>5. CASE u = res[m].receiver
      <4>1. Message(m) \notin ToSet(sent'[u])
        BY <1>8, <3>5
      <4>2. (m \in ToSet(recv[u])) <=> ~b
        BY <1>4, <1>5, <3>1, <3>5
      <4>3. res'[m].receiver = u <=> ~b
        BY <1>6, <1>7, <3>2, <3>5
      <4>4. QED
        BY <1>1, <1>4, <1>8, <3>1, <3>3, <3>5, <4>1, <4>2, <4>3, ZenonT(40)
    <3>6. QED
      BY <3>4, <3>5
  <2>2. QED
    BY <1>7, <2>1, RecvStep DEF Inv
<1>13. AnswerInv'
  <2>1. \A y \in Msgs, u \in Threads : Answer(y) \in ToSet(sent'[u]) => Answer(y) \in ToSet(sent[u])
    BY <1>8
  <2>2. QED
    BY <1>1, <1>7, <2>1, AnswerStep DEF Inv
<1>14. FrameInv'
  BY <1>1, <1>2, <1>7, FrameStep DEF Inv, FrameInv
<1>15. StackMatches'
  <2>1. \A u \in alive' : recv'[u] = Named(frames'[u], "proc", res) /\ sends'[u] = Named(frames'[u], "wait", res)
    BY <1>1, StackFacts DEF Inv
  <2>2. QED
    BY <1>1, <1>2, <1>7, <2>1, StackStep
<1>16. QED
  BY <1>9, <1>10, <1>11, <1>12, <1>13, <1>14, <1>15 DEF Inv


\* Nothing refers to a message that was not sent yet.
LEMMA FreshFacts ==
    ASSUME Inv, NEW m \in Msgs, res[m] = Blank
    PROVE  /\ told[m] = <<>>
           /\ \A u \in Threads :
                 /\ m \notin ToSet(sends[u]) /\ m \notin ToSet(calls[u]) /\ m \notin ToSet(recv[u])
                 /\ Message(m) \notin ToSet(sent[u]) /\ Answer(m) \notin ToSet(sent[u])
                 /\ \A f \in ToSet(frames[u]) : f.m # m
<1>1. /\ res[m].st = "none" /\ res[m].sender = None /\ res[m].receiver = None /\ ~res[m].replied
      /\ res[m].kind = "notify"
  BY DEF Blank
<1>2. \A u \in Threads : u # None
  BY EndAssumption
<1>3. told[m] = <<>>
  BY <1>1 DEF Inv, AnswerInv
<1>4. \A u \in Threads : m \notin ToSet(sends[u]) /\ m \notin ToSet(calls[u])
  BY <1>1, <1>2 DEF Inv, SendInv
<1>5. \A u \in Threads : m \notin ToSet(recv[u]) /\ Message(m) \notin ToSet(sent[u])
  BY <1>1, <1>2 DEF Inv, RecvInv
<1>6. \A u \in Threads : Answer(m) \notin ToSet(sent[u])
  BY <1>1 DEF Inv, AnswerInv
<1>7. \A u \in Threads : \A f \in ToSet(frames[u]) : f.m # m
  BY <1>1 DEF Inv, FrameInv
<1>8. QED
  BY <1>3, <1>4, <1>5, <1>6, <1>7

\* The record of a message that is sent.
Fresh(t, u, kind, deadline) ==
    IF kind = "notify" THEN [Blank EXCEPT !.st = "notify"]
    ELSE [Blank EXCEPT !.st = "live", !.sender = t, !.receiver = u, !.deadline = deadline, !.kind = kind,
                         !.from = t, !.to = u]

LEMMA NewRecord ==
    ASSUME NEW m \in Msgs, NEW t \in Threads, NEW u \in Threads, t # u,
           NEW kind \in {"sync", "notify", "callback"}, NEW deadline \in BOOLEAN, deadline => kind = "sync"
    PROVE  LET w == Fresh(t, u, kind, deadline)
           IN  /\ w \in Rec /\ RecOK(m, w) /\ w.kind = kind /\ ~w.replied /\ w.answer = None
               /\ (w.st = "notify" <=> kind = "notify") /\ w.st # "none"
               /\ w.sender = (IF kind = "notify" THEN None ELSE t)
               /\ w.receiver = (IF kind = "notify" THEN None ELSE u)
<1>1. t # None /\ u # None
  BY EndAssumption
<1>2. CASE kind = "notify"
  <2> DEFINE w == [Blank EXCEPT !.st = "notify"]
  <2>1. /\ w.st = "notify" /\ w.sender = None /\ w.receiver = None /\ w.replied = FALSE
        /\ w.answer = None /\ w.deadline = FALSE /\ w.kind = "notify" /\ w.to = None
    BY DEF Blank
  <2>2. w \in Rec
    BY DEF Blank, Rec
  <2>3. Fresh(t, u, kind, deadline) = w
    BY <1>2 DEF Fresh
  <2> HIDE DEF w
  <2>4. RecOK(m, w)
    BY <2>1 DEF RecOK
  <2>5. QED
    BY <1>2, <2>1, <2>2, <2>3, <2>4
<1>3. CASE kind # "notify"
  <2> DEFINE w == [Blank EXCEPT !.st = "live", !.sender = t, !.receiver = u, !.deadline = deadline,
                                !.kind = kind, !.from = t, !.to = u]
  <2>1. /\ w.st = "live" /\ w.sender = t /\ w.receiver = u /\ w.replied = FALSE
        /\ w.answer = None /\ w.deadline = deadline /\ w.kind = kind /\ w.to = u
    BY DEF Blank
  <2>2. w \in Rec
    BY DEF Blank, Rec
  <2>3. Fresh(t, u, kind, deadline) = w
    BY <1>3 DEF Fresh
  <2> HIDE DEF w
  <2>4. RecOK(m, w)
    BY <1>1, <1>3, <2>1 DEF RecOK
  <2>5. QED
    BY <1>3, <2>1, <2>2, <2>3, <2>4
<1>4. QED
  BY <1>2, <1>3

LEMMA SendsStep ==
    ASSUME Inv, NEW t \in Threads, NEW u \in Threads, NEW m \in Msgs, NEW kind \in Kinds,
           NEW deadline \in Deadlines, NEW block \in BOOLEAN, Send(t, u, m, kind, deadline, block)
    PROVE  Inv'
<1> DEFINE w == Fresh(t, u, kind, deadline)
<1>1. /\ t \in alive /\ u \in alive /\ t # u /\ res[m] = Blank /\ (deadline => kind = "sync")
      /\ sent' = [sent EXCEPT ![u] = Append(@, Message(m))]
      /\ sends' = (IF kind = "sync" THEN [sends EXCEPT ![t] = <<m>> \o @] ELSE sends)
      /\ calls' = (IF kind = "callback" THEN [calls EXCEPT ![t] = <<m>> \o @] ELSE calls)
      /\ frames' = (IF kind = "sync" THEN [frames EXCEPT ![t] = <<Wait(m, block)>> \o @] ELSE frames)
      /\ alive' = alive /\ recv' = recv /\ told' = told /\ pumping' = pumping
  BY DEF Send
<1>2. res' = [res EXCEPT ![m] = w]
  BY DEF Send, Fresh
<1>3. /\ alive \subseteq Threads /\ sent \in [Threads -> Seq(Entry)] /\ res \in [Msgs -> Rec]
      /\ sends \in [Threads -> Seq(Msgs)] /\ calls \in [Threads -> Seq(Msgs)]
      /\ recv \in [Threads -> Seq(Msgs)] /\ frames \in [Threads -> Seq(Frame)]
      /\ told \in [Msgs -> Seq(Answers)] /\ pumping \subseteq Msgs
  BY TypeFacts DEF Inv
<1>4. kind \in {"sync", "notify", "callback"} /\ deadline \in BOOLEAN
  BY KindsAssumption, DeadlinesAssumption
<1>5. /\ w \in Rec /\ RecOK(m, w) /\ w.kind = kind /\ ~w.replied /\ w.answer = None
      /\ (w.st = "notify" <=> kind = "notify") /\ w.st # "none"
      /\ w.sender = (IF kind = "notify" THEN None ELSE t)
      /\ w.receiver = (IF kind = "notify" THEN None ELSE u)
  BY <1>1, <1>4, NewRecord
<1> HIDE DEF w
<1>6. /\ res' \in [Msgs -> Rec] /\ res'[m] = w /\ \A x \in Msgs : x # m => res'[x] = res[x]
  BY <1>2, <1>3, <1>5
<1>7. /\ told[m] = <<>>
      /\ \A v \in Threads :
            /\ m \notin ToSet(sends[v]) /\ m \notin ToSet(calls[v]) /\ m \notin ToSet(recv[v])
            /\ Message(m) \notin ToSet(sent[v]) /\ Answer(m) \notin ToSet(sent[v])
            /\ \A f \in ToSet(frames[v]) : f.m # m
  BY <1>1, FreshFacts
<1>8. /\ sends' \in [Threads -> Seq(Msgs)]
      /\ \A v \in Threads : /\ IsInjective(sends'[v])
                            /\ ToSet(sends'[v]) = ToSet(sends[v]) \cup (IF kind = "sync" /\ v = t THEN {m} ELSE {})
  <2>1. sends[t] \in Seq(Msgs) /\ IsInjective(sends[t]) /\ \A v \in Threads : IsInjective(sends[v])
    BY <1>3 DEF Inv, SendInv
  <2>2. <<m>> \o sends[t] \in Seq(Msgs) /\ IsInjective(<<m>> \o sends[t]) /\ ToSet(<<m>> \o sends[t]) = {m} \cup ToSet(sends[t])
    BY <1>7, <2>1, ConsFacts
  <2>3. CASE kind = "sync"
    BY <1>1, <1>3, <2>1, <2>2, <2>3
  <2>4. CASE kind # "sync"
    BY <1>1, <1>3, <2>1, <2>4
  <2>5. QED
    BY <2>3, <2>4
<1>9. /\ calls' \in [Threads -> Seq(Msgs)]
      /\ \A v \in Threads : /\ IsInjective(calls'[v])
                            /\ ToSet(calls'[v]) = ToSet(calls[v]) \cup (IF kind = "callback" /\ v = t THEN {m} ELSE {})
  <2>1. calls[t] \in Seq(Msgs) /\ IsInjective(calls[t]) /\ \A v \in Threads : IsInjective(calls[v])
    BY <1>3 DEF Inv, SendInv
  <2>2. <<m>> \o calls[t] \in Seq(Msgs) /\ IsInjective(<<m>> \o calls[t]) /\ ToSet(<<m>> \o calls[t]) = {m} \cup ToSet(calls[t])
    BY <1>7, <2>1, ConsFacts
  <2>3. CASE kind = "callback"
    BY <1>1, <1>3, <2>1, <2>2, <2>3
  <2>4. CASE kind # "callback"
    BY <1>1, <1>3, <2>1, <2>4
  <2>5. QED
    BY <2>3, <2>4
<1>10. /\ sent' \in [Threads -> Seq(Entry)]
       /\ \A v \in Threads : /\ IsInjective(sent'[v])
                             /\ ToSet(sent'[v]) = ToSet(sent[v]) \cup (IF v = u THEN {Message(m)} ELSE {})
  <2>1. sent[u] \in Seq(Entry) /\ IsInjective(sent[u]) /\ \A v \in Threads : IsInjective(sent[v])
    BY <1>3 DEF Inv, RecvInv
  <2>2. Message(m) \in Entry
    BY EntryFacts
  <2>3. /\ Append(sent[u], Message(m)) \in Seq(Entry) /\ IsInjective(Append(sent[u], Message(m)))
        /\ ToSet(Append(sent[u], Message(m))) = ToSet(sent[u]) \cup {Message(m)}
    BY <1>7, <2>1, <2>2, AppendFacts
  <2>4. QED
    BY <1>1, <1>3, <2>1, <2>3
<1>11. /\ Wait(m, block) \in Frame /\ Wait(m, block).m = m /\ Wait(m, block).k = "wait"
  BY FrameFacts
<1>12. /\ frames' \in [Threads -> Seq(Frame)] /\ \A v \in Threads : v # t => frames'[v] = frames[v]
       /\ frames'[t] = (IF kind = "sync" THEN <<Wait(m, block)>> \o frames[t] ELSE frames[t])
       /\ ToSet(frames'[t]) = ToSet(frames[t]) \cup (IF kind = "sync" THEN {Wait(m, block)} ELSE {})
  <2>1. <<Wait(m, block)>> \o frames[t] \in Seq(Frame)
        /\ ToSet(<<Wait(m, block)>> \o frames[t]) = {Wait(m, block)} \cup ToSet(frames[t])
    BY <1>3, <1>11, ConsFacts
  <2>2. CASE kind = "sync"
    BY <1>1, <1>3, <2>1, <2>2
  <2>3. CASE kind # "sync"
    BY <1>1, <1>3, <2>3
  <2>4. QED
    BY <2>2, <2>3
<1>13. TypeOK'
  BY <1>1, <1>3, <1>6, <1>8, <1>9, <1>10, <1>12 DEF TypeOK, Entry, Rec, Frame
<1>14. RecInv'
  <2>1. ASSUME NEW x \in Msgs
        PROVE  /\ RecOK(x, res'[x])
               /\ res'[x].sender # None => res'[x].sender \in alive'
               /\ res'[x].receiver # None => res'[x].receiver \in alive'
               /\ res'[x].answer = "denied" => res'[x].to \notin alive'
    <3>1. CASE x = m
      <4>1. res'[x].answer # "denied"
        BY <1>5, <1>6, <3>1, AnswerAssumption
      <4>2. QED
        BY <1>1, <1>5, <1>6, <3>1, <4>1
    <3>2. CASE x # m
      BY <1>1, <1>6, <3>2 DEF Inv, RecInv
    <3>3. QED
      BY <3>1, <3>2
  <2>2. QED
    BY <2>1 DEF RecInv, RecOK
<1>15. SendInv'
  <2>1. ASSUME NEW v \in Threads, NEW x \in Msgs
        PROVE  /\ x \in ToSet(sends'[v]) <=> res'[x].sender = v /\ res'[x].kind = "sync"
               /\ x \in ToSet(calls'[v]) <=> res'[x].sender = v /\ res'[x].kind = "callback"
    <3>1. v # None
      BY EndAssumption
    <3>2. CASE x = m
      BY <1>5, <1>6, <1>7, <1>8, <1>9, <3>1, <3>2
    <3>3. CASE x # m
      <4>1. /\ x \in ToSet(sends[v]) <=> res[x].sender = v /\ res[x].kind = "sync"
            /\ x \in ToSet(calls[v]) <=> res[x].sender = v /\ res[x].kind = "callback"
        BY DEF Inv, SendInv
      <4>2. QED
        BY <1>6, <1>8, <1>9, <3>3, <4>1
    <3>4. QED
      BY <3>2, <3>3
  <2>2. QED
    BY <1>8, <1>9, <2>1 DEF SendInv
<1>16. RecvInv'
  <2>1. ASSUME NEW v \in Threads, NEW x \in Msgs
        PROVE  /\ x \in ToSet(recv'[v]) => Message(x) \notin ToSet(sent'[v]) /\ res'[x].st # "notify"
               /\ res'[x].st # "notify" =>
                     (x \in ToSet(recv'[v]) \/ Message(x) \in ToSet(sent'[v]) <=> res'[x].receiver = v)
    <3>1. v # None
      BY EndAssumption
    <3>2. CASE x = m
      <4>1. x \notin ToSet(recv'[v]) /\ (Message(x) \in ToSet(sent'[v]) <=> v = u)
        BY <1>1, <1>7, <1>10, <3>2
      <4>2. QED
        BY <1>5, <1>6, <3>1, <3>2, <4>1
    <3>3. CASE x # m
      <4>1. /\ x \in ToSet(recv[v]) => Message(x) \notin ToSet(sent[v]) /\ res[x].st # "notify"
            /\ res[x].st # "notify" =>
                  (x \in ToSet(recv[v]) \/ Message(x) \in ToSet(sent[v]) <=> res[x].receiver = v)
        BY DEF Inv, RecvInv
      <4>2. Message(x) # Message(m)
        BY <3>3, EntryFacts
      <4>3. Message(x) \in ToSet(sent'[v]) <=> Message(x) \in ToSet(sent[v])
        BY <1>10, <4>2
      <4>4. QED
        BY <1>1, <1>6, <3>3, <4>1, <4>3
    <3>4. QED
      BY <3>2, <3>3
  <2>2. \A v \in Threads : IsInjective(recv'[v])
    BY <1>1 DEF Inv, RecvInv
  <2>3. QED
    BY <1>10, <2>1, <2>2 DEF RecvInv
<1>17. AnswerInv'
  <2>1. \A y \in Msgs, v \in Threads : Answer(y) \in ToSet(sent'[v]) => Answer(y) \in ToSet(sent[v]) /\ y # m
    <3>1. \A y : Answer(y) # Message(m)
      BY EntryFacts
    <3>2. QED
      BY <1>7, <1>10, <3>1
  <2>2. \A y \in Msgs, v \in Threads : Answer(y) \in ToSet(sent'[v]) =>
          /\ res'[y].kind = "callback" /\ res'[y].replied /\ told'[y] = <<>>
          /\ \A z \in Threads : Answer(y) \in ToSet(sent'[z]) => z = v
    BY <1>1, <1>6, <2>1 DEF Inv, AnswerInv
  <2>3. \A y \in Msgs : told'[y] # <<>> =>
          told'[y] = <<res'[y].answer>> /\ res'[y].replied /\ res'[y].sender = None
    BY <1>1, <1>6, <1>7 DEF Inv, AnswerInv
  <2>4. QED
    BY <2>2, <2>3 DEF AnswerInv
<1>18. FrameInv'
  <2>1. ASSUME NEW v \in Threads, NEW f \in ToSet(frames'[v])
        PROVE  res'[f.m].st # "none" /\ (f.k = "wait" => res'[f.m].st # "notify")
    <3>1. CASE f \in ToSet(frames[v])
      <4>1. f \in Frame
        BY <1>3, <3>1 DEF ToSet
      <4>2. f.m \in Msgs /\ f.m # m
        BY <1>7, <3>1, <4>1, FrameFacts
      <4>3. QED
        BY <1>6, <3>1, <4>2 DEF Inv, FrameInv
    <3>2. CASE f \notin ToSet(frames[v])
      <4>1. f = Wait(m, block) /\ kind = "sync"
        BY <1>12, <3>2
      <4>2. QED
        BY <1>5, <1>6, <1>11, <4>1
    <3>3. QED
      BY <3>1, <3>2
  <2>2. QED
    BY <2>1 DEF FrameInv
<1>19. StackMatches'
  <2>1. \A v \in alive : recv[v] = Named(frames[v], "proc", res) /\ sends[v] = Named(frames[v], "wait", res)
    BY StackFacts DEF Inv
  <2>2. ASSUME NEW v \in Threads, NEW k
        PROVE  Named(frames[v], k, res) = Named(frames[v], k, res')
    <3>1. \A f \in ToSet(frames[v]) : f \in Frame
      BY <1>3 DEF ToSet
    <3>2. \A f \in ToSet(frames[v]) : res[f.m].st = "notify" <=> res'[f.m].st = "notify"
      BY <1>6, <1>7, <3>1, FrameFacts
    <3>3. frames[v] \in Seq(Frame)
      BY <1>3
    <3>4. QED
      BY <3>2, <3>3, NamedSame
  <2>3. ASSUME NEW v \in alive, v # t \/ kind # "sync"
        PROVE  recv'[v] = Named(frames'[v], "proc", res') /\ sends'[v] = Named(frames'[v], "wait", res')
    <3>1. v \in Threads /\ frames'[v] = frames[v] /\ recv'[v] = recv[v] /\ sends'[v] = sends[v]
      BY <1>1, <1>3, <1>12, <2>3
    <3>2. QED
      BY <2>1, <2>2, <3>1
  <2>4. ASSUME kind = "sync"
        PROVE  recv'[t] = Named(frames'[t], "proc", res') /\ sends'[t] = Named(frames'[t], "wait", res')
    <3> DEFINE p == Wait(m, block)
               fs == frames[t]
    <3>1. fs \in Seq(Frame) /\ p \in Frame /\ p.m = m /\ p.k = "wait" /\ frames'[t] = <<p>> \o fs
      BY <1>3, <1>11, <1>12, <2>4
    <3>2. sends'[t] = <<m>> \o sends[t] /\ recv'[t] = recv[t]
      BY <1>1, <1>3, <2>4
    <3>3. res'[m].st # "notify"
      BY <1>5, <1>6, <2>4
    <3> HIDE DEF p
    <3>4. /\ Named(<<p>> \o fs, "proc", res') =
                IF p.k = "proc" /\ res'[p.m].st # "notify" THEN <<p.m>> \o Named(fs, "proc", res') ELSE Named(fs, "proc", res')
          /\ Named(<<p>> \o fs, "wait", res') =
                IF p.k = "wait" /\ res'[p.m].st # "notify" THEN <<p.m>> \o Named(fs, "wait", res') ELSE Named(fs, "wait", res')
      BY <3>1, NamedCons, ZenonT(40)
    <3>5. QED
      BY <1>1, <2>1, <2>2, <3>1, <3>2, <3>3, <3>4
  <2>5. \A v \in alive' : recv'[v] = Named(frames'[v], "proc", res') /\ sends'[v] = Named(frames'[v], "wait", res')
    BY <1>1, <2>3, <2>4
  <2>6. QED
    BY <2>5 DEF StackMatches, Named, Part
<1>20. QED
  BY <1>13, <1>14, <1>15, <1>16, <1>17, <1>18, <1>19 DEF Inv


\* A thread ends.
LEMMA EndStep ==
    ASSUME Inv, NEW t \in Threads, EndThread(t)
    PROVE  Inv'
<1> DEFINE owed == Owed(t)
           gone == {m \in Msgs : m \in ToSet(owed) /\ Calls(res[m])}
<1>1. /\ t \in alive /\ alive' = alive \ {t} /\ told' = told /\ pumping' = pumping
      /\ res' = [m \in Msgs |->
                  IF res[m].sender = t THEN Settle([res[m] EXCEPT !.sender = None])
                  ELSE IF m \in ToSet(owed) THEN Answered(res[m], "denied") ELSE res[m]]
      /\ sent' = [u \in Threads |-> IF u = t THEN <<>> ELSE sent[u] \o Deliver(u, owed)]
      /\ sends' = [sends EXCEPT ![t] = <<>>] /\ recv' = [recv EXCEPT ![t] = <<>>]
      /\ frames' = [frames EXCEPT ![t] = <<>>]
  BY DEF EndThread, Deny
<1>2. calls' = [u \in Threads |-> IF u = t THEN <<>> ELSE Keep(calls[u], {m \in Msgs : ~(m \in ToSet(owed) /\ Calls(res[m]))})]
  BY DEF EndThread
<1>3. /\ alive \subseteq Threads /\ sent \in [Threads -> Seq(Entry)] /\ res \in [Msgs -> Rec]
      /\ sends \in [Threads -> Seq(Msgs)] /\ calls \in [Threads -> Seq(Msgs)]
      /\ recv \in [Threads -> Seq(Msgs)] /\ frames \in [Threads -> Seq(Frame)]
      /\ told \in [Msgs -> Seq(Answers)] /\ pumping \subseteq Msgs
  BY TypeFacts DEF Inv
<1>4. /\ owed \in Seq(Msgs) /\ IsInjective(owed) /\ ToSet(owed) = {m \in Msgs : res[m].receiver = t}
  BY OwedFacts DEF Inv
<1>5. t # None
  BY EndAssumption
<1> HIDE DEF owed, gone
<1>6. ASSUME NEW x \in Msgs
      PROVE  /\ res'[x] \in Rec /\ RecOK(x, res'[x]) /\ (res'[x] = res[x] \/ Goes(res[x], res'[x]))
             /\ res'[x].sender = (IF res[x].sender = t \/ x \in gone THEN None ELSE res[x].sender)
             /\ res'[x].receiver = (IF res[x].receiver = t THEN None ELSE res[x].receiver)
             /\ x \in gone /\ res[x].sender # t => res'[x].replied
             /\ res'[x].answer = "denied" => res[x].answer = "denied" \/ res[x].to = t
  <2>1. res[x] \in Rec /\ RecOK(x, res[x])
    BY <1>3 DEF Inv, RecInv
  <2>2. CASE res[x].sender = t
    <3> DEFINE q == Settle([res[x] EXCEPT !.sender = None])
    <3>1. res'[x] = q
      BY <1>1, <2>2
    <3>2. /\ q \in Rec /\ RecOK(x, q) /\ Goes(res[x], q)
          /\ q.sender = None /\ q.receiver = res[x].receiver /\ q.answer = res[x].answer
      BY <1>5, <2>1, <2>2, LetGoFacts
    <3>3. res[x].receiver # t
      BY <1>5, <2>1, <2>2 DEF RecOK
    <3> HIDE DEF q
    <3>4. QED
      BY <2>2, <3>1, <3>2, <3>3
  <2>3. CASE res[x].sender # t /\ x \in ToSet(owed)
    <3> DEFINE q == Answered(res[x], "denied")
    <3>1. res'[x] = q
      BY <1>1, <2>3
    <3>2. res[x].receiver = t
      BY <1>4, <2>3
    <3>3. /\ q \in Rec /\ RecOK(x, q) /\ Goes(res[x], q) /\ q.sender = SenderAfter(res[x]) /\ q.receiver = None
          /\ (Calls(res[x]) => q.replied) /\ q.answer \in {res[x].answer, "denied"}
      BY <1>5, <2>1, <3>2, AnsweredFacts
    <3>4. res[x].to = t
      BY <1>5, <2>1, <3>2 DEF RecOK
    <3>5. x \in gone <=> Calls(res[x])
      BY <2>3 DEF gone
    <3>6. q.sender = (IF x \in gone THEN None ELSE res[x].sender)
      BY <3>3, <3>5 DEF SenderAfter
    <3> HIDE DEF q
    <3>7. QED
      BY <2>3, <3>1, <3>2, <3>3, <3>4, <3>5, <3>6
  <2>4. CASE res[x].sender # t /\ x \notin ToSet(owed)
    <3>1. res'[x] = res[x] /\ x \notin gone /\ res[x].receiver # t
      BY <1>1, <1>4, <2>4 DEF gone
    <3>2. QED
      BY <2>1, <2>4, <3>1
  <2>5. QED
    BY <2>2, <2>3, <2>4
<1>7. ResStep
  <2>1. res' = [x \in Msgs |-> res'[x]]
    BY <1>1
  <2>2. res' \in [Msgs -> Rec]
    BY <1>6, <2>1
  <2>3. QED
    BY <1>6, <2>2 DEF ResStep
<1>8. \A u \in Threads : /\ sends'[u] = (IF u = t THEN <<>> ELSE sends[u])
                         /\ recv'[u] = (IF u = t THEN <<>> ELSE recv[u])
                         /\ frames'[u] = (IF u = t THEN <<>> ELSE frames[u])
  BY <1>1, <1>3
<1>9. ToSet(<<>>) = {} /\ IsInjective(<<>>) /\ \A T : <<>> \in Seq(T)
  BY DEF ToSet, IsInjective
<1>10. /\ sends' \in [Threads -> Seq(Msgs)] /\ recv' \in [Threads -> Seq(Msgs)] /\ frames' \in [Threads -> Seq(Frame)]
  BY <1>1, <1>3, <1>9
<1>11. ASSUME NEW u \in Threads
       PROVE  /\ calls'[u] \in Seq(Msgs) /\ IsInjective(calls'[u])
              /\ \A x \in Msgs : x \in ToSet(calls'[u]) <=> u # t /\ x \in ToSet(calls[u]) /\ x \notin gone
  <2>1. CASE u = t
    BY <1>2, <1>9, <2>1
  <2>2. CASE u # t
    <3> DEFINE S == {m \in Msgs : ~(m \in ToSet(owed) /\ Calls(res[m]))}
    <3>1. calls'[u] = Keep(calls[u], S)
      BY <1>2, <2>2
    <3>2. calls[u] \in Seq(Msgs) /\ IsInjective(calls[u])
      BY <1>3 DEF Inv, SendInv
    <3>3. \A x \in Msgs : x \in S <=> x \notin gone
      BY DEF gone
    <3> HIDE DEF S
    <3>4. /\ Keep(calls[u], S) \in Seq(Msgs) /\ ToSet(Keep(calls[u], S)) = ToSet(calls[u]) \cap S
          /\ IsInjective(Keep(calls[u], S))
      BY <3>2, KeepFacts, KeepInjective
    <3>5. QED
      BY <2>2, <3>1, <3>3, <3>4
  <2>3. QED
    BY <2>1, <2>2
<1>12. ASSUME NEW u \in Threads
       PROVE  /\ sent'[u] \in Seq(Entry) /\ IsInjective(sent'[u])
              /\ u = t => ToSet(sent'[u]) = {}
              /\ u # t => \A x \in Msgs :
                    /\ Message(x) \in ToSet(sent'[u]) <=> Message(x) \in ToSet(sent[u])
                    /\ Answer(x) \in ToSet(sent'[u]) => Answer(x) \in ToSet(sent[u]) \/ (x \in gone /\ res[x].sender = u)
  <2>1. CASE u = t
    BY <1>1, <1>9, <2>1
  <2>2. CASE u # t
    <3> DEFINE d == Deliver(u, owed)
               s == sent[u]
               R == {x \in ToSet(owed) : Calls(res[x]) /\ res[x].sender = u}
    <3>1. d \in Seq(Entry) /\ IsInjective(d) /\ ToSet(d) = {Answer(m) : m \in R}
      BY <1>4, DeliverFacts
    <3>2. s \in Seq(Entry) /\ IsInjective(s)
      BY <1>3 DEF Inv, RecvInv
    <3>3. \A x \in R : x \in Msgs /\ x \in gone /\ res[x].sender = u /\ Answer(x) \notin ToSet(s)
      BY <1>4 DEF gone, Inv, AnswerInv, Calls
    <3> HIDE DEF R, d, s
    <3>4. ToSet(s) \cap ToSet(d) = {}
      BY <3>1, <3>3
    <3>5. s \o d \in Seq(Entry) /\ ToSet(s \o d) = ToSet(s) \cup ToSet(d) /\ IsInjective(s \o d)
      BY <3>1, <3>2, <3>4, ConcatFacts
    <3>6. sent'[u] = s \o d
      BY <1>1, <2>2 DEF s, d
    <3>7. \A x \in Msgs : Message(x) \notin ToSet(d) /\ (Answer(x) \in ToSet(d) => x \in R)
      BY <3>1, EntryFacts
    <3>8. QED
      BY <2>2, <3>3, <3>5, <3>6, <3>7 DEF s
  <2>3. QED
    BY <2>1, <2>2
<1>13. TypeOK'
  <2>1. calls' = [u \in Threads |-> calls'[u]] /\ sent' = [u \in Threads |-> sent'[u]]
    BY <1>1, <1>2
  <2>2. calls' \in [Threads -> Seq(Msgs)] /\ sent' \in [Threads -> Seq(Entry)]
    BY <1>11, <1>12, <2>1
  <2>3. QED
    BY <1>1, <1>3, <1>7, <1>10, <2>2 DEF TypeOK, Entry, Rec, Frame, ResStep
<1>14. RecInv'
  <2>1. ASSUME NEW x \in Msgs
        PROVE  /\ res'[x].sender # None => res'[x].sender \in alive'
               /\ res'[x].receiver # None => res'[x].receiver \in alive'
               /\ res'[x].answer = "denied" => res[x].answer = "denied" \/ res[x].to \notin alive'
    BY <1>1, <1>6 DEF Inv, RecInv
  <2>2. QED
    BY <1>1, <1>7, <2>1, RecStep DEF Inv
<1>15. SendInv'
  <2>1. ASSUME NEW u \in Threads
        PROVE  /\ IsInjective(sends'[u]) /\ IsInjective(calls'[u])
               /\ \A x \in Msgs :
                     /\ x \in ToSet(sends'[u]) <=> x \in ToSet(sends[u]) /\ res'[x].sender = u
                     /\ x \in ToSet(calls'[u]) <=> x \in ToSet(calls[u]) /\ res'[x].sender = u
    <3>1. /\ IsInjective(sends[u])
          /\ \A x \in Msgs :
                /\ x \in ToSet(sends[u]) <=> res[x].sender = u /\ res[x].kind = "sync"
                /\ x \in ToSet(calls[u]) <=> res[x].sender = u /\ res[x].kind = "callback"
      BY DEF Inv, SendInv
    <3>2. u # None
      BY EndAssumption
    <3>3. \A x \in Msgs : res[x].kind = "sync" => x \notin gone
      BY DEF gone, Calls
    <3>4. \A x \in Msgs : res'[x].sender # t
      BY <1>5, <1>6
    <3>5. CASE u = t
      BY <1>8, <1>9, <1>11, <3>4, <3>5
    <3>6. CASE u # t
      <4>1. sends'[u] = sends[u]
        BY <1>8, <3>6
      <4>2. ASSUME NEW x \in Msgs
            PROVE  /\ x \in ToSet(sends[u]) => res'[x].sender = u
                   /\ x \in ToSet(calls[u]) => (x \notin gone <=> res'[x].sender = u)
        BY <1>6, <3>1, <3>2, <3>3, <3>6
      <4>3. QED
        BY <1>11, <3>1, <3>6, <4>1, <4>2
    <3>7. QED
      BY <3>5, <3>6
  <2>2. QED
    BY <1>7, <2>1, SendStep DEF Inv
<1>16. RecvInv'
  <2>1. ASSUME NEW u \in Threads
        PROVE  /\ IsInjective(recv'[u]) /\ IsInjective(sent'[u])
               /\ \A x \in Msgs :
                     /\ x \in ToSet(recv'[u]) => Message(x) \notin ToSet(sent'[u]) /\ res[x].st # "notify"
                     /\ res[x].st # "notify" =>
                           (x \in ToSet(recv'[u]) \/ Message(x) \in ToSet(sent'[u]) <=>
                              (x \in ToSet(recv[u]) \/ Message(x) \in ToSet(sent[u])) /\ res'[x].receiver = u)
    <3>1. /\ IsInjective(recv[u])
          /\ \A x \in Msgs :
                /\ x \in ToSet(recv[u]) => Message(x) \notin ToSet(sent[u]) /\ res[x].st # "notify"
                /\ res[x].st # "notify" =>
                      (x \in ToSet(recv[u]) \/ Message(x) \in ToSet(sent[u]) <=> res[x].receiver = u)
      BY DEF Inv, RecvInv
    <3>2. \A x \in Msgs : res'[x].receiver # t
      BY <1>5, <1>6
    <3>3. CASE u = t
      BY <1>8, <1>9, <1>12, <3>2, <3>3
    <3>4. CASE u # t
      <4>1. recv'[u] = recv[u]
        BY <1>8, <3>4
      <4>2. \A x \in Msgs : res[x].receiver = u => res'[x].receiver = u
        BY <1>6, <3>4
      <4>3. QED
        BY <1>12, <3>1, <3>4, <4>1, <4>2
    <3>5. QED
      BY <3>3, <3>4
  <2>2. QED
    BY <1>7, <2>1, RecvStep DEF Inv
<1>17. AnswerInv'
  <2>1. ASSUME NEW x \in Msgs, NEW u \in Threads, Answer(x) \in ToSet(sent'[u])
        PROVE  \/ Answer(x) \in ToSet(sent[u])
               \/ Calls(res[x]) /\ res[x].sender = u /\ res'[x].replied
    <3>1. u # t
      BY <1>12, <2>1
    <3>2. Answer(x) \in ToSet(sent[u]) \/ (x \in gone /\ res[x].sender = u)
      BY <1>12, <2>1, <3>1
    <3>3. QED
      BY <1>6, <3>1, <3>2 DEF gone
  <2>2. QED
    BY <1>1, <1>7, <2>1, AnswerStep DEF Inv
<1>18. FrameInv'
  <2>1. \A u \in Threads : \A f \in ToSet(frames'[u]) :
           res[f.m].st # "none" /\ (f.k = "wait" => res[f.m].st # "notify")
    BY <1>8, <1>9 DEF Inv, FrameInv
  <2>2. QED
    BY <1>7, <1>10, <2>1, FrameStep
<1>19. StackMatches'
  <2>1. \A u \in alive' : u \in Threads /\ recv'[u] = recv[u] /\ sends'[u] = sends[u] /\ frames'[u] = frames[u]
    BY <1>1, <1>3, <1>8
  <2>2. \A u \in alive' : recv'[u] = Named(frames'[u], "proc", res) /\ sends'[u] = Named(frames'[u], "wait", res)
    BY <1>1, <2>1, StackFacts DEF Inv
  <2>3. alive' \subseteq Threads
    BY <1>1, <1>3
  <2>4. QED
    BY <1>7, <1>10, <2>2, <2>3, StackStep
<1>20. QED
  BY <1>13, <1>14, <1>15, <1>16, <1>17, <1>18, <1>19 DEF Inv


-----------------------------------------------------------------------------
(* The theorems.                                                            *)

LEMMA InitInv == Init => Inv
<1> SUFFICES ASSUME Init PROVE Inv
  OBVIOUS
<1>1. Blank \in Rec /\ Blank.st = "none" /\ Blank.sender = None /\ Blank.receiver = None /\ ~Blank.replied
      /\ Blank.answer = None /\ Blank.kind = "notify" /\ ~Blank.deadline
  BY DEF Blank, Rec
<1>2. ToSet(<<>>) = {} /\ IsInjective(<<>>) /\ \A T : <<>> \in Seq(T)
  BY DEF ToSet, IsInjective
<1>3. /\ alive = Threads /\ \A m \in Msgs : res[m] = Blank /\ told[m] = <<>>
      /\ \A t \in Threads : /\ sent[t] = <<>> /\ sends[t] = <<>> /\ calls[t] = <<>>
                            /\ recv[t] = <<>> /\ frames[t] = <<>>
  BY DEF Init
<1>4. \A t \in Threads : t # None
  BY EndAssumption
<1>5. TypeOK
  <2>1. res \in [Msgs -> Rec]
    BY <1>1 DEF Init
  <2>2. QED
    BY <2>1, <1>2, TypeFacts DEF Init
<1>6. RecInv
  BY <1>1, <1>3, AnswerAssumption DEF RecInv, RecOK
<1>7. SendInv /\ RecvInv
  BY <1>1, <1>2, <1>3, <1>4 DEF SendInv, RecvInv
<1>8. AnswerInv /\ FrameInv
  BY <1>2, <1>3 DEF AnswerInv, FrameInv
<1>9. StackMatches
  <2>1. \A k : Named(<<>>, k, res) = <<>>
    <3>1. <<>> \in Seq(Frame)
      OBVIOUS
    <3>2. ASSUME NEW S PROVE Keep(<<>>, S) = <<>>
      <4> DEFINE e == Keep(<<>>, S)
      <4>1. e \in Seq(Frame) /\ ToSet(e) = ToSet(<<>>) \cap S
        BY <3>1, KeepFacts
      <4> HIDE DEF e
      <4>2. e = <<>>
        <5>1. e # <<>> => Head(e) \in ToSet(e)
          BY <4>1, TailFacts, ZenonT(40)
        <5>2. QED
          BY <1>2, <4>1, <5>1
      <4>3. QED
        BY <4>2 DEF e
    <3>3. Ids(<<>>) = <<>>
      BY DEF Ids
    <3>4. QED
      BY <3>2, <3>3 DEF Named
  <2>2. QED
    BY <1>3, <2>1, StackFacts
<1>10. QED
  BY <1>5, <1>6, <1>7, <1>8, <1>9 DEF Inv

\* Only a wait's loop over the messages sent to its thread moves.
LEMMA SameInv ==
    ASSUME Inv, pumping' \subseteq Msgs,
           alive' = alive, sent' = sent, res' = res, sends' = sends, calls' = calls,
           recv' = recv, frames' = frames, told' = told
    PROVE  Inv'
<1>1. TypeOK'
  BY DEF Inv, TypeOK
<1>2. RecInv' /\ SendInv'
  BY DEF Inv, RecInv, RecOK, SendInv
<1>3. RecvInv' /\ AnswerInv' /\ FrameInv'
  BY DEF Inv, RecvInv, AnswerInv, FrameInv
<1>4. StackMatches'
  BY DEF Inv, StackMatches, Part
<1>5. QED
  BY <1>1, <1>2, <1>3, <1>4 DEF Inv

LEMMA NextInv == Inv /\ [Next]_vars => Inv'
<1> SUFFICES ASSUME Inv, [Next]_vars PROVE Inv'
  OBVIOUS
<1>1. ASSUME NEW t \in Threads, NEW u \in Threads, NEW m \in Msgs, NEW k \in Kinds, NEW d \in Deadlines,
             NEW b \in BOOLEAN, Send(t, u, m, k, d, b)
      PROVE  Inv'
  BY <1>1, SendsStep
<1>2. ASSUME NEW t \in Threads, Receive(t) PROVE Inv'
  BY <1>2, ReceiveAnswer, ReceiveMessage
<1>3. ASSUME NEW t \in Threads, ReplyMessage(t) PROVE Inv'
  BY <1>3, ReplyStep
<1>4. ASSUME NEW t \in Threads, Return(t) PROVE Inv'
  BY <1>4, ReturnNotify, ReturnAnswer
<1>5. ASSUME NEW t \in Threads, Collect(t) PROVE Inv'
  BY <1>5, CollectStep
<1>6. ASSUME NEW t \in Threads, EndThread(t) PROVE Inv'
  BY <1>6, EndStep
<1>7. ASSUME NEW m \in Msgs, Expire(m) PROVE Inv'
  BY <1>7, ExpireStep
<1>8. ASSUME NEW t \in Threads, PumpEnds(t) PROVE Inv'
  BY <1>8, SameInv, TypeFacts DEF Inv, PumpEnds
<1>9. ASSUME UNCHANGED vars PROVE Inv'
  BY <1>9, SameInv, TypeFacts DEF Inv, vars
<1>10. QED
  BY <1>1, <1>2, <1>3, <1>4, <1>5, <1>6, <1>7, <1>8, <1>9 DEF Next

\* The inductive invariant: in every reachable state the lists of the senders
\* and of the receivers hold what the records of horizon_msg_queue.h name, and
\* the server's stacks mirror the threads' own.
THEOREM Invariant == Spec => []Inv
  BY InitInv, NextInv, PTL DEF Spec

LEMMA NotDangling == Inv => NoDangling
<1> SUFFICES ASSUME Inv, NEW m \in Msgs, res[m].st # "notify"
             PROVE  /\ SenderRefs(m) = {res[m].sender} \ {None}
                    /\ ReceiverRefs(m) = {res[m].receiver} \ {None}
                    /\ SenderRefs(m) \cup ReceiverRefs(m) \subseteq alive
                    /\ res[m].st = "live" <=> SenderRefs(m) \cup ReceiverRefs(m) # {}
  BY DEF NoDangling
<1>1. /\ sent \in [Threads -> Seq(Entry)] /\ res \in [Msgs -> Rec] /\ sends \in [Threads -> Seq(Msgs)]
      /\ calls \in [Threads -> Seq(Msgs)] /\ recv \in [Threads -> Seq(Msgs)]
  BY TypeFacts DEF Inv
<1>2. /\ res[m] \in Rec /\ RecOK(m, res[m])
      /\ res[m].sender # None => res[m].sender \in alive
      /\ res[m].receiver # None => res[m].receiver \in alive
  BY <1>1 DEF Inv, RecInv
<1>3. res[m].sender \in Threads \cup {None} /\ res[m].receiver \in Threads \cup {None} /\ None \notin Threads
  BY <1>2, EndAssumption DEF Rec
<1>4. ASSUME NEW t \in Threads
      PROVE  /\ Contains(sends[t], m) <=> m \in ToSet(sends[t])
             /\ Contains(calls[t], m) <=> m \in ToSet(calls[t])
             /\ Contains(recv[t], m) <=> m \in ToSet(recv[t])
             /\ Contains(sent[t], Message(m)) <=> Message(m) \in ToSet(sent[t])
  <2>1. sent[t] \in Seq(Entry) /\ sends[t] \in Seq(Msgs) /\ calls[t] \in Seq(Msgs) /\ recv[t] \in Seq(Msgs)
    BY <1>1
  <2>2. QED
    BY <2>1, ContainsIsIn
<1>5. res[m].sender # None => res[m].kind \in {"sync", "callback"}
  BY <1>2, <1>3 DEF RecOK, Rec
<1>6. SenderRefs(m) = {res[m].sender} \ {None}
  <2>1. \A t \in Threads : Contains(sends[t], m) \/ Contains(calls[t], m) <=> res[m].sender = t
    BY <1>3, <1>4, <1>5 DEF Inv, SendInv
  <2>2. QED
    BY <1>3, <2>1 DEF SenderRefs
<1>7. ReceiverRefs(m) = {res[m].receiver} \ {None}
  <2>1. \A t \in Threads : Contains(recv[t], m) \/ Contains(sent[t], Message(m)) <=> res[m].receiver = t
    BY <1>4 DEF Inv, RecvInv
  <2>2. QED
    BY <1>3, <2>1 DEF ReceiverRefs
<1>8. res[m].st = "live" <=> res[m].sender # None \/ res[m].receiver # None
  BY <1>2 DEF RecOK
<1>9. QED
  BY <1>2, <1>6, <1>7, <1>8

\* RecordsKept: for every number of threads and messages no list refers to a
\* freed record, none is freed twice by store_result and the destroy of a
\* queue, and none is leaked.
THEOREM Records == Spec => []RecordsKept
<1>1. Inv => RecordsKept
  BY NotDangling DEF Inv, RecordsKept
<1>2. QED
  BY <1>1, Invariant, PTL

LEMMA Matching == Inv => AnswersMatch
<1> SUFFICES ASSUME Inv, NEW m \in Msgs
             PROVE  /\ Len(told[m]) <= 1
                    /\ told[m] # <<>> => told[m][1] = res[m].answer
                    /\ res[m].answer \in {None, m, "timeout", "denied"}
                    /\ res[m].answer = "denied" => res[m].to \notin alive
  BY DEF AnswersMatch
<1>1. told[m] # <<>> => told[m] = <<res[m].answer>>
  BY DEF Inv, AnswerInv
<1>2. Len(told[m]) <= 1 /\ (told[m] # <<>> => told[m][1] = res[m].answer)
  <2>1. CASE told[m] = <<>>
    BY <2>1
  <2>2. CASE told[m] = <<res[m].answer>>
    BY <2>2
  <2>3. QED
    BY <1>1, <2>1, <2>2
<1>3. res[m].answer \in {None, m, "timeout", "denied"} /\ (res[m].answer = "denied" => res[m].to \notin alive)
  BY DEF Inv, RecInv, RecOK
<1>4. QED
  BY <1>2, <1>3

LEMMA Answering == Inv => Answerable
<1> SUFFICES ASSUME Inv, NEW t \in alive, NEW i \in DOMAIN sends[t], ~res[sends[t][i]].replied
             PROVE  res[sends[t][i]].receiver \in alive /\ ReceiverRefs(sends[t][i]) # {}
  BY DEF Answerable
<1> DEFINE x == sends[t][i]
<1>1. t \in Threads /\ sends[t] \in Seq(Msgs) /\ t # None
  BY TypeFacts, EndAssumption DEF Inv
<1>2. x \in Msgs /\ x \in ToSet(sends[t])
  BY <1>1 DEF ToSet
<1>3. res[x].sender = t /\ res[x].kind = "sync"
  BY <1>1, <1>2 DEF Inv, SendInv
<1>4. res[x].receiver # None /\ res[x].receiver \in alive /\ res[x].st # "notify"
  BY <1>1, <1>2, <1>3 DEF Inv, RecInv, RecOK
<1>5. ReceiverRefs(x) = {res[x].receiver} \ {None}
  BY <1>2, <1>4, NotDangling DEF NoDangling
<1>6. QED
  BY <1>4, <1>5

\* AnswersReach: reply_message and get_message_reply name no message, and yet,
\* however calls nest, time out and end, each answer reaches the send it
\* belongs to, once, and a sender that waits is always owed one.
THEOREM Reaching == Spec => []AnswersReach
<1>1. Inv => AnswersReach
  BY Matching, Answering DEF Inv, AnswersReach
<1>2. QED
  BY <1>1, Invariant, PTL

=============================================================================
