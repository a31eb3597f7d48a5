------------------------ MODULE HorizonAsync_proofs ------------------------
(* Theorems about HorizonAsync, for every set of threads, sockets,          *)
(* operations and packets and for every bound.                              *)
EXTENDS HorizonAsync, FiniteSetTheorems, WellFoundedInduction, TLAPS

-----------------------------------------------------------------------------
(* Filters of sequences.                                                    *)

\* A set of naturals that is not empty has a least member.
LEMMA Least ==
    ASSUME NEW T, T \subseteq Nat, T # {}
    PROVE  \E x \in T : \A y \in T : x <= y
<1> DEFINE R == OpToRel(<, Nat)
<1>1. IsWellFoundedOn(R, Nat)
    BY NatLessThanWellFounded
<1>2. \A i, j \in Nat : i < j => <<i, j>> \in R
    BY DEF OpToRel
<1> HIDE DEF R
<1>3. PICK x \in T : \A y \in T : ~(<<y, x>> \in R)
    BY <1>1, WFMin
<1>4. \A y \in T : x <= y
    <2> TAKE y \in T
    <2>1. x \in Nat /\ y \in Nat
        OBVIOUS
    <2>2. ~(y < x)
        BY <2>1, <1>2, <1>3
    <2> QED
        BY <2>1, <2>2
<1> QED
    BY <1>4

\* The function Keep is read from, up to m.
KeptTo(f, s, S, m) ==
    f = [n \in 0..m |->
           IF n = 0 THEN <<>>
           ELSE IF s[n] \in S THEN Append(f[n - 1], s[n]) ELSE f[n - 1]]

\* There is such a function.
LEMMA KeptExists ==
    ASSUME NEW T, NEW s \in Seq(T), NEW S
    PROVE  \A m \in Nat : \E f : KeptTo(f, s, S, m)
<1> DEFINE bad == {m \in Nat : ~ \E f : KeptTo(f, s, S, m)}
<1> SUFFICES ASSUME bad # {} PROVE FALSE
  OBVIOUS
<1>1. PICK m \in bad : \A k \in bad : m <= k
  BY Least
<1>2. m \in Nat
  BY <1>1
<1>3. m # 0
  <2>1. KeptTo([n \in 0..0 |-> <<>>], s, S, 0)
    BY DEF KeptTo
  <2> QED BY <1>1, <2>1
<1>4. m - 1 \in Nat /\ m - 1 \notin bad
  BY <1>1, <1>2, <1>3
<1>5. PICK f : KeptTo(f, s, S, m - 1)
  BY <1>4
<1> DEFINE g == [n \in 0..m |-> IF n < m THEN f[n]
                                ELSE IF s[m] \in S THEN Append(f[m - 1], s[m]) ELSE f[m - 1]]
<1>6. \A n \in 0..m : g[n] = IF n = 0 THEN <<>>
                             ELSE IF s[n] \in S THEN Append(g[n - 1], s[n]) ELSE g[n - 1]
  <2> TAKE n \in 0..m
  <2>1. CASE n = m
    BY <1>2, <1>3, <2>1
  <2>2. CASE n < m
    <3>1. n \in 0..(m - 1) /\ (n # 0 => n - 1 \in 0..m /\ n - 1 < m)
      BY <1>2, <2>2
    <3>2. f[n] = IF n = 0 THEN <<>>
                 ELSE IF s[n] \in S THEN Append(f[n - 1], s[n]) ELSE f[n - 1]
      BY <1>5, <3>1 DEF KeptTo
    <3> QED BY <2>2, <3>1, <3>2
  <2> QED BY <1>2, <2>1, <2>2
<1>7. KeptTo(g, s, S, m)
  <2> HIDE DEF g
  <2>1. g = [n \in 0..m |-> g[n]]
    BY DEF g
  <2> QED BY <1>6, <2>1 DEF KeptTo
<1> QED BY <1>1, <1>7

\* What a filter keeps: the elements of S, in their order.
LEMMA KeepFacts ==
    ASSUME NEW T, NEW s \in Seq(T), NEW S
    PROVE  /\ Keep(s, S) \in Seq(T)
           /\ ToSet(Keep(s, S)) = ToSet(s) \cap S
           /\ \A a, b \in DOMAIN Keep(s, S) : a < b =>
                 \E i, j \in DOMAIN s : i < j /\ Keep(s, S)[a] = s[i] /\ Keep(s, S)[b] = s[j]
<1> DEFINE N == Len(s)
<1>0. N \in Nat /\ DOMAIN s = 1..N /\ \A i \in 1..N : s[i] \in T
  OBVIOUS
<1>1. PICK f : KeptTo(f, s, S, N) /\ Keep(s, S) = f[N]
  <2>1. \E f : KeptTo(f, s, S, N)
    BY KeptExists, <1>0
  <2> QED BY <2>1 DEF Keep, KeptTo
<1> DEFINE good(n) ==
      /\ f[n] \in Seq(T)
      /\ \A x : x \in ToSet(f[n]) <=> x \in S /\ \E i \in 1..n : x = s[i]
      /\ \A a, b \in DOMAIN f[n] : a < b =>
            \E i, j \in 1..n : i < j /\ f[n][a] = s[i] /\ f[n][b] = s[j]
    bad == {n \in 0..N : ~good(n)}
<1>2. f[0] = <<>>
  BY <1>0, <1>1 DEF KeptTo
<1>3. \A n \in 1..N : f[n] = IF s[n] \in S THEN Append(f[n - 1], s[n]) ELSE f[n - 1]
  <2> TAKE n \in 1..N
  <2>1. n \in 0..N /\ n # 0
    BY <1>0
  <2> HIDE DEF N
  <2> QED BY <1>1, <2>1 DEF KeptTo
<1>4. good(0)
  BY <1>2 DEF ToSet
<1>5. ASSUME NEW n \in 1..N, good(n - 1)
      PROVE  good(n)
  <2>0. n - 1 \in Nat /\ n \in Nat /\ 1..n = 1..(n - 1) \cup {n} /\ n \notin 1..(n - 1)
    BY <1>0
  <2>1. CASE s[n] \notin S
    <3>1. f[n] = f[n - 1]
      BY <1>3, <2>1
    <3>2. \A x : x \in ToSet(f[n - 1]) <=> x \in S /\ \E i \in 1..(n - 1) : x = s[i]
      BY <1>5
    <3>3. \A x : x \in ToSet(f[n]) <=> x \in S /\ \E i \in 1..n : x = s[i]
      BY <2>0, <2>1, <3>1, <3>2
    <3>4. \A a, b \in DOMAIN f[n - 1] : a < b =>
             \E i, j \in 1..n : i < j /\ f[n - 1][a] = s[i] /\ f[n - 1][b] = s[j]
      BY <1>5, <2>0
    <3>5. f[n] \in Seq(T)
      BY <1>5, <3>1
    <3> QED BY <3>1, <3>3, <3>4, <3>5
  <2>2. CASE s[n] \in S
    <3> DEFINE p == f[n - 1]
    <3>1. p \in Seq(T) /\ s[n] \in T /\ f[n] = Append(p, s[n])
      BY <1>0, <1>3, <1>5, <2>2
    <3>2. Len(p) \in Nat /\ DOMAIN p = 1..Len(p) /\ DOMAIN f[n] = 1..(Len(p) + 1)
      BY <3>1
    <3>3. f[n] \in Seq(T) /\ f[n][Len(p) + 1] = s[n] /\ \A a \in DOMAIN p : f[n][a] = p[a]
      BY <3>1, <3>2
    <3>4. ToSet(f[n]) = ToSet(p) \cup {s[n]}
      BY <3>2, <3>3, SMTT(30) DEF ToSet
    <3>5. \A x : x \in ToSet(f[n]) <=> x \in S /\ \E i \in 1..n : x = s[i]
      BY <1>5, <2>0, <2>2, <3>4
    <3>6. \A a \in DOMAIN p : \E i \in 1..(n - 1) : p[a] = s[i]
      BY <1>5 DEF ToSet
    <3>7. ASSUME NEW a \in DOMAIN f[n], NEW b \in DOMAIN f[n], a < b
          PROVE  \E i, j \in 1..n : i < j /\ f[n][a] = s[i] /\ f[n][b] = s[j]
      <4>1. a \in DOMAIN p
        BY <3>2, <3>7
      <4>2. CASE b \in DOMAIN p
        BY <1>5, <2>0, <3>3, <3>7, <4>1, <4>2
      <4>3. CASE b = Len(p) + 1
        <5>1. PICK i \in 1..(n - 1) : p[a] = s[i]
          BY <3>6, <4>1
        <5>2. i < n /\ i \in 1..n /\ n \in 1..n
          BY <2>0
        <5> QED BY <3>3, <4>1, <4>3, <5>1, <5>2
      <4> QED BY <3>2, <4>2, <4>3
    <3> QED BY <3>3, <3>5, <3>7
  <2> QED BY <2>1, <2>2
<1>6. good(N)
  <2> SUFFICES ASSUME bad # {} PROVE FALSE
    BY <1>0
  <2> HIDE DEF good
  <2>0. bad \subseteq Nat
    BY <1>0
  <2> HIDE DEF bad
  <2>1. PICK n \in bad : \A k \in bad : n <= k
    BY <2>0, Least
  <2> USE DEF bad
  <2>2. n \in 1..N
    BY <1>0, <1>4, <2>1
  <2>3. n - 1 \in 0..N /\ n - 1 \notin bad
    BY <1>0, <2>1, <2>2
  <2> QED BY <1>5, <2>1, <2>2, <2>3
<1>7. \A x : x \in ToSet(s) <=> \E i \in 1..N : x = s[i]
  BY <1>0 DEF ToSet
<1>8. ToSet(Keep(s, S)) = ToSet(s) \cap S
  BY <1>1, <1>6, <1>7
<1>9. \A a, b \in DOMAIN f[N] : a < b =>
         \E i, j \in 1..N : i < j /\ f[N][a] = s[i] /\ f[N][b] = s[j]
  BY <1>6
<1>10. f[N] \in Seq(T)
  BY <1>6
<1> HIDE DEF good, bad, N
<1>11. \A a, b \in DOMAIN Keep(s, S) : a < b =>
          \E i, j \in DOMAIN s : i < j /\ Keep(s, S)[a] = s[i] /\ Keep(s, S)[b] = s[j]
  BY <1>0, <1>1, <1>9
<1>12. Keep(s, S) \in Seq(T)
  BY <1>1, <1>10
<1> QED BY <1>8, <1>11, <1>12

\* A filter of an injective sequence is injective.
LEMMA KeepInjective ==
    ASSUME NEW T, NEW s \in Seq(T), NEW S, IsInjective(s)
    PROVE  IsInjective(Keep(s, S))
<1> DEFINE k == Keep(s, S)
<1>1. /\ k \in Seq(T)
      /\ \A a, b \in DOMAIN k : a < b => \E i, j \in DOMAIN s : i < j /\ k[a] = s[i] /\ k[b] = s[j]
  BY KeepFacts
<1> HIDE DEF k
<1>2. \A a, b \in DOMAIN k : a < b => k[a] # k[b]
  BY <1>1 DEF IsInjective
<1>3. \A a, b \in DOMAIN k : a # b => a < b \/ b < a
  BY <1>1
<1>4. IsInjective(k)
  BY <1>2, <1>3 DEF IsInjective
<1> QED BY <1>4 DEF k

-----------------------------------------------------------------------------
(* The inductive invariant, in parts.                                       *)

Active == {"direct", "queued", "ready", "running"}

\* The list holds the operations that have been started and have not ended.
ListInv == \A o \in Ops : o \in ToSet(list) <=> state[o] \in Active

\* What is known of an operation at each point of its life.
OpInv ==
    \A o \in Ops :
       /\ state[o] \in Active => owner[o] \in Threads /\ sock[o] \in Socks
       /\ state[o] = "idle" => ~pending[o] /\ got[o] = 0 /\ sock[o] = None
       /\ state[o] = "direct" => ~pending[o] /\ sock[o] \notin Listeners
       /\ state[o] \in Active \ {"direct"} => pending[o]

\* An operation is tried by its own thread and run by at most one.
CurInv ==
    /\ \A t \in Threads :
          /\ pc[t] \in {"try", "tell"} =>
                cur[t] \in Ops /\ state[cur[t]] = "direct" /\ owner[cur[t]] = t
          /\ pc[t] \in {"run", "report"} => cur[t] \in Ops /\ state[cur[t]] = "running"
          /\ pc[t] \notin {"try", "tell", "run", "report"} => cur[t] = None
    /\ \A t, u \in Threads : cur[t] # None /\ cur[t] = cur[u] => t = u
    /\ \A o \in Ops : state[o] = "direct" => cur[owner[o]] = o

\* No more is read than came, and what an operation has was read.
StreamInv ==
    /\ \A s \in Socks : taken[s] <= arrived[s]
    /\ \A o \in Ops : got[o] > 0 => sock[o] \in Socks /\ got[o] <= taken[sock[o]]

\* A thread that goes to fetch a packet has one, and a thread asleep on the
\* port is on its list.
WaitInv ==
    \A t \in Threads :
       /\ pc[t] = "got" => msg[t] \in Packets
       /\ pc[t] = "asleep" /\ onPort[t] => t \in ToSet(waiters)

\* A recv that has bytes has said so, or is about to.
ReadInv ==
    \A o \in Ops :
       got[o] > 0 /\ sock[o] \notin Listeners =>
          /\ result[o] = "ok" /\ state[o] \in {"direct", "running", "done"}
          /\ \A t \in Threads : cur[t] = o => pc[t] \in {"tell", "report"}

\* Operations are started once, and stay in that order in the list.
StartInv ==
    /\ IsInjective(started)
    /\ \A o \in Ops : /\ o \in ToSet(started) => state[o] # "idle"
                      /\ state[o] \in Active => o \in ToSet(started)
    /\ \A i, j \in DOMAIN list : i < j => Before(list[i], list[j])
    /\ \A a, b \in Ops : state[a] = "direct" /\ Before(a, b) => owner[b] # owner[a]

\* What goes to read as alerted after it was pending has nothing before it.
OrderInv ==
    \A a, b \in Ops :
       /\ Before(a, b) /\ owner[a] = owner[b] /\ sock[a] = sock[b] /\ pending[b]
       /\ got[b] > 0 \/ (state[b] \in {"ready", "running"} /\ status[b] = "alerted")
       => state[a] = "done"

IInv == ListInv /\ OpInv /\ CurInv /\ StreamInv /\ WaitInv /\ ReadInv /\ StartInv /\ OrderInv

-----------------------------------------------------------------------------
(* The operators of the model.                                              *)

\* The operations a thread may run.
ReadyOps(t) == {o \in ToSet(list) : state[o] = "ready" /\ (owner[o] = t \/ stale[o])}

LEMMA ReadyForFacts ==
    ASSUME TypeOK, NEW t
    PROVE  /\ ReadyFor(t) \in Seq(Ops)
           /\ ReadyFor(t) = <<>> <=> ReadyOps(t) = {}
           /\ ReadyFor(t) # <<>> => Head(ReadyFor(t)) \in ReadyOps(t)
<1> DEFINE A == {o \in Ops : state[o] = "ready" /\ owner[o] = t}
           B == {o \in Ops : state[o] = "ready" /\ stale[o]}
           a == Keep(list, A)
           b == Keep(list, B)
<1>0. list \in Seq(Ops)
  BY DEF TypeOK
<1>1. a \in Seq(Ops) /\ ToSet(a) = ToSet(list) \cap A
  BY <1>0, KeepFacts
<1>2. b \in Seq(Ops) /\ ToSet(b) = ToSet(list) \cap B
  BY <1>0, KeepFacts
<1>3. ToSet(list) \subseteq Ops
  BY <1>0 DEF ToSet
<1>4. ReadyOps(t) = ToSet(a) \cup ToSet(b)
  BY <1>1, <1>2, <1>3 DEF ReadyOps
<1>5. ReadyFor(t) = a \o b
  BY DEF ReadyFor
<1> HIDE DEF a, b, A, B
<1>6. a \o b \in Seq(Ops) /\ Len(a \o b) = Len(a) + Len(b) /\ Len(a) \in Nat /\ Len(b) \in Nat
  BY <1>1, <1>2
<1>7. ToSet(a) = {} <=> a = <<>>
  BY <1>1 DEF ToSet
<1>8. ToSet(b) = {} <=> b = <<>>
  BY <1>2 DEF ToSet
<1>9. a \o b = <<>> <=> a = <<>> /\ b = <<>>
  BY <1>1, <1>2, <1>6
<1>10. ASSUME a # <<>> PROVE Head(a \o b) \in ToSet(a)
  <2>1. 1 \in DOMAIN a /\ Head(a \o b) = a[1]
    BY <1>1, <1>2, <1>6, <1>10
  <2> QED BY <2>1 DEF ToSet
<1>11. ASSUME a = <<>>, b # <<>> PROVE Head(a \o b) \in ToSet(b)
  <2>1. 1 \in DOMAIN b /\ Head(a \o b) = b[1]
    BY <1>1, <1>2, <1>6, <1>11
  <2> QED BY <2>1 DEF ToSet
<1> QED BY <1>4, <1>5, <1>6, <1>7, <1>8, <1>9, <1>10, <1>11

\* The waiters that can be given something, and the ones only woken.
LEMMA FitFacts ==
    ASSUME TypeOK
    PROVE  /\ Fit \in Seq(Threads) /\ IsInjective(Fit)
           /\ \A t \in Threads : t \in ToSet(Fit) <=>
                 t \in ToSet(waiters) /\ msg[t] = None /\ ReadyFor(t) = <<>>
           /\ \A t \in ToSet(waiters) : msg[t] = None => t \in ToSet(Fit) \cup Busy
           /\ ToSet(Fit) \subseteq Threads
<1> DEFINE F == {t \in Threads : msg[t] = None /\ ReadyFor(t) = <<>>}
<1>0. waiters \in Seq(Threads) /\ IsInjective(waiters)
  BY DEF TypeOK
<1>1. Fit \in Seq(Threads) /\ ToSet(Fit) = ToSet(waiters) \cap F
  BY <1>0, KeepFacts DEF Fit
<1>2. IsInjective(Fit)
  BY <1>0, KeepInjective DEF Fit
<1>3. ToSet(waiters) \subseteq Threads
  BY <1>0 DEF ToSet
<1>4. \A t \in ToSet(waiters) : msg[t] = None => t \in ToSet(Fit) \cup Busy
  BY <1>1, <1>3 DEF Busy
<1> QED BY <1>1, <1>2, <1>3, <1>4

\* How often p is in the sequence q.
Count(q, p) == Cardinality({i \in DOMAIN q : q[i] = p})

LEMMA SameCardinality ==
    ASSUME NEW A, NEW B, IsFiniteSet(A), NEW f \in [A -> B],
           \A x, y \in A : f[x] = f[y] => x = y, \A z \in B : \E x \in A : f[x] = z
    PROVE  IsFiniteSet(B) /\ Cardinality(B) = Cardinality(A)
<1>1. f \in Bijection(A, B)
  BY DEF Bijection, Injection, Surjection, IsInjective
<1>2. ExistsBijection(A, B)
  BY <1>1 DEF ExistsBijection
<1> QED BY <1>2, FS_Bijection

\* The places of p in the first n of q, in q, and in what follows them.
LEMMA CountSplit ==
    ASSUME NEW T, NEW q \in Seq(T), NEW n \in 0..Len(q), NEW p
    PROVE  /\ Count(q, p) = Cardinality({i \in 1..n : q[i] = p}) + Count(SubSeq(q, n + 1, Len(q)), p)
           /\ IsFiniteSet({i \in 1..n : q[i] = p}) /\ Cardinality({i \in 1..n : q[i] = p}) \in Nat
           /\ Count(q, p) \in Nat /\ Count(SubSeq(q, n + 1, Len(q)), p) \in Nat
<1> DEFINE L == Len(q)
           r == SubSeq(q, n + 1, L)
           X == {i \in 1..n : q[i] = p}
           Y == {i \in (n + 1)..L : q[i] = p}
           Z == {i \in DOMAIN r : r[i] = p}
<1>1. L \in Nat /\ n \in Nat /\ DOMAIN q = 1..L /\ n <= L
  OBVIOUS
<1>2. DOMAIN r = 1..(L - n) /\ \A i \in 1..(L - n) : r[i] = q[i + n]
  BY <1>1
<1>3. IsFiniteSet(1..n) /\ IsFiniteSet((n + 1)..L) /\ IsFiniteSet(1..(L - n)) /\ IsFiniteSet(1..L)
  BY <1>1, FS_Interval
<1>4. IsFiniteSet(X) /\ IsFiniteSet(Y) /\ IsFiniteSet(Z)
  BY <1>2, <1>3, FS_Subset
<1>5. {i \in DOMAIN q : q[i] = p} = X \cup Y /\ X \cap Y = {}
  BY <1>1
<1>6. Cardinality(Y) = Cardinality(Z)
  <2> DEFINE f == [i \in Z |-> i + n]
  <2>1. f \in [Z -> Y]
    BY <1>1, <1>2, SMTT(30)
  <2>2. \A x, y \in Z : f[x] = f[y] => x = y
    BY <1>1, <1>2
  <2>3. \A z \in Y : \E x \in Z : f[x] = z
    <3> TAKE z \in Y
    <3>1. z - n \in Z /\ (z - n) + n = z
      BY <1>1, <1>2, SMTT(30)
    <3> QED BY <3>1
  <2> HIDE DEF f, Y, Z
  <2> QED BY <1>4, <2>1, <2>2, <2>3, SameCardinality
<1> HIDE DEF X, Y, Z
<1>7. Cardinality(X) \in Nat /\ Cardinality(Y) \in Nat /\ Cardinality(Z) \in Nat
  BY <1>4, FS_CardinalityType
<1>8. Cardinality(X \cup Y) = Cardinality(X) + Cardinality(Y)
  <2>1. Cardinality(X \cap Y) = 0
    BY <1>5, FS_EmptySet
  <2>2. Cardinality(X \cup Y) = Cardinality(X) + Cardinality(Y) - Cardinality(X \cap Y)
    BY <1>4, FS_Union
  <2> QED BY <1>7, <2>1, <2>2
<1>9. Count(q, p) = Cardinality(X \cup Y) /\ Count(r, p) = Cardinality(Z)
  BY <1>5 DEF Count, Z
<1>10. Count(q, p) = Cardinality(X) + Count(r, p)
  BY <1>6, <1>8, <1>9
<1> HIDE DEF r
<1>11. Count(q, p) \in Nat /\ Count(r, p) \in Nat
  BY <1>6, <1>7, <1>8, <1>9
<1> QED BY <1>4, <1>7, <1>10, <1>11 DEF X, r

LEMMA CountHead ==
    ASSUME NEW T, NEW q \in Seq(T), q # <<>>, NEW p
    PROVE  /\ Count(q, p) = Count(Tail(q), p) + IF Head(q) = p THEN 1 ELSE 0
           /\ Count(q, p) \in Nat /\ Count(Tail(q), p) \in Nat
<1>1. 1 \in 0..Len(q) /\ Tail(q) = SubSeq(q, 1 + 1, Len(q)) /\ Head(q) = q[1]
  OBVIOUS
<1>2. {i \in 1..1 : q[i] = p} = IF Head(q) = p THEN {1} ELSE {}
  BY <1>1
<1>3. Cardinality({i \in 1..1 : q[i] = p}) = IF Head(q) = p THEN 1 ELSE 0
  BY <1>2, FS_Singleton, FS_EmptySet
<1>4. /\ Count(q, p) = Cardinality({i \in 1..1 : q[i] = p}) + Count(Tail(q), p)
      /\ Count(q, p) \in Nat /\ Count(Tail(q), p) \in Nat
  BY <1>1, CountSplit
<1> QED BY <1>3, <1>4

LEMMA CountAppend ==
    ASSUME NEW T, NEW q \in Seq(T), NEW r \in T, NEW p
    PROVE  /\ Count(Append(q, r), p) = Count(q, p) + IF r = p THEN 1 ELSE 0
           /\ Count(q, p) \in Nat
<1> DEFINE L == Len(q)
           Q == {i \in DOMAIN q : q[i] = p}
           A == {i \in DOMAIN Append(q, r) : Append(q, r)[i] = p}
<1>1. L \in Nat /\ DOMAIN q = 1..L /\ DOMAIN Append(q, r) = 1..(L + 1)
  OBVIOUS
<1>2. Append(q, r)[L + 1] = r /\ \A i \in 1..L : Append(q, r)[i] = q[i]
  OBVIOUS
<1>3. A = Q \cup (IF r = p THEN {L + 1} ELSE {}) /\ L + 1 \notin Q
  BY <1>1, <1>2
<1>4. IsFiniteSet(Q)
  <2>1. Q \in SUBSET (1..L)
    BY <1>1
  <2>2. IsFiniteSet(1..L)
    BY <1>1, FS_Interval
  <2> HIDE DEF Q, L
  <2> QED BY <2>1, <2>2, FS_Subset
<1> HIDE DEF Q
<1>5. Cardinality(Q) \in Nat
  BY <1>4, FS_CardinalityType
<1>6. Cardinality(A) = Cardinality(Q) + IF r = p THEN 1 ELSE 0
  <2>1. CASE r = p
    BY <1>3, <1>4, <2>1, FS_AddElement
  <2>2. CASE r # p
    <3>1. A = Q
      BY <1>3, <2>2
    <3> HIDE DEF A
    <3> QED BY <1>5, <2>2, <3>1
  <2> QED BY <2>1, <2>2
<1> QED BY <1>5, <1>6 DEF Count, Q

\* A hand-over takes messages off the queue into waits, each once, changes no wait
\* that has one, and leaves no waiter with nothing unless the queue is empty or the
\* waiter is woken.
LEMMA HandOverFacts ==
    ASSUME TypeOK, NEW q \in Seq(Packets), NEW opened \in BOOLEAN, HandOver(q, opened)
    PROVE  /\ port' \in Seq(Packets)
           /\ msg' \in [Threads -> Packets \cup {None, Abandoned}]
           /\ notified' \in [Threads -> BOOLEAN]
           /\ \A t \in Threads : notified[t] => notified'[t]
           /\ \A t \in Threads : msg[t] # None => msg'[t] = msg[t]
           /\ \A t \in ToSet(waiters) :
                 msg'[t] = None => notified'[t] \/ (opened /\ port' = <<>>)
           /\ \A p \in Packets : InPort(p)' + InWait(p)' = Count(q, p) + InWait(p)
<1> DEFINE n == IF opened /\ Len(q) < Len(Fit) THEN Len(q) ELSE Len(Fit)
           served == {Fit[i] : i \in 1..n}
<1>1. /\ Fit \in Seq(Threads) /\ IsInjective(Fit)
      /\ \A t \in Threads : t \in ToSet(Fit) <=>
            t \in ToSet(waiters) /\ msg[t] = None /\ ReadyFor(t) = <<>>
      /\ \A t \in ToSet(waiters) : msg[t] = None => t \in ToSet(Fit) \cup Busy
  BY FitFacts
<1>2. /\ msg' = [t \in Threads |->
                   IF t \notin served THEN msg[t]
                   ELSE IF ~opened THEN Abandoned
                   ELSE q[CHOOSE i \in 1..n : Fit[i] = t]]
      /\ port' = IF opened THEN SubSeq(q, n + 1, Len(q)) ELSE q
      /\ notified' = [t \in Threads |-> notified[t] \/ t \in served \cup Busy]
  BY DEF HandOver, Serve
<1>3. Len(q) \in Nat /\ Len(Fit) \in Nat /\ n \in Nat /\ n <= Len(Fit) /\ (opened => n <= Len(q))
  BY <1>1
<1>4. DOMAIN q = 1..Len(q) /\ DOMAIN Fit = 1..Len(Fit) /\ 1..n \subseteq DOMAIN Fit
  BY <1>1, <1>3
<1>5. n = Len(Fit) \/ (opened /\ n = Len(q))
  BY <1>3
<1> HIDE DEF n
<1>6. \A i \in 1..n : Fit[i] \in Threads /\ msg[Fit[i]] = None
  <2> TAKE i \in 1..n
  <2>1. Fit[i] \in ToSet(Fit) /\ Fit[i] \in Threads
    BY <1>1, <1>4 DEF ToSet
  <2> QED BY <1>1, <2>1
<1>7. \A i \in 1..n : (CHOOSE j \in 1..n : Fit[j] = Fit[i]) = i
  <2> TAKE i \in 1..n
  <2>1. \A j \in 1..n : Fit[j] = Fit[i] => j = i
    BY <1>1, <1>4 DEF IsInjective
  <2> QED BY <2>1
<1>8. \A i \in 1..n : msg'[Fit[i]] = IF opened THEN q[i] ELSE Abandoned
  <2> TAKE i \in 1..n
  <2> DEFINE t == Fit[i]
  <2>1. t \in Threads /\ t \in served /\ (CHOOSE j \in 1..n : Fit[j] = t) = i
    BY <1>6, <1>7
  <2>2. \A u \in Threads : u \in served =>
           msg'[u] = IF ~opened THEN Abandoned ELSE q[CHOOSE j \in 1..n : Fit[j] = u]
    BY <1>2, Zenon
  <2>3. msg'[t] = IF ~opened THEN Abandoned ELSE q[CHOOSE j \in 1..n : Fit[j] = t]
    BY <2>1, <2>2, Zenon
  <2>4. msg'[t] = IF opened THEN q[i] ELSE Abandoned
    BY <2>1, <2>3, Zenon
  <2> QED BY <2>4
<1>9. \A t \in Threads : t \notin served => msg'[t] = msg[t]
  BY <1>2
<1>10. port' \in Seq(Packets)
  BY <1>2, <1>3
<1>11. msg' \in [Threads -> Packets \cup {None, Abandoned}]
  <2>1. \A i \in 1..n : opened => q[i] \in Packets
    BY <1>3, <1>4
  <2>2. \A t \in Threads : msg'[t] \in Packets \cup {None, Abandoned}
    <3> TAKE t \in Threads
    <3>1. CASE t \in served
      <4>1. PICK i \in 1..n : t = Fit[i]
        BY <3>1
      <4> QED BY <1>8, <2>1, <4>1
    <3>2. CASE t \notin served
      BY <1>9, <3>2 DEF TypeOK
    <3> QED BY <3>1, <3>2
  <2> QED BY <1>2, <2>2
<1>12. notified' \in [Threads -> BOOLEAN] /\ \A t \in Threads : notified[t] => notified'[t]
  BY <1>2 DEF TypeOK
<1>13. \A t \in Threads : msg[t] # None => msg'[t] = msg[t]
  BY <1>6, <1>9
<1>14. ASSUME NEW t \in ToSet(waiters), msg'[t] = None, ~notified'[t]
       PROVE  opened /\ port' = <<>>
  <2>1. t \in Threads
    BY DEF ToSet, TypeOK
  <2>2. t \notin served \cup Busy
    BY <1>2, <1>14, <2>1
  <2>3. t \in ToSet(Fit)
    BY <1>1, <1>9, <1>14, <2>1, <2>2
  <2>4. n # Len(Fit)
    BY <1>4, <2>2, <2>3 DEF ToSet
  <2>5. opened /\ n = Len(q) /\ port' = SubSeq(q, n + 1, Len(q))
    BY <1>2, <1>5, <2>4
  <2> QED BY <1>3, <2>5
<1>15. ASSUME NEW p \in Packets
       PROVE  InPort(p)' + InWait(p)' = Count(q, p) + InWait(p)
  <2> DEFINE W == {t \in Threads : msg[t] = p}
             V == {t \in Threads : msg'[t] = p}
  <2>1. InPort(p)' = Count(port', p) /\ InWait(p) = Cardinality(W) /\ InWait(p)' = Cardinality(V)
    BY DEF InPort, InWait, Count
  <2>2. IsFiniteSet(W) /\ Cardinality(W) \in Nat
    BY AsyncAssumption, FS_Subset, FS_CardinalityType
  <2>3. p # None /\ p # Abandoned
    BY AsyncAssumption DEF Packets
  <2>4. CASE ~opened
    <3>1. V = W
      BY <1>6, <1>8, <1>9, <2>3, <2>4
    <3> QED BY <1>2, <2>1, <2>2, <2>4, <3>1
  <2>5. CASE opened
    <3> DEFINE X == {i \in 1..n : q[i] = p}
               Y == {t \in served : msg'[t] = p}
    <3>1. /\ Count(q, p) = Cardinality(X) + Count(SubSeq(q, n + 1, Len(q)), p)
          /\ IsFiniteSet(X) /\ Cardinality(X) \in Nat
          /\ Count(q, p) \in Nat /\ Count(SubSeq(q, n + 1, Len(q)), p) \in Nat
      <4>1. n \in 0..Len(q)
        BY <1>3, <2>5
      <4> QED BY <4>1, CountSplit
    <3>2. IsFiniteSet(Y) /\ Cardinality(Y) = Cardinality(X)
      <4> DEFINE f == [i \in X |-> Fit[i]]
      <4>1. f \in [X -> Y]
        BY <1>8, <2>5
      <4>2. \A x, y \in X : f[x] = f[y] => x = y
        BY <1>1, <1>4 DEF IsInjective
      <4>3. \A z \in Y : \E x \in X : f[x] = z
        BY <1>8, <2>5
      <4> HIDE DEF f, X, Y
      <4> QED BY <3>1, <4>1, <4>2, <4>3, SameCardinality
    <3>3. V = W \cup Y /\ W \cap Y = {}
      BY <1>6, <1>9, <2>3
    <3> HIDE DEF V, W, X, Y
    <3>4. Cardinality(W \cap Y) = 0
      BY <3>3, FS_EmptySet
    <3>5. Cardinality(V) = Cardinality(W) + Cardinality(Y) - Cardinality(W \cap Y)
      BY <2>2, <3>2, <3>3, FS_Union
    <3>6. InPort(p)' = Count(SubSeq(q, n + 1, Len(q)), p)
      BY <1>2, <2>1, <2>5
    <3> QED BY <2>1, <2>2, <3>1, <3>2, <3>4, <3>5, <3>6
  <2> QED BY <2>4, <2>5
<1> QED BY <1>10, <1>11, <1>12, <1>13, <1>14, <1>15

LEMMA CountNat ==
    ASSUME NEW q \in Seq(Packets), NEW f, NEW p
    PROVE  Count(q, p) \in Nat /\ Cardinality({t \in Threads : f[t] = p}) \in Nat
<1>1. Count(q, p) \in Nat
  <2>1. 0 \in 0..Len(q)
    OBVIOUS
  <2> QED BY <2>1, CountSplit
<1>2. IsFiniteSet({t \in Threads : f[t] = p})
  BY AsyncAssumption, FS_Subset
<1> QED BY <1>1, <1>2, FS_CardinalityType

LEMMA CountsNat ==
    ASSUME TypeOK, NEW p \in Packets
    PROVE  InPort(p) \in Nat /\ InWait(p) \in Nat /\ InPort(p) = Count(port, p)
<1>1. port \in Seq(Packets)
  BY DEF TypeOK
<1>2. InPort(p) = Count(port, p) /\ InWait(p) = Cardinality({t \in Threads : msg[t] = p})
  BY DEF InPort, InWait, Count
<1> QED BY <1>1, <1>2, CountNat

\* What every step on the port's side does to it.
PortStep ==
    /\ port' \in Seq(Packets) /\ portOpen' \in BOOLEAN
    /\ msg' \in [Threads -> Packets \cup {None, Abandoned}]
    /\ notified' \in [Threads -> BOOLEAN]
    /\ posts' \in [Packets -> Nat]
    /\ \A t \in Threads : notified[t] => notified'[t]
    /\ \A t \in Threads : msg[t] # None => msg'[t] = msg[t]
    /\ \/ port' = port /\ portOpen' = portOpen
       \/ \A t \in ToSet(waiters) :
             msg'[t] = None => notified'[t] \/ (portOpen' /\ port' = <<>>)
    /\ \A p \in Packets :
          InPort(p)' + InWait(p)' - posts'[p] = InPort(p) + InWait(p) - posts[p]

LEMMA PostFacts ==
    ASSUME TypeOK, NEW r \in Packets, Post(r)
    PROVE  PortStep /\ posts' = [posts EXCEPT ![r] = @ + 1]
<1> DEFINE q == Append(port, r)
<1>0. port \in Seq(Packets) /\ portOpen \in BOOLEAN /\ posts \in [Packets -> Nat]
  BY DEF TypeOK
<1>1. q \in Seq(Packets)
  BY <1>0
<1>2. HandOver(q, portOpen) /\ portOpen' = portOpen /\ posts' = [posts EXCEPT ![r] = @ + 1]
  BY DEF Post
<1> HIDE DEF q
<1>3. /\ port' \in Seq(Packets)
      /\ msg' \in [Threads -> Packets \cup {None, Abandoned}]
      /\ notified' \in [Threads -> BOOLEAN]
      /\ \A t \in Threads : notified[t] => notified'[t]
      /\ \A t \in Threads : msg[t] # None => msg'[t] = msg[t]
      /\ \A t \in ToSet(waiters) :
            msg'[t] = None => notified'[t] \/ (portOpen /\ port' = <<>>)
      /\ \A p \in Packets : InPort(p)' + InWait(p)' = Count(q, p) + InWait(p)
  BY <1>0, <1>1, <1>2, HandOverFacts
<1>4. posts' \in [Packets -> Nat]
  BY <1>0, <1>2
<1>5. ASSUME NEW p \in Packets
      PROVE  InPort(p)' + InWait(p)' - posts'[p] = InPort(p) + InWait(p) - posts[p]
  <2>1. Count(q, p) = InPort(p) + IF r = p THEN 1 ELSE 0
    BY <1>0, CountsNat, CountAppend DEF q
  <2>2. posts'[p] = posts[p] + (IF r = p THEN 1 ELSE 0) /\ posts[p] \in Nat
    BY <1>0, <1>2
  <2>3. InPort(p) \in Nat /\ InWait(p) \in Nat
    BY CountsNat
  <2>4. InPort(p)' = Count(port', p) /\ InWait(p)' = Cardinality({t \in Threads : msg'[t] = p})
    BY DEF InPort, InWait, Count
  <2>5. InPort(p)' \in Nat /\ InWait(p)' \in Nat
    BY <1>3, <2>4, CountNat
  <2>6. InPort(p)' + InWait(p)' = Count(q, p) + InWait(p)
    BY <1>3
  <2> QED BY <2>1, <2>2, <2>3, <2>5, <2>6
<1> QED BY <1>0, <1>2, <1>3, <1>4, <1>5 DEF PortStep

LEMMA PortSame ==
    ASSUME TypeOK, UNCHANGED portVars
    PROVE  PortStep
<1>1. /\ port' = port /\ portOpen' = portOpen /\ msg' = msg /\ notified' = notified
      /\ posts' = posts
  BY DEF portVars
<1>2. \A p \in Packets : InPort(p)' = InPort(p) /\ InWait(p)' = InWait(p)
  BY <1>1 DEF InPort, InWait
<1> QED BY <1>1, <1>2 DEF PortStep, TypeOK

LEMMA CloseFacts ==
    ASSUME TypeOK, NEW t, ClosePort(t)
    PROVE  PortStep
<1>0. port \in Seq(Packets) /\ posts' = posts /\ portOpen' = FALSE /\ HandOver(port, FALSE)
  BY DEF TypeOK, ClosePort
<1>1. /\ port' \in Seq(Packets)
      /\ msg' \in [Threads -> Packets \cup {None, Abandoned}]
      /\ notified' \in [Threads -> BOOLEAN]
      /\ \A u \in Threads : notified[u] => notified'[u]
      /\ \A u \in Threads : msg[u] # None => msg'[u] = msg[u]
      /\ \A u \in ToSet(waiters) : msg'[u] = None => notified'[u]
      /\ \A p \in Packets : InPort(p)' + InWait(p)' = Count(port, p) + InWait(p)
  BY <1>0, HandOverFacts
<1>2. ASSUME NEW p \in Packets
      PROVE  InPort(p)' + InWait(p)' - posts'[p] = InPort(p) + InWait(p) - posts[p]
  <2>1. InPort(p)' = Count(port', p) /\ InWait(p)' = Cardinality({u \in Threads : msg'[u] = p})
    BY DEF InPort, InWait, Count
  <2>2. InPort(p)' \in Nat /\ InWait(p)' \in Nat
    BY <1>1, <2>1, CountNat
  <2>3. InPort(p)' + InWait(p)' = Count(port, p) + InWait(p)
    BY <1>1
  <2>4. InPort(p) \in Nat /\ InWait(p) \in Nat /\ InPort(p) = Count(port, p)
    BY CountsNat
  <2>5. posts'[p] = posts[p] /\ posts[p] \in Nat
    BY <1>0 DEF TypeOK
  <2> QED BY <2>2, <2>3, <2>4, <2>5
<1> QED BY <1>0, <1>1, <1>2 DEF PortStep, TypeOK

\* What ends an operation.
LEMMA FinishFacts ==
    ASSUME TypeOK, NEW o \in Ops, NEW pend \in BOOLEAN, Finish(o, pend)
    PROVE  /\ PortStep
           /\ list' \in Seq(Ops) /\ IsInjective(list') /\ ToSet(list') = ToSet(list) \ {o}
           /\ \A i, j \in DOMAIN list' : i < j =>
                 \E k, l \in DOMAIN list : k < l /\ list'[i] = list[k] /\ list'[j] = list[l]
           /\ posts' = IF Posted(o, pend) THEN [posts EXCEPT ![o] = @ + 1] ELSE posts
<1>1. list \in Seq(Ops) /\ IsInjective(list)
  BY DEF TypeOK
<1>2. list' = Keep(list, Ops \ {o})
  BY DEF Finish
<1>3. /\ list' \in Seq(Ops) /\ IsInjective(list') /\ ToSet(list') = ToSet(list) \cap (Ops \ {o})
      /\ \A i, j \in DOMAIN list' : i < j =>
            \E k, l \in DOMAIN list : k < l /\ list'[i] = list[k] /\ list'[j] = list[l]
  <2> DEFINE R == Ops \ {o}
             k == Keep(list, R)
  <2> HIDE DEF R
  <2>1. /\ k \in Seq(Ops) /\ ToSet(k) = ToSet(list) \cap R
        /\ \A i, j \in DOMAIN k : i < j =>
              \E a, b \in DOMAIN list : a < b /\ k[i] = list[a] /\ k[j] = list[b]
    BY <1>1, KeepFacts
  <2>2. IsInjective(k)
    BY <1>1, KeepInjective
  <2> HIDE DEF k
  <2>3. list' = k
    BY <1>2 DEF k, R
  <2> QED BY <2>1, <2>2, <2>3 DEF R
<1>4. ToSet(list) \subseteq Ops
  BY <1>1 DEF ToSet
<1>5. o \in Packets
  BY DEF Packets
<1>6. CASE Posted(o, pend)
  <2>1. Post(o)
    BY <1>6 DEF Finish
  <2> QED BY <1>3, <1>4, <1>5, <1>6, <2>1, PostFacts
<1>7. CASE ~Posted(o, pend)
  <2>1. UNCHANGED portVars
    BY <1>7 DEF Finish
  <2>2. PortStep /\ posts' = posts
    BY <2>1, PortSame DEF portVars
  <2> QED BY <1>3, <1>4, <1>7, <2>2
<1> QED BY <1>6, <1>7

-----------------------------------------------------------------------------
(* Types.                                                                   *)

\* The operations a pass of the poller makes ready.
Fired == UNION {NextQueued(s) : s \in {q \in Polled : Readable(q)}}

\* Each of them is queued on a readable socket, behind none but operations that are
\* being tried.
LEMMA FiredFacts ==
    ASSUME TypeOK, NEW o \in Fired
    PROVE  /\ o \in Ops /\ o \in ToSet(list) /\ state[o] = "queued"
           /\ sock[o] \in Socks /\ sock[o] \in open /\ taken[sock[o]] < arrived[sock[o]]
           /\ \E k \in DOMAIN list : /\ list[k] = o
                                     /\ \A j \in 1..(k - 1) : sock[list[j]] = sock[o] => state[list[j]] = "direct"
<1>1. PICK s \in Polled : Readable(s) /\ o \in NextQueued(s)
  BY DEF Fired
<1>2. PICK k \in DOMAIN list :
         /\ list[k] = o /\ sock[o] = s /\ state[o] = "queued"
         /\ \A j \in 1..(k - 1) : sock[list[j]] = s => state[list[j]] = "direct"
  BY <1>1 DEF NextQueued
<1>3. o \in Ops /\ o \in ToSet(list)
  BY <1>2 DEF TypeOK, ToSet
<1>4. s \in open /\ s \in Socks /\ taken[s] < arrived[s]
  BY <1>1 DEF Readable, TypeOK
<1> QED BY <1>2, <1>3, <1>4

\* The list after an operation was added.
LEMMA AddFacts ==
    ASSUME TypeOK, ListInv, NEW o \in Ops, state[o] = "idle"
    PROVE  /\ Append(list, o) \in Seq(Ops) /\ IsInjective(Append(list, o))
           /\ ToSet(Append(list, o)) = ToSet(list) \cup {o}
           /\ Len(list) \in Nat /\ DOMAIN list = 1..Len(list)
           /\ DOMAIN Append(list, o) = 1..(Len(list) + 1) /\ Append(list, o)[Len(list) + 1] = o
           /\ \A i \in DOMAIN list : Append(list, o)[i] = list[i]
<1>1. list \in Seq(Ops) /\ IsInjective(list) /\ o \notin ToSet(list)
  BY DEF TypeOK, ListInv, Active
<1>2. /\ Len(list) \in Nat /\ DOMAIN list = 1..Len(list)
      /\ DOMAIN Append(list, o) = 1..(Len(list) + 1) /\ Append(list, o)[Len(list) + 1] = o
      /\ \A i \in DOMAIN list : Append(list, o)[i] = list[i]
      /\ Append(list, o) \in Seq(Ops)
  BY <1>1
<1>3. ToSet(Append(list, o)) = ToSet(list) \cup {o}
  BY <1>2 DEF ToSet
<1>4. \A i \in 1..Len(list) : list[i] # o
  BY <1>1, <1>2 DEF ToSet
<1>5. IsInjective(Append(list, o))
  BY <1>1, <1>2, <1>4 DEF IsInjective
<1> QED BY <1>2, <1>3, <1>5

\* Leaving select takes a thread off the port's list.
LEMMA LeaveFacts ==
    ASSUME TypeOK, NEW t \in Threads, waiters' = Keep(waiters, Threads \ {t})
    PROVE  /\ waiters' \in Seq(Threads) /\ IsInjective(waiters')
           /\ ToSet(waiters') = ToSet(waiters) \ {t}
<1>1. waiters \in Seq(Threads) /\ IsInjective(waiters)
  BY DEF TypeOK
<1>2. ToSet(waiters) \subseteq Threads
  BY <1>1 DEF ToSet
<1> DEFINE R == Threads \ {t}
           k == Keep(waiters, R)
<1> HIDE DEF R
<1>3. k \in Seq(Threads) /\ ToSet(k) = ToSet(waiters) \cap R
  BY <1>1, KeepFacts
<1>4. IsInjective(k)
  BY <1>1, KeepInjective
<1>5. waiters' = k
  BY DEF R
<1> HIDE DEF k
<1> QED BY <1>2, <1>3, <1>4, <1>5 DEF R

\* TypeOK by what the steps change together.
OpType ==
    /\ state \in [Ops -> {"idle", "direct", "queued", "ready", "running", "done"}]
    /\ owner \in [Ops -> Threads \cup {None}] /\ sock \in [Ops -> Socks \cup {None}]
    /\ pending \in [Ops -> BOOLEAN] /\ stale \in [Ops -> BOOLEAN]
    /\ status \in [Ops -> {"alerted", "cancelled", "closed"}]
    /\ result \in [Ops -> {"none", "again", "ok", "failed", "cancelled", "closed"}]
    /\ started \in Seq(Ops) /\ told \in [Ops -> Nat]
ListType == list \in Seq(Ops) /\ IsInjective(list)
SockType ==
    /\ open \subseteq Socks /\ got \in [Ops -> 0..MaxArrivals]
    /\ arrived \in [Socks -> 0..MaxArrivals] /\ taken \in [Socks -> 0..MaxArrivals]
    /\ cancels \in 0..MaxCancels
PortType ==
    /\ port \in Seq(Packets) /\ portOpen \in BOOLEAN
    /\ notified \in [Threads -> BOOLEAN]
    /\ msg \in [Threads -> Packets \cup {None, Abandoned}]
    /\ posts \in [Packets -> Nat] /\ received \in [Packets -> Nat]
WaitType ==
    /\ waiters \in Seq(Threads) /\ IsInjective(waiters) /\ onPort \in [Threads -> BOOLEAN]
ThreadType ==
    /\ pc \in [Threads -> {"idle", "try", "tell", "remove", "body", "asleep",
                           "run", "report", "got", "ended"}]
    /\ cur \in [Threads -> Ops \cup {None}]

LEMMA TypeParts ==
    /\ TypeOK <=> OpType /\ ListType /\ SockType /\ PortType /\ WaitType /\ ThreadType
    /\ TypeOK' <=> OpType' /\ ListType' /\ SockType' /\ PortType' /\ WaitType' /\ ThreadType'
BY DEF TypeOK, OpType, ListType, SockType, PortType, WaitType, ThreadType

LEMMA ThreadTypeStep == TypeOK /\ CurInv /\ [Next]_vars => ThreadType'
<1> SUFFICES ASSUME TypeOK, CurInv, [Next]_vars PROVE ThreadType'
  OBVIOUS
<1> USE DEF Goto
<1>0. ThreadType
  BY TypeParts
<1>1. ASSUME UNCHANGED <<pc, cur>> PROVE ThreadType'
  BY <1>0, <1>1 DEF ThreadType
<1>2. ASSUME NEW t \in Threads, NEW o \in Ops, NEW s \in Socks, Recv(t, o, s) PROVE ThreadType'
  BY <1>0, <1>2 DEF ThreadType, Recv
<1>3. ASSUME NEW t \in Threads, NEW o \in Ops, NEW s \in Socks, Accept(t, o, s) PROVE ThreadType'
  BY <1>1, <1>3 DEF Accept
<1>4. ASSUME NEW t \in Threads, NEW s \in Socks, Cancel(t, s) \/ CloseSock(t, s) PROVE ThreadType'
  BY <1>1, <1>4 DEF Cancel, CloseSock
<1>5. ASSUME NEW t \in Threads, RemoveCompletion(t) \/ WaitOther(t) PROVE ThreadType'
  BY <1>0, <1>5 DEF ThreadType, RemoveCompletion, WaitOther
<1>6. ASSUME NEW t \in Threads, NEW p \in Posts, AddCompletion(t, p) PROVE ThreadType'
  BY <1>1, <1>6 DEF AddCompletion
<1>7. ASSUME NEW t \in Threads, ClosePort(t) \/ EndThread(t) PROVE ThreadType'
  BY <1>0, <1>7 DEF ThreadType, ClosePort, EndThread
<1>8. ASSUME NEW t \in Threads, Try(t) \/ Enter(t) \/ Callback(t) \/ GetThreadCompletion(t) PROVE ThreadType'
  BY <1>0, <1>8 DEF ThreadType, Try, Enter, Callback, GetThreadCompletion
<1>9. ASSUME NEW t \in Threads, Tell(t) \/ Report(t) PROVE ThreadType'
  BY <1>0, <1>9 DEF ThreadType, Tell, Report
<1>10. ASSUME NEW t \in Threads, Completed(t) \/ Take(t) \/ Sleep(t) PROVE ThreadType'
  BY <1>0, <1>10 DEF ThreadType, Completed, Take, Sleep, Leave
<1>11. ASSUME NEW t \in Threads, RunApc(t) PROVE ThreadType'
  <2>1. Head(ReadyFor(t)) \in Ops
    BY <1>11, ReadyForFacts DEF RunApc, ReadyOps, TypeOK, ToSet
  <2> QED BY <1>0, <1>11, <2>1 DEF ThreadType, RunApc, Leave
<1>12. ASSUME Poll PROVE ThreadType'
  BY <1>1, <1>12 DEF Poll
<1>13. ASSUME NEW o \in Ops, GrowStale(o) PROVE ThreadType'
  BY <1>1, <1>13 DEF GrowStale
<1>14. ASSUME NEW s \in Socks, Arrive(s) PROVE ThreadType'
  BY <1>1, <1>14 DEF Arrive
<1>15. ASSUME UNCHANGED vars PROVE ThreadType'
  BY <1>1, <1>15 DEF vars
<1> QED BY <1>2, <1>3, <1>4, <1>5, <1>6, <1>7, <1>8, <1>9, <1>10, <1>11, <1>12, <1>13, <1>14, <1>15
        DEF Next, Calls, Step

LEMMA OpTypeStep == TypeOK /\ CurInv /\ [Next]_vars => OpType'
<1> SUFFICES ASSUME TypeOK, CurInv, [Next]_vars PROVE OpType'
  OBVIOUS
<1>0. OpType
  BY TypeParts
<1>1. ASSUME UNCHANGED <<asyncVars, told>> PROVE OpType'
  BY <1>0, <1>1 DEF OpType, asyncVars
<1>2. ASSUME NEW t \in Threads, NEW o \in Ops, NEW s \in Socks, Recv(t, o, s) PROVE OpType'
  BY <1>0, <1>2 DEF OpType, Recv, Create
<1>3. ASSUME NEW t \in Threads, NEW o \in Ops, NEW s \in Socks, Accept(t, o, s) PROVE OpType'
  <2>1. CASE Readable(s)
    <3>1. /\ state' = [state EXCEPT ![o] = "done"] /\ result' = [result EXCEPT ![o] = "ok"]
          /\ owner' = [owner EXCEPT ![o] = t] /\ sock' = [sock EXCEPT ![o] = s]
          /\ started' = Append(started, o) /\ UNCHANGED <<pending, status, stale>>
          /\ \E n \in {0, 1} : told' = [told EXCEPT ![o] = @ + n]
      BY <1>3, <2>1 DEF Accept, Create
    <3>2. told' \in [Ops -> Nat] /\ started' \in Seq(Ops)
      BY <1>0, <3>1 DEF OpType
    <3> QED BY <1>0, <3>1, <3>2 DEF OpType
  <2>2. CASE ~Readable(s)
    <3>1. /\ state' = [state EXCEPT ![o] = "queued"] /\ pending' = [pending EXCEPT ![o] = TRUE]
          /\ owner' = [owner EXCEPT ![o] = t] /\ sock' = [sock EXCEPT ![o] = s]
          /\ started' = Append(started, o) /\ UNCHANGED <<result, status, stale, told>>
      BY <1>3, <2>2 DEF Accept, Create
    <3>2. started' \in Seq(Ops)
      BY <1>0, <3>1 DEF OpType
    <3> QED BY <1>0, <3>1, <3>2 DEF OpType
  <2> QED BY <2>1, <2>2
<1>4. ASSUME NEW S, NEW st \in {"alerted", "cancelled", "closed"}, MakeReady(S, st),
             UNCHANGED <<owner, sock, pending, result, started, told>>
      PROVE  OpType'
  BY <1>0, <1>4 DEF OpType, MakeReady
<1>5. ASSUME NEW t \in Threads, NEW s \in Socks, Cancel(t, s) \/ CloseSock(t, s) PROVE OpType'
  BY <1>4, <1>5 DEF Cancel, CloseSock
<1>6. ASSUME NEW t \in Threads, RemoveCompletion(t) \/ WaitOther(t) PROVE OpType'
  BY <1>1, <1>6 DEF RemoveCompletion, WaitOther
<1>7. ASSUME NEW t \in Threads, NEW p \in Posts, AddCompletion(t, p) PROVE OpType'
  BY <1>1, <1>7 DEF AddCompletion
<1>8. ASSUME NEW t \in Threads, ClosePort(t) \/ EndThread(t) PROVE OpType'
  BY <1>1, <1>8 DEF ClosePort, EndThread
<1>9. ASSUME NEW t \in Threads, Try(t) PROVE OpType'
  BY <1>0, <1>9 DEF OpType, Try, ReadNow
<1>10. ASSUME NEW t \in Threads, Callback(t) PROVE OpType'
  <2>1. cur[t] \in Ops
    BY <1>10 DEF Callback, CurInv
  <2>2. \E r \in {"again", "ok", "failed", "cancelled", "closed"} :
           result' = [result EXCEPT ![cur[t]] = r]
    BY <1>0, <1>10, <2>1 DEF Callback, ReadNow, OpType
  <2>3. UNCHANGED <<state, owner, sock, pending, status, stale, started, told>>
    BY <1>10 DEF Callback
  <2> QED BY <1>0, <2>2, <2>3 DEF OpType
<1>11. ASSUME NEW t \in Threads, Enter(t) \/ Completed(t) \/ Take(t) \/ Sleep(t) \/ GetThreadCompletion(t)
       PROVE  OpType'
  BY <1>1, <1>11 DEF Enter, Completed, Take, Sleep, GetThreadCompletion
<1>12. ASSUME NEW t \in Threads, RunApc(t) PROVE OpType'
  BY <1>0, <1>12 DEF OpType, RunApc
<1>13. ASSUME NEW t \in Threads, Tell(t) PROVE OpType'
  <2>1. cur[t] \in Ops
    BY <1>13 DEF Tell, CurInv
  <2>2. UNCHANGED <<owner, sock, result, started>> /\ pending' \in [Ops -> BOOLEAN]
    BY <1>0, <1>13 DEF Tell, OpType
  <2>3. CASE result[cur[t]] = "again"
    BY <1>0, <1>13, <2>2, <2>3 DEF Tell, OpType
  <2>4. CASE result[cur[t]] # "again"
    <3>1. /\ state' = [state EXCEPT ![cur[t]] = "done"]
          /\ status' = [status EXCEPT ![cur[t]] = "alerted"] /\ stale' = [stale EXCEPT ![cur[t]] = FALSE]
          /\ \E n \in {0, 1} : told' = [told EXCEPT ![cur[t]] = @ + n]
      BY <1>13, <2>4 DEF Tell, Finish
    <3>2. told' \in [Ops -> Nat]
      <4>1. PICK n \in {0, 1} : told' = [told EXCEPT ![cur[t]] = @ + n]
        BY <3>1
      <4>2. told \in [Ops -> Nat]
        BY <1>0 DEF OpType
      <4> QED BY <2>1, <4>1, <4>2
    <3> QED BY <1>0, <2>2, <3>1, <3>2 DEF OpType
  <2> QED BY <2>3, <2>4
<1>14. ASSUME NEW t \in Threads, Report(t) PROVE OpType'
  <2>1. cur[t] \in Ops
    BY <1>14 DEF Report, CurInv
  <2>2. UNCHANGED <<owner, sock, result, started>> /\ pending' \in [Ops -> BOOLEAN]
    BY <1>0, <1>14 DEF Report, OpType
  <2>3. CASE result[cur[t]] = "again"
    BY <1>0, <1>14, <2>2, <2>3 DEF Report, OpType
  <2>4. CASE result[cur[t]] # "again"
    <3>1. /\ state' = [state EXCEPT ![cur[t]] = "done"]
          /\ status' = [status EXCEPT ![cur[t]] = "alerted"] /\ stale' = [stale EXCEPT ![cur[t]] = FALSE]
          /\ \E n \in {0, 1} : told' = [told EXCEPT ![cur[t]] = @ + n]
      BY <1>14, <2>4 DEF Report, Finish
    <3>2. told' \in [Ops -> Nat]
      <4>1. PICK n \in {0, 1} : told' = [told EXCEPT ![cur[t]] = @ + n]
        BY <3>1
      <4>2. told \in [Ops -> Nat]
        BY <1>0 DEF OpType
      <4> QED BY <2>1, <4>1, <4>2
    <3> QED BY <1>0, <2>2, <3>1, <3>2 DEF OpType
  <2> QED BY <2>3, <2>4
<1>15. ASSUME Poll PROVE OpType'
  BY <1>4, <1>15 DEF Poll
<1>16. ASSUME NEW o \in Ops, GrowStale(o) PROVE OpType'
  BY <1>0, <1>16 DEF OpType, GrowStale
<1>17. ASSUME NEW s \in Socks, Arrive(s) PROVE OpType'
  BY <1>1, <1>17 DEF Arrive
<1>18. ASSUME UNCHANGED vars PROVE OpType'
  BY <1>1, <1>18 DEF vars
<1> QED BY <1>2, <1>3, <1>5, <1>6, <1>7, <1>8, <1>9, <1>10, <1>11, <1>12, <1>13, <1>14, <1>15,
           <1>16, <1>17, <1>18 DEF Next, Calls, Step

LEMMA ListTypeStep == TypeOK /\ ListInv /\ CurInv /\ [Next]_vars => ListType'
<1> SUFFICES ASSUME TypeOK, ListInv, CurInv, [Next]_vars PROVE ListType'
  OBVIOUS
<1>0. ListType
  BY TypeParts
<1>1. ASSUME UNCHANGED list PROVE ListType'
  BY <1>0, <1>1 DEF ListType
<1>2. ASSUME NEW o \in Ops, state[o] = "idle", list' = Append(list, o) PROVE ListType'
  BY <1>2, AddFacts DEF ListType
<1>3. ASSUME NEW t \in Threads, NEW o \in Ops, NEW s \in Socks, Recv(t, o, s) PROVE ListType'
  BY <1>2, <1>3 DEF Recv, Create
<1>4. ASSUME NEW t \in Threads, NEW o \in Ops, NEW s \in Socks, Accept(t, o, s) PROVE ListType'
  BY <1>1, <1>2, <1>4 DEF Accept, Create
<1>5. ASSUME NEW o \in Ops, NEW pend \in BOOLEAN, Finish(o, pend) PROVE ListType'
  BY <1>5, FinishFacts DEF ListType
<1>6. ASSUME NEW t \in Threads, Tell(t) PROVE ListType'
  <2>1. cur[t] \in Ops
    BY <1>6 DEF Tell, CurInv
  <2> QED BY <1>1, <1>5, <1>6, <2>1 DEF Tell
<1>7. ASSUME NEW t \in Threads, Report(t) PROVE ListType'
  <2>1. cur[t] \in Ops
    BY <1>7 DEF Report, CurInv
  <2>2. pending[cur[t]] \in BOOLEAN
    BY <2>1 DEF TypeOK
  <2> QED BY <1>1, <1>5, <1>7, <2>1, <2>2 DEF Report
<1>8. ASSUME NEW t \in Threads, NEW s \in Socks, Cancel(t, s) \/ CloseSock(t, s) PROVE ListType'
  BY <1>1, <1>8 DEF Cancel, CloseSock
<1>9. ASSUME NEW t \in Threads, RemoveCompletion(t) \/ WaitOther(t) \/ ClosePort(t) \/ EndThread(t)
      PROVE  ListType'
  BY <1>1, <1>9 DEF RemoveCompletion, WaitOther, ClosePort, EndThread, asyncVars
<1>10. ASSUME NEW t \in Threads, NEW p \in Posts, AddCompletion(t, p) PROVE ListType'
  BY <1>1, <1>10 DEF AddCompletion, asyncVars
<1>11. ASSUME NEW t \in Threads, Try(t) \/ Callback(t) \/ RunApc(t) PROVE ListType'
  BY <1>1, <1>11 DEF Try, Callback, RunApc
<1>12. ASSUME NEW t \in Threads, Enter(t) \/ Completed(t) \/ Take(t) \/ Sleep(t) \/ GetThreadCompletion(t)
       PROVE  ListType'
  BY <1>1, <1>12 DEF Enter, Completed, Take, Sleep, GetThreadCompletion, asyncVars
<1>13. ASSUME Poll PROVE ListType'
  BY <1>1, <1>13 DEF Poll
<1>14. ASSUME NEW o \in Ops, GrowStale(o) PROVE ListType'
  BY <1>1, <1>14 DEF GrowStale
<1>15. ASSUME NEW s \in Socks, Arrive(s) PROVE ListType'
  BY <1>1, <1>15 DEF Arrive, asyncVars
<1>16. ASSUME UNCHANGED vars PROVE ListType'
  BY <1>1, <1>16 DEF vars, asyncVars
<1> QED BY <1>3, <1>4, <1>6, <1>7, <1>8, <1>9, <1>10, <1>11, <1>12, <1>13, <1>14, <1>15, <1>16
        DEF Next, Calls, Step

LEMMA SockTypeStep == TypeOK /\ StreamInv /\ CurInv /\ [Next]_vars => SockType'
<1> SUFFICES ASSUME TypeOK, StreamInv, CurInv, [Next]_vars PROVE SockType'
  OBVIOUS
<1>0. SockType /\ MaxArrivals \in Nat /\ MaxCancels \in Nat
  BY TypeParts, AsyncAssumption
<1>1. ASSUME UNCHANGED <<sockVars, got>> PROVE SockType'
  BY <1>0, <1>1 DEF SockType, sockVars
<1>2. ASSUME NEW s, Readable(s) PROVE s \in Socks /\ taken[s] + 1 \in 0..MaxArrivals
  BY <1>0, <1>2 DEF Readable, SockType
<1>3. ASSUME NEW t \in Threads, NEW o \in Ops, NEW s \in Socks, Recv(t, o, s) PROVE SockType'
  BY <1>1, <1>3 DEF Recv
<1>4. ASSUME NEW t \in Threads, NEW o \in Ops, NEW s \in Socks, Accept(t, o, s) PROVE SockType'
  BY <1>0, <1>2, <1>4, ZenonT(40) DEF SockType, Accept
<1>5. ASSUME NEW o \in Ops, ReadNow(o) \/ UNCHANGED <<taken, got>>, UNCHANGED <<open, arrived, cancels>>
      PROVE  SockType'
  BY <1>0, <1>2, <1>5 DEF SockType, ReadNow
<1>6. ASSUME NEW t \in Threads, Try(t) PROVE SockType'
  BY <1>5, <1>6 DEF Try, CurInv
<1>7. ASSUME NEW t \in Threads, Callback(t) PROVE SockType'
  <2>1. cur[t] \in Ops
    BY <1>7 DEF Callback, CurInv
  <2>2. (ReadNow(cur[t]) \/ UNCHANGED <<taken, got>>) /\ UNCHANGED <<open, arrived, cancels>>
    BY <1>7 DEF Callback
  <2> QED BY <1>5, <2>1, <2>2
<1>8. ASSUME Poll PROVE SockType'
  <2> DEFINE accepts == {o \in Fired : sock[o] \in Listeners}
  <2>1. /\ got' = [o \in Ops |-> IF o \in accepts THEN taken[sock[o]] + 1 ELSE got[o]]
        /\ taken' = [s \in Socks |-> IF \E o \in accepts : sock[o] = s THEN taken[s] + 1 ELSE taken[s]]
        /\ UNCHANGED <<open, arrived, cancels>>
    BY <1>8 DEF Poll, Fired
  <2>2. \A o \in accepts : sock[o] \in Socks /\ taken[sock[o]] + 1 \in 0..MaxArrivals
    <3> TAKE o \in accepts
    <3>1. sock[o] \in Socks /\ sock[o] \in open /\ taken[sock[o]] < arrived[sock[o]]
      BY FiredFacts
    <3> QED BY <1>0, <3>1 DEF SockType
  <2> HIDE DEF accepts
  <2>3. got' \in [Ops -> 0..MaxArrivals]
    BY <1>0, <2>1, <2>2 DEF SockType
  <2>4. taken' \in [Socks -> 0..MaxArrivals]
    BY <1>0, <2>1, <2>2 DEF SockType
  <2> QED BY <1>0, <2>1, <2>3, <2>4 DEF SockType
<1>9. ASSUME NEW t \in Threads, NEW s \in Socks, Cancel(t, s) PROVE SockType'
  BY <1>0, <1>9 DEF SockType, Cancel
<1>10. ASSUME NEW t \in Threads, NEW s \in Socks, CloseSock(t, s) PROVE SockType'
  BY <1>0, <1>10 DEF SockType, CloseSock
<1>11. ASSUME NEW s \in Socks, Arrive(s) PROVE SockType'
  BY <1>0, <1>11 DEF SockType, Arrive, asyncVars
<1>12. ASSUME NEW t \in Threads, RemoveCompletion(t) \/ WaitOther(t) \/ ClosePort(t) \/ EndThread(t)
       PROVE  SockType'
  BY <1>1, <1>12 DEF RemoveCompletion, WaitOther, ClosePort, EndThread, asyncVars
<1>13. ASSUME NEW t \in Threads, NEW p \in Posts, AddCompletion(t, p) PROVE SockType'
  BY <1>1, <1>13 DEF AddCompletion, asyncVars
<1>14. ASSUME NEW t \in Threads, Tell(t) \/ Report(t) \/ RunApc(t) PROVE SockType'
  BY <1>1, <1>14 DEF Tell, Report, RunApc
<1>15. ASSUME NEW t \in Threads, Enter(t) \/ Completed(t) \/ Take(t) \/ Sleep(t) \/ GetThreadCompletion(t)
       PROVE  SockType'
  BY <1>1, <1>15 DEF Enter, Completed, Take, Sleep, GetThreadCompletion, asyncVars
<1>16. ASSUME NEW o \in Ops, GrowStale(o) PROVE SockType'
  BY <1>1, <1>16 DEF GrowStale
<1>17. ASSUME UNCHANGED vars PROVE SockType'
  BY <1>1, <1>17 DEF vars, asyncVars
<1> QED BY <1>3, <1>4, <1>6, <1>7, <1>8, <1>9, <1>10, <1>11, <1>12, <1>13, <1>14, <1>15, <1>16, <1>17
        DEF Next, Calls, Step

\* Making operations ready only wakes.
LEMMA ReadyPort ==
    ASSUME TypeOK, NEW S, NEW st, MakeReady(S, st), UNCHANGED <<port, portOpen, msg, posts>>
    PROVE  PortStep
<1>1. notified' \in [Threads -> BOOLEAN] /\ \A t \in Threads : notified[t] => notified'[t]
  BY DEF MakeReady, NotifyAsync, TypeOK
<1>2. \A p \in Packets : InPort(p)' = InPort(p) /\ InWait(p)' = InWait(p)
  BY DEF InPort, InWait
<1> QED BY <1>1, <1>2 DEF PortStep, TypeOK

\* The actions that change the port's side as PortStep says.
LEMMA PortSteps ==
    ASSUME TypeOK, CurInv
    PROVE  /\ \A t \in Threads, o \in Ops, s \in Socks : Accept(t, o, s) => PortStep
           /\ \A t \in Threads : Tell(t) \/ Report(t) => PortStep
           /\ \A t \in Threads, s \in Socks : Cancel(t, s) \/ CloseSock(t, s) => PortStep
           /\ \A t \in Threads, p \in Posts : AddCompletion(t, p) => PortStep
           /\ \A t \in Threads : ClosePort(t) => PortStep
           /\ Poll => PortStep
<1>0. Ops \subseteq Packets /\ Posts \subseteq Packets
  BY DEF Packets
<1>1. ASSUME NEW t \in Threads, NEW o \in Ops, NEW s \in Socks, Accept(t, o, s) PROVE PortStep
  <2>1. Post(o) \/ UNCHANGED portVars
    BY <1>1 DEF Accept
  <2> QED BY <1>0, <2>1, PostFacts, PortSame
<1>2. ASSUME NEW t \in Threads, Tell(t) PROVE PortStep
  <2>1. cur[t] \in Ops
    BY <1>2 DEF Tell, CurInv
  <2>2. Finish(cur[t], FALSE) \/ UNCHANGED portVars
    BY <1>2 DEF Tell
  <2> QED BY <2>1, <2>2, FinishFacts, PortSame
<1>3. ASSUME NEW t \in Threads, Report(t) PROVE PortStep
  <2>1. cur[t] \in Ops
    BY <1>3 DEF Report, CurInv
  <2>2. Finish(cur[t], pending[cur[t]]) \/ UNCHANGED portVars
    BY <1>3 DEF Report
  <2>3. pending[cur[t]] \in BOOLEAN
    BY <2>1 DEF TypeOK
  <2> QED BY <2>1, <2>2, <2>3, FinishFacts, PortSame
<1>4. ASSUME NEW t \in Threads, NEW s \in Socks, Cancel(t, s) \/ CloseSock(t, s) PROVE PortStep
  <2>1. (\E S, st : MakeReady(S, st)) /\ UNCHANGED <<port, portOpen, msg, posts>>
    BY <1>4 DEF Cancel, CloseSock
  <2> QED BY <2>1, ReadyPort
<1>5. ASSUME NEW t \in Threads, NEW p \in Posts, AddCompletion(t, p) PROVE PortStep
  BY <1>0, <1>5, PostFacts DEF AddCompletion
<1>6. ASSUME Poll PROVE PortStep
  <2>1. MakeReady(Fired, "alerted") /\ UNCHANGED <<port, portOpen, msg, posts>>
    BY <1>6 DEF Poll, Fired
  <2> QED BY <2>1, ReadyPort
<1> QED BY <1>1, <1>2, <1>3, <1>4, <1>5, <1>6, CloseFacts

LEMMA OneMore ==
    ASSUME NEW S, NEW f \in [S -> Nat], NEW x
    PROVE  [f EXCEPT ![x] = @ + 1] \in [S -> Nat]
<1>1. CASE x \in S
  BY <1>1
<1>2. CASE x \notin S
  BY <1>2
<1> QED BY <1>1, <1>2

LEMMA PortTypeStep == TypeOK /\ CurInv /\ [Next]_vars => PortType'
<1> SUFFICES ASSUME TypeOK, CurInv, [Next]_vars PROVE PortType'
  OBVIOUS
<1>0. PortType
  BY TypeParts
<1>1. ASSUME UNCHANGED <<portVars, received>> PROVE PortType'
  BY <1>0, <1>1 DEF PortType, portVars
<1>2. ASSUME PortStep, received' = received PROVE PortType'
  BY <1>0, <1>2 DEF PortType, PortStep
<1>3. ASSUME NEW t \in Threads, NEW o \in Ops, NEW s \in Socks, Recv(t, o, s) PROVE PortType'
  BY <1>1, <1>3 DEF Recv
<1>4. ASSUME NEW t \in Threads, NEW o \in Ops, NEW s \in Socks, Accept(t, o, s) PROVE PortType'
  BY <1>2, <1>4, PortSteps DEF Accept
<1>5. ASSUME NEW t \in Threads, NEW s \in Socks, Cancel(t, s) \/ CloseSock(t, s) PROVE PortType'
  BY <1>2, <1>5, PortSteps DEF Cancel, CloseSock
<1>6. ASSUME NEW t \in Threads, NEW p \in Posts, AddCompletion(t, p) PROVE PortType'
  BY <1>2, <1>6, PortSteps DEF AddCompletion
<1>7. ASSUME NEW t \in Threads, ClosePort(t) PROVE PortType'
  BY <1>2, <1>7, PortSteps DEF ClosePort
<1>8. ASSUME NEW t \in Threads, Tell(t) \/ Report(t) PROVE PortType'
  BY <1>2, <1>8, PortSteps DEF Tell, Report
<1>9. ASSUME Poll PROVE PortType'
  BY <1>2, <1>9, PortSteps DEF Poll
<1>10. ASSUME NEW t \in Threads, WaitOther(t) \/ EndThread(t) \/ Try(t) \/ Enter(t) \/ Callback(t)
       PROVE  PortType'
  BY <1>1, <1>10 DEF WaitOther, EndThread, Try, Enter, Callback
<1>11. ASSUME NEW t \in Threads, RemoveCompletion(t) PROVE PortType'
  <2>1. UNCHANGED <<portOpen, msg, notified, posts>>
    BY <1>11 DEF RemoveCompletion
  <2>2. CASE port = <<>>
    BY <1>0, <1>11, <2>1, <2>2 DEF RemoveCompletion, PortType
  <2>3. CASE port # <<>>
    <3>1. received' = [received EXCEPT ![Head(port)] = @ + 1] /\ port' = Tail(port)
      BY <1>11, <2>3 DEF RemoveCompletion
    <3>2. port' \in Seq(Packets)
      BY <1>0, <2>3, <3>1 DEF PortType
    <3>3. received' \in [Packets -> Nat]
      BY <1>0, <3>1, OneMore DEF PortType
    <3> QED BY <1>0, <2>1, <3>2, <3>3 DEF PortType
  <2> QED BY <2>2, <2>3
<1>12. ASSUME NEW t \in Threads, Completed(t) \/ RunApc(t) \/ Sleep(t) PROVE PortType'
  BY <1>0, <1>12 DEF Completed, RunApc, Sleep, Leave, PortType
<1>13. ASSUME NEW t \in Threads, Take(t) PROVE PortType'
  <2>1. notified' = [notified EXCEPT ![t] = FALSE] /\ UNCHANGED <<portOpen, posts, received>>
    BY <1>13 DEF Take, Leave
  <2>2. CASE portOpen
    <3>1. port # <<>> /\ msg' = [msg EXCEPT ![t] = Head(port)] /\ port' = Tail(port)
      BY <1>13, <2>2 DEF Take
    <3>2. Head(port) \in Packets /\ port' \in Seq(Packets)
      BY <1>0, <3>1 DEF PortType
    <3> QED BY <1>0, <2>1, <3>1, <3>2 DEF PortType
  <2>3. CASE ~portOpen
    BY <1>0, <1>13, <2>1, <2>3 DEF Take, PortType
  <2> QED BY <2>2, <2>3
<1>14. ASSUME NEW t \in Threads, GetThreadCompletion(t) PROVE PortType'
  <2>1. /\ received' = [received EXCEPT ![msg[t]] = @ + 1] /\ msg' = [msg EXCEPT ![t] = None]
        /\ UNCHANGED <<port, portOpen, notified, posts>>
    BY <1>14 DEF GetThreadCompletion
  <2>2. received' \in [Packets -> Nat]
    BY <1>0, <2>1, OneMore DEF PortType
  <2> QED BY <1>0, <2>1, <2>2 DEF PortType
<1>15. ASSUME NEW o \in Ops, GrowStale(o) PROVE PortType'
  BY <1>1, <1>15 DEF GrowStale
<1>16. ASSUME NEW s \in Socks, Arrive(s) PROVE PortType'
  BY <1>1, <1>16 DEF Arrive
<1>17. ASSUME UNCHANGED vars PROVE PortType'
  BY <1>1, <1>17 DEF vars
<1> QED BY <1>3, <1>4, <1>5, <1>6, <1>7, <1>8, <1>9, <1>10, <1>11, <1>12, <1>13, <1>14, <1>15, <1>16, <1>17
        DEF Next, Calls, Step

LEMMA WaitTypeStep == TypeOK /\ CurInv /\ [Next]_vars => WaitType'
<1> SUFFICES ASSUME TypeOK, CurInv, [Next]_vars PROVE WaitType'
  OBVIOUS
<1>0. WaitType
  BY TypeParts
<1>1. ASSUME UNCHANGED waitVars PROVE WaitType'
  BY <1>0, <1>1 DEF WaitType, waitVars
<1>2. ASSUME NEW t \in Threads, NEW p, Leave(t, p), onPort' = onPort PROVE WaitType'
  BY <1>0, <1>2, LeaveFacts DEF WaitType, Leave
<1>3. ASSUME NEW t \in Threads, Completed(t) \/ RunApc(t) \/ Take(t) PROVE WaitType'
  BY <1>2, <1>3 DEF Completed, RunApc, Take
<1>4. ASSUME NEW t \in Threads, Sleep(t) PROVE WaitType'
  <2>1. CASE Leave(t, "idle")
    BY <1>2, <1>4, <2>1 DEF Sleep
  <2>2. CASE t \notin ToSet(waiters) /\ waiters' = Append(waiters, t)
    <3>1. waiters' \in Seq(Threads) /\ IsInjective(waiters')
      <4>1. waiters \in Seq(Threads) /\ IsInjective(waiters)
        BY <1>0 DEF WaitType
      <4>2. /\ Append(waiters, t) \in Seq(Threads) /\ DOMAIN Append(waiters, t) = 1..(Len(waiters) + 1)
            /\ Append(waiters, t)[Len(waiters) + 1] = t /\ Len(waiters) \in Nat
            /\ \A i \in 1..Len(waiters) : Append(waiters, t)[i] = waiters[i]
            /\ DOMAIN waiters = 1..Len(waiters)
        BY <4>1
      <4>3. \A i \in 1..Len(waiters) : waiters[i] # t
        BY <2>2, <4>2 DEF ToSet
      <4> QED BY <2>2, <4>1, <4>2, <4>3 DEF IsInjective
    <3>2. onPort' = onPort
      BY <1>4 DEF Sleep
    <3> QED BY <1>0, <3>1, <3>2 DEF WaitType
  <2>3. CASE waiters' = waiters
    BY <1>0, <1>4, <2>3 DEF Sleep, WaitType
  <2> QED BY <1>4, <2>1, <2>2, <2>3 DEF Sleep
<1>5. ASSUME NEW t \in Threads, RemoveCompletion(t) \/ WaitOther(t) PROVE WaitType'
  BY <1>0, <1>5 DEF WaitType, RemoveCompletion, WaitOther
<1>6. ASSUME NEW t \in Threads, NEW o \in Ops, NEW s \in Socks, Recv(t, o, s) \/ Accept(t, o, s)
      PROVE  WaitType'
  BY <1>1, <1>6 DEF Recv, Accept
<1>7. ASSUME NEW t \in Threads, NEW s \in Socks, Cancel(t, s) \/ CloseSock(t, s) PROVE WaitType'
  BY <1>1, <1>7 DEF Cancel, CloseSock
<1>8. ASSUME NEW t \in Threads, NEW p \in Posts, AddCompletion(t, p) PROVE WaitType'
  BY <1>1, <1>8 DEF AddCompletion
<1>9. ASSUME NEW t \in Threads, ClosePort(t) \/ EndThread(t) \/ Try(t) \/ Tell(t) \/ Enter(t) \/ Callback(t)
                                \/ Report(t) \/ GetThreadCompletion(t)
      PROVE  WaitType'
  BY <1>1, <1>9 DEF ClosePort, EndThread, Try, Tell, Enter, Callback, Report, GetThreadCompletion
<1>10. ASSUME Poll PROVE WaitType'
  BY <1>1, <1>10 DEF Poll
<1>11. ASSUME NEW o \in Ops, GrowStale(o) PROVE WaitType'
  BY <1>1, <1>11 DEF GrowStale
<1>12. ASSUME NEW s \in Socks, Arrive(s) PROVE WaitType'
  BY <1>1, <1>12 DEF Arrive
<1>13. ASSUME UNCHANGED vars PROVE WaitType'
  BY <1>1, <1>13 DEF vars
<1> QED BY <1>3, <1>4, <1>5, <1>6, <1>7, <1>8, <1>9, <1>10, <1>11, <1>12, <1>13 DEF Next, Calls, Step

\* Every step keeps the types.
LEMMA TypeStep == TypeOK /\ ListInv /\ StreamInv /\ CurInv /\ [Next]_vars => TypeOK'
BY TypeParts, ThreadTypeStep, OpTypeStep, ListTypeStep, SockTypeStep, PortTypeStep, WaitTypeStep

-----------------------------------------------------------------------------
(* The life of an operation.                                                *)

\* A cancel, a close and a pass of the poller make waiting operations ready.
Waiting == {o \in Ops : state[o] \in {"queued", "ready"}}

LEMMA ReadyActs ==
    ASSUME TypeOK
    PROVE  /\ \A t \in Threads, s \in Socks : Cancel(t, s) \/ CloseSock(t, s) =>
                 \E S \in SUBSET Waiting, st \in {"cancelled", "closed"} : MakeReady(S, st)
           /\ Poll => Fired \in SUBSET Waiting /\ MakeReady(Fired, "alerted")
           /\ \A t \in Threads, s \in Socks : Cancel(t, s) \/ CloseSock(t, s) \/ Poll =>
                 UNCHANGED <<list, owner, sock, pending, result, started, port, portOpen, msg, posts,
                             waitVars, pc, cur, received, told>>
<1>1. \A s : Cancellable(s) \in SUBSET Waiting /\ \A o \in Cancellable(s) : {o} \in SUBSET Waiting
  BY DEF Cancellable, Waiting
<1>2. ASSUME NEW t \in Threads, NEW s \in Socks, Cancel(t, s)
      PROVE  \E S \in SUBSET Waiting, st \in {"cancelled", "closed"} : MakeReady(S, st)
  <2>1. PICK S \in {Cancellable(s), {o \in Cancellable(s) : owner[o] = t}}
                   \cup {{o} : o \in Cancellable(s)} : MakeReady(S, "cancelled")
    BY <1>2 DEF Cancel
  <2>2. S \in SUBSET Waiting
    BY <1>1, <2>1
  <2> QED BY <2>1, <2>2
<1>3. ASSUME NEW t \in Threads, NEW s \in Socks, CloseSock(t, s)
      PROVE  \E S \in SUBSET Waiting, st \in {"cancelled", "closed"} : MakeReady(S, st)
  <2>1. MakeReady(Cancellable(s), "cancelled") \/ MakeReady(Cancellable(s), "closed")
    BY <1>3 DEF CloseSock
  <2> QED BY <1>1, <2>1
<1>4. ASSUME Poll PROVE Fired \in SUBSET Waiting /\ MakeReady(Fired, "alerted")
  <2>1. MakeReady(Fired, "alerted")
    BY <1>4 DEF Poll, Fired
  <2>2. \A o \in Fired : o \in Waiting
    BY FiredFacts DEF Waiting
  <2> QED BY <2>1, <2>2
<1>5. \A t \in Threads, s \in Socks : Cancel(t, s) \/ CloseSock(t, s) \/ Poll =>
         UNCHANGED <<list, owner, sock, pending, result, started, port, portOpen, msg, posts,
                     waitVars, pc, cur, received, told>>
  BY DEF Cancel, CloseSock, Poll
<1> QED BY <1>2, <1>3, <1>4, <1>5

\* What making them ready does to the states.
LEMMA ReadyStates ==
    ASSUME TypeOK, NEW S \in SUBSET Waiting, NEW st, MakeReady(S, st)
    PROVE  /\ \A o \in S : o \in Ops /\ state[o] \in {"queued", "ready"} /\ state'[o] = "ready"
           /\ \A o \in Ops : o \notin S => state'[o] = state[o]
BY DEF MakeReady, Waiting, TypeOK

\* The operation a thread runs next is ready.
LEMMA RunStates ==
    ASSUME TypeOK, NEW t \in Threads, RunApc(t)
    PROVE  \E o \in Ops : /\ state[o] = "ready" /\ (owner[o] = t \/ stale[o])
                          /\ state' = [state EXCEPT ![o] = "running"]
                          /\ cur' = [cur EXCEPT ![t] = o] /\ pc' = [pc EXCEPT ![t] = "run"]
                          /\ pc[t] = "body"
<1>1. Head(ReadyFor(t)) \in ReadyOps(t)
  BY ReadyForFacts DEF RunApc
<1>2. ReadyOps(t) \subseteq Ops
  BY DEF ReadyOps, TypeOK, ToSet
<1> QED BY <1>1, <1>2 DEF RunApc, Leave, Goto, ReadyOps

\* What Tell and Report do to the operation.
LEMMA EndStates ==
    ASSUME TypeOK, CurInv, NEW t \in Threads, Tell(t) \/ Report(t)
    PROVE  /\ cur[t] \in Ops /\ pending[cur[t]] \in BOOLEAN
           /\ state[cur[t]] = IF pc[t] = "tell" THEN "direct" ELSE "running"
           /\ cur' = [cur EXCEPT ![t] = None]
           /\ \/ /\ pc[t] = "tell" /\ pc' = [pc EXCEPT ![t] = "idle"]
                 /\ pending' = IF result[cur[t]] = "again" THEN [pending EXCEPT ![cur[t]] = TRUE] ELSE pending
                 /\ result[cur[t]] # "again" => Finish(cur[t], FALSE)
              \/ /\ pc[t] = "report" /\ pc' = [pc EXCEPT ![t] = "body"]
                 /\ pending' = pending
                 /\ result[cur[t]] # "again" => Finish(cur[t], pending[cur[t]])
           /\ result[cur[t]] = "again" =>
                 /\ state' = [state EXCEPT ![cur[t]] = "queued"]
                 /\ UNCHANGED <<list, portVars, told>>
           /\ result[cur[t]] # "again" => state' = [state EXCEPT ![cur[t]] = "done"]
           /\ UNCHANGED <<owner, sock, got, result, started, sockVars, waitVars, received>>
<1>1. cur[t] \in Ops /\ state[cur[t]] = IF pc[t] = "tell" THEN "direct" ELSE "running"
  BY DEF Tell, Report, CurInv
<1>2. pending[cur[t]] \in BOOLEAN
  BY <1>1 DEF TypeOK
<1>3. CASE Tell(t)
  BY <1>1, <1>2, <1>3 DEF Tell, Finish, Goto
<1>4. CASE Report(t)
  BY <1>1, <1>2, <1>4 DEF Report, Finish, Goto
<1> QED BY <1>3, <1>4

LEMMA ListStep == TypeOK /\ ListInv /\ CurInv /\ [Next]_vars => ListInv'
<1> SUFFICES ASSUME TypeOK, ListInv, CurInv, [Next]_vars PROVE ListInv'
  OBVIOUS
<1>1. ASSUME list' = list, \A o \in Ops : state'[o] \in Active <=> state[o] \in Active PROVE ListInv'
  BY <1>1 DEF ListInv
<1>2. ASSUME NEW o \in Ops, state[o] = "idle", list' = Append(list, o), NEW st \in Active,
             state' = [state EXCEPT ![o] = st]
      PROVE  ListInv'
  <2>1. ToSet(list') = ToSet(list) \cup {o}
    BY <1>2, AddFacts
  <2>2. \A x \in Ops : state'[x] = IF x = o THEN st ELSE state[x]
    BY <1>2 DEF TypeOK
  <2> QED BY <1>2, <2>1, <2>2 DEF ListInv
<1>3. ASSUME NEW t \in Threads, NEW o \in Ops, NEW s \in Socks, Recv(t, o, s) PROVE ListInv'
  BY <1>2, <1>3 DEF Recv, Create, Active
<1>4. ASSUME NEW t \in Threads, NEW o \in Ops, NEW s \in Socks, Accept(t, o, s) PROVE ListInv'
  <2>1. CASE Readable(s)
    <3>1. state[o] = "idle" /\ state' = [state EXCEPT ![o] = "done"] /\ list' = list
      BY <1>4, <2>1 DEF Accept, Create
    <3> QED BY <1>1, <3>1 DEF TypeOK, Active
  <2>2. CASE ~Readable(s)
    BY <1>2, <1>4, <2>2 DEF Accept, Create, Active
  <2> QED BY <2>1, <2>2
<1>5. ASSUME NEW S \in SUBSET Waiting, NEW st, MakeReady(S, st), list' = list PROVE ListInv'
  BY <1>1, <1>5, ReadyStates DEF Active
<1>6. ASSUME NEW t \in Threads, NEW s \in Socks, Cancel(t, s) \/ CloseSock(t, s) PROVE ListInv'
  BY <1>5, <1>6, ReadyActs
<1>7. ASSUME Poll PROVE ListInv'
  BY <1>5, <1>7, ReadyActs DEF Poll
<1>8. ASSUME NEW t \in Threads, Tell(t) \/ Report(t) PROVE ListInv'
  <2>1. CASE result[cur[t]] = "again"
    <3>1. /\ cur[t] \in Ops /\ state[cur[t]] \in Active /\ list' = list
          /\ state' = [state EXCEPT ![cur[t]] = "queued"]
      BY <1>8, <2>1, EndStates DEF Active
    <3> QED BY <1>1, <3>1 DEF TypeOK, Active
  <2>2. CASE result[cur[t]] # "again"
    <3>1. /\ cur[t] \in Ops /\ state' = [state EXCEPT ![cur[t]] = "done"]
          /\ \E pend \in BOOLEAN : Finish(cur[t], pend)
      BY <1>8, <2>2, EndStates
    <3>2. ToSet(list') = ToSet(list) \ {cur[t]}
      BY <3>1, FinishFacts
    <3> QED BY <3>1, <3>2 DEF ListInv, TypeOK, Active
  <2> QED BY <2>1, <2>2
<1>9. ASSUME NEW t \in Threads, RunApc(t) PROVE ListInv'
  <2>1. PICK o \in Ops : state[o] = "ready" /\ state' = [state EXCEPT ![o] = "running"]
    BY <1>9, RunStates
  <2>2. list' = list
    BY <1>9 DEF RunApc
  <2> QED BY <1>1, <2>1, <2>2 DEF TypeOK, Active
<1>10. ASSUME UNCHANGED <<list, state>> PROVE ListInv'
  BY <1>1, <1>10
<1>11. ASSUME NEW t \in Threads, \/ RemoveCompletion(t) \/ WaitOther(t) \/ ClosePort(t) \/ EndThread(t)
                                 \/ Try(t) \/ Callback(t) \/ Enter(t) \/ Completed(t) \/ Take(t)
                                 \/ Sleep(t) \/ GetThreadCompletion(t)
       PROVE  ListInv'
  BY <1>10, <1>11 DEF RemoveCompletion, WaitOther, ClosePort, EndThread, Try, Callback, Enter,
                      Completed, Take, Sleep, GetThreadCompletion, asyncVars
<1>12. ASSUME NEW t \in Threads, NEW p \in Posts, AddCompletion(t, p) PROVE ListInv'
  BY <1>10, <1>12 DEF AddCompletion, asyncVars
<1>13. ASSUME NEW o \in Ops, GrowStale(o) PROVE ListInv'
  BY <1>10, <1>13 DEF GrowStale
<1>14. ASSUME NEW s \in Socks, Arrive(s) PROVE ListInv'
  BY <1>10, <1>14 DEF Arrive, asyncVars
<1>15. ASSUME UNCHANGED vars PROVE ListInv'
  BY <1>10, <1>15 DEF vars, asyncVars
<1> QED BY <1>3, <1>4, <1>6, <1>7, <1>8, <1>9, <1>11, <1>12, <1>13, <1>14, <1>15 DEF Next, Calls, Step

\* A new operation.
LEMMA CreateStates ==
    ASSUME TypeOK, NEW t \in Threads, NEW o \in Ops, NEW s \in Socks,
           Recv(t, o, s) \/ Accept(t, o, s)
    PROVE  /\ pc[t] = "idle" /\ state[o] = "idle" /\ s \in open
           /\ owner' = [owner EXCEPT ![o] = t] /\ sock' = [sock EXCEPT ![o] = s]
           /\ started' = Append(started, o) /\ UNCHANGED <<status, stale>>
           /\ \/ /\ Recv(t, o, s) /\ s \notin Listeners
                 /\ state' = [state EXCEPT ![o] = "direct"]
                 /\ list' = Append(list, o) /\ cur' = [cur EXCEPT ![t] = o]
                 /\ pc' = [pc EXCEPT ![t] = "try"] /\ UNCHANGED <<pending, got, result, taken, arrived>>
              \/ /\ Accept(t, o, s) /\ s \in Listeners /\ Readable(s)
                 /\ state' = [state EXCEPT ![o] = "done"]
                 /\ taken' = [taken EXCEPT ![s] = @ + 1]
                 /\ got' = [got EXCEPT ![o] = taken[s] + 1]
                 /\ result' = [result EXCEPT ![o] = "ok"]
                 /\ UNCHANGED <<list, pending, pc, cur, arrived>>
              \/ /\ Accept(t, o, s) /\ s \in Listeners /\ ~Readable(s)
                 /\ state' = [state EXCEPT ![o] = "queued"]
                 /\ list' = Append(list, o)
                 /\ pending' = [pending EXCEPT ![o] = TRUE]
                 /\ UNCHANGED <<taken, got, result, pc, cur, arrived>>
<1>1. CASE Recv(t, o, s)
  BY <1>1 DEF Recv, Create, Goto, sockVars
<1>2. CASE Accept(t, o, s)
  <2>1. CASE Readable(s)
    BY <1>2, <2>1 DEF Accept, Create
  <2>2. CASE ~Readable(s)
    BY <1>2, <2>2 DEF Accept, Create
  <2> QED BY <2>1, <2>2
<1> QED BY <1>1, <1>2

\* A read changes the result and what was read of one operation.
LEMMA ReadStates ==
    ASSUME TypeOK, CurInv, NEW t \in Threads, Try(t) \/ Callback(t)
    PROVE  /\ cur[t] \in Ops
           /\ state[cur[t]] = IF pc[t] = "try" THEN "direct" ELSE "running"
           /\ \/ Try(t) /\ pc[t] = "try" /\ pc' = [pc EXCEPT ![t] = "tell"]
              \/ Callback(t) /\ pc[t] = "run" /\ pc' = [pc EXCEPT ![t] = "report"]
           /\ \/ ReadNow(cur[t]) /\ (pc[t] = "run" => status[cur[t]] = "alerted" /\ sock[cur[t]] \notin Listeners)
              \/ /\ pc[t] = "run" /\ UNCHANGED <<taken, got>>
                 /\ \E r \in {"ok", "cancelled", "closed"} :
                      /\ result' = [result EXCEPT ![cur[t]] = r]
                      /\ r = "ok" \/ (status[cur[t]] = r /\ r # "alerted")
                      /\ r = "ok" => sock[cur[t]] \in Listeners
           /\ UNCHANGED <<list, state, owner, sock, pending, status, stale, started, open, arrived,
                          cancels, portVars, waitVars, cur, received, told>>
<1>1. cur[t] \in Ops /\ state[cur[t]] = IF pc[t] = "try" THEN "direct" ELSE "running"
  BY DEF Try, Callback, CurInv
<1>2. status[cur[t]] \in {"alerted", "cancelled", "closed"}
  BY <1>1 DEF TypeOK
<1>3. CASE Try(t)
  BY <1>1, <1>3 DEF Try, Goto
<1>4. CASE Callback(t)
  <2>1. CASE status[cur[t]] # "alerted"
    BY <1>1, <1>2, <1>4, <2>1 DEF Callback, Goto
  <2>2. CASE status[cur[t]] = "alerted" /\ sock[cur[t]] \in Listeners
    BY <1>1, <1>4, <2>2 DEF Callback, Goto
  <2>3. CASE status[cur[t]] = "alerted" /\ sock[cur[t]] \notin Listeners
    BY <1>1, <1>4, <2>3 DEF Callback, Goto
  <2> QED BY <2>1, <2>2, <2>3
<1> QED BY <1>3, <1>4

\* What a read of an operation's socket leaves of the stream.
LEMMA ReadNowFacts ==
    ASSUME TypeOK, NEW o \in Ops, sock[o] \in Socks, ReadNow(o)
    PROVE  \/ /\ taken[sock[o]] < arrived[sock[o]]
              /\ taken' = [taken EXCEPT ![sock[o]] = @ + 1]
              /\ got' = [got EXCEPT ![o] = taken[sock[o]] + 1]
              /\ result' = [result EXCEPT ![o] = "ok"]
           \/ /\ UNCHANGED <<taken, got>>
              /\ \E r \in {"failed", "again"} : result' = [result EXCEPT ![o] = r]
BY DEF ReadNow, Readable

LEMMA OpStep == TypeOK /\ OpInv /\ CurInv /\ [Next]_vars => OpInv'
<1> SUFFICES ASSUME TypeOK, OpInv, CurInv, [Next]_vars PROVE OpInv'
  OBVIOUS
<1> USE DEF Active
<1>0. /\ state \in [Ops -> {"idle", "direct", "queued", "ready", "running", "done"}]
      /\ owner \in [Ops -> Threads \cup {None}] /\ sock \in [Ops -> Socks \cup {None}]
      /\ pending \in [Ops -> BOOLEAN] /\ got \in [Ops -> 0..MaxArrivals]
  BY DEF TypeOK
<1>1. ASSUME NEW t \in Threads, NEW o \in Ops, NEW s \in Socks, Recv(t, o, s) \/ Accept(t, o, s)
      PROVE  OpInv'
  <2>1. /\ state[o] = "idle" /\ owner' = [owner EXCEPT ![o] = t] /\ sock' = [sock EXCEPT ![o] = s]
        /\ \/ /\ s \notin Listeners /\ state' = [state EXCEPT ![o] = "direct"] /\ UNCHANGED <<pending, got>>
           \/ /\ state' = [state EXCEPT ![o] = "done"] /\ pending' = pending
              /\ got' = [got EXCEPT ![o] = taken[s] + 1]
           \/ /\ state' = [state EXCEPT ![o] = "queued"] /\ pending' = [pending EXCEPT ![o] = TRUE]
              /\ UNCHANGED got
    BY <1>1, CreateStates
  <2> QED BY <1>0, <2>1 DEF OpInv
<1>2. ASSUME NEW S \in SUBSET Waiting, NEW st, MakeReady(S, st), UNCHANGED <<owner, sock, pending>>,
             \A o \in Ops : state[o] = "idle" => got'[o] = got[o]
      PROVE  OpInv'
  <2>1. /\ \A o \in S : o \in Ops /\ state[o] \in {"queued", "ready"} /\ state'[o] = "ready"
        /\ \A o \in Ops : o \notin S => state'[o] = state[o]
    BY <1>2, ReadyStates
  <2> QED BY <1>0, <1>2, <2>1 DEF OpInv
<1>3. ASSUME NEW t \in Threads, NEW s \in Socks, Cancel(t, s) \/ CloseSock(t, s) PROVE OpInv'
  <2>1. got' = got
    BY <1>3 DEF Cancel, CloseSock
  <2> QED BY <1>2, <1>3, <2>1, ReadyActs
<1>4. ASSUME Poll PROVE OpInv'
  <2>1. got' = [o \in Ops |-> IF o \in {x \in Fired : sock[x] \in Listeners}
                              THEN taken[sock[o]] + 1 ELSE got[o]]
    BY <1>4 DEF Poll, Fired
  <2>2. \A o \in Ops : state[o] = "idle" => got'[o] = got[o]
    BY <2>1, FiredFacts
  <2>3. UNCHANGED <<owner, sock, pending>>
    BY <1>4 DEF Poll
  <2> QED BY <1>2, <1>4, <2>2, <2>3, ReadyActs
<1>5. ASSUME NEW t \in Threads, Tell(t) \/ Report(t) PROVE OpInv'
  <2>1. /\ cur[t] \in Ops /\ UNCHANGED <<owner, sock, got>>
        /\ state[cur[t]] = IF pc[t] = "tell" THEN "direct" ELSE "running"
        /\ \/ state' = [state EXCEPT ![cur[t]] = "done"] /\ pending' = pending
           \/ /\ state' = [state EXCEPT ![cur[t]] = "queued"]
              /\ \/ pending' = [pending EXCEPT ![cur[t]] = TRUE]
                 \/ pc[t] = "report" /\ pending' = pending
    BY <1>5, EndStates
  <2> QED BY <1>0, <2>1 DEF OpInv
<1>6. ASSUME NEW t \in Threads, RunApc(t) PROVE OpInv'
  <2>1. PICK o \in Ops : state[o] = "ready" /\ state' = [state EXCEPT ![o] = "running"]
    BY <1>6, RunStates
  <2>2. UNCHANGED <<owner, sock, pending, got>>
    BY <1>6 DEF RunApc
  <2> QED BY <1>0, <2>1, <2>2 DEF OpInv
<1>7. ASSUME NEW t \in Threads, Try(t) \/ Callback(t) PROVE OpInv'
  <2>1. cur[t] \in Ops /\ state[cur[t]] # "idle" /\ UNCHANGED <<state, owner, sock, pending>>
    BY <1>7, ReadStates
  <2>2. \A o \in Ops : state[o] = "idle" => got'[o] = got[o]
    <3>1. (\E k : got' = [got EXCEPT ![cur[t]] = k]) \/ got' = got
      BY <1>7, ReadStates DEF ReadNow
    <3> QED BY <1>0, <2>1, <3>1
  <2> QED BY <2>1, <2>2 DEF OpInv
<1>8. ASSUME UNCHANGED <<state, owner, sock, pending, got>> PROVE OpInv'
  BY <1>8 DEF OpInv
<1>9. ASSUME NEW t \in Threads, \/ RemoveCompletion(t) \/ WaitOther(t) \/ ClosePort(t) \/ EndThread(t)
                                \/ Enter(t) \/ Completed(t) \/ Take(t) \/ Sleep(t) \/ GetThreadCompletion(t)
      PROVE  OpInv'
  BY <1>8, <1>9 DEF RemoveCompletion, WaitOther, ClosePort, EndThread, Enter,
                    Completed, Take, Sleep, GetThreadCompletion, asyncVars
<1>10. ASSUME NEW t \in Threads, NEW p \in Posts, AddCompletion(t, p) PROVE OpInv'
  BY <1>8, <1>10 DEF AddCompletion, asyncVars
<1>11. ASSUME NEW o \in Ops, GrowStale(o) PROVE OpInv'
  BY <1>8, <1>11 DEF GrowStale
<1>12. ASSUME NEW s \in Socks, Arrive(s) PROVE OpInv'
  BY <1>8, <1>12 DEF Arrive, asyncVars
<1>13. ASSUME UNCHANGED vars PROVE OpInv'
  BY <1>8, <1>13 DEF vars, asyncVars
<1> QED BY <1>1, <1>3, <1>4, <1>5, <1>6, <1>7, <1>9, <1>10, <1>11, <1>12, <1>13 DEF Next, Calls, Step

LEMMA CurStep == TypeOK /\ OpInv /\ CurInv /\ [Next]_vars => CurInv'
<1> SUFFICES ASSUME TypeOK, OpInv, CurInv, [Next]_vars PROVE CurInv'
  OBVIOUS
<1>0. /\ state \in [Ops -> {"idle", "direct", "queued", "ready", "running", "done"}]
      /\ owner \in [Ops -> Threads \cup {None}]
      /\ pc \in [Threads -> {"idle", "try", "tell", "remove", "body", "asleep",
                             "run", "report", "got", "ended"}]
      /\ cur \in [Threads -> Ops \cup {None}] /\ None \notin Ops
  BY AsyncAssumption DEF TypeOK
<1>1. \A t \in Threads : cur[t] # None => cur[t] \in Ops /\ state[cur[t]] \in {"direct", "running"}
  BY <1>0 DEF CurInv
<1>2. ASSUME UNCHANGED <<pc, cur>>,
             \A o \in Ops : state[o] \in {"direct", "running"} => state'[o] = state[o] /\ owner'[o] = owner[o],
             \A o \in Ops : state'[o] = "direct" => state[o] = "direct"
      PROVE  CurInv'
  BY <1>1, <1>2 DEF CurInv
<1>3. ASSUME NEW t \in Threads, NEW o \in Ops, NEW s \in Socks, Recv(t, o, s) \/ Accept(t, o, s)
      PROVE  CurInv'
  <2>1. /\ pc[t] = "idle" /\ state[o] = "idle" /\ owner' = [owner EXCEPT ![o] = t]
        /\ \/ /\ state' = [state EXCEPT ![o] = "direct"] /\ cur' = [cur EXCEPT ![t] = o]
              /\ pc' = [pc EXCEPT ![t] = "try"]
           \/ /\ \E st \in {"done", "queued"} : state' = [state EXCEPT ![o] = st]
              /\ UNCHANGED <<pc, cur>>
    BY <1>3, CreateStates
  <2>2. CASE UNCHANGED <<pc, cur>> /\ \E st \in {"done", "queued"} : state' = [state EXCEPT ![o] = st]
    BY <1>0, <1>2, <2>1, <2>2
  <2>3. CASE /\ state' = [state EXCEPT ![o] = "direct"] /\ cur' = [cur EXCEPT ![t] = o]
             /\ pc' = [pc EXCEPT ![t] = "try"]
    <3>1. cur[t] = None
      BY <2>1 DEF CurInv
    <3>2. \A u \in Threads : cur[u] # o
      BY <1>0, <1>1, <2>1
    <3>3. \A a \in Ops : state[a] = "direct" => owner[a] # t
      BY <1>0, <3>1 DEF CurInv
    <3>4. \A u \in Threads : u # t => cur'[u] = cur[u] /\ pc'[u] = pc[u]
      BY <1>0, <2>3
    <3>5. cur'[t] = o /\ pc'[t] = "try" /\ state'[o] = "direct" /\ owner'[o] = t
      BY <1>0, <2>1, <2>3
    <3>6. \A a \in Ops : a # o => state'[a] = state[a] /\ owner'[a] = owner[a]
      BY <1>0, <2>1, <2>3
    <3>7. \A a \in Ops : state[a] = "direct" => owner[a] \in Threads
      BY DEF OpInv, Active
    <3> QED BY <1>0, <1>1, <3>2, <3>3, <3>4, <3>5, <3>6, <3>7 DEF CurInv
  <2> QED BY <2>1, <2>2, <2>3
<1>4. ASSUME NEW S \in SUBSET Waiting, NEW st, MakeReady(S, st), UNCHANGED <<owner, pc, cur>> PROVE CurInv'
  BY <1>2, <1>4, ReadyStates
<1>5. ASSUME NEW t \in Threads, NEW s \in Socks, Cancel(t, s) \/ CloseSock(t, s) PROVE CurInv'
  BY <1>4, <1>5, ReadyActs
<1>6. ASSUME Poll PROVE CurInv'
  BY <1>4, <1>6, ReadyActs DEF Poll
<1>7. ASSUME NEW t \in Threads, Tell(t) \/ Report(t) PROVE CurInv'
  <2>1. /\ cur[t] \in Ops /\ cur' = [cur EXCEPT ![t] = None] /\ owner' = owner
        /\ \E p \in {"idle", "body"} : pc' = [pc EXCEPT ![t] = p]
        /\ \E st \in {"queued", "done"} : state' = [state EXCEPT ![cur[t]] = st]
    BY <1>7, EndStates
  <2>2. \A u \in Threads : u # t => cur'[u] = cur[u] /\ pc'[u] = pc[u] /\ cur[u] # cur[t]
    BY <1>0, <2>1 DEF CurInv
  <2>3. cur'[t] = None /\ pc'[t] \in {"idle", "body"}
    BY <1>0, <2>1
  <2>4. \A a \in Ops : a # cur[t] => state'[a] = state[a]
    BY <1>0, <2>1
  <2>5. state'[cur[t]] \in {"queued", "done"}
    BY <1>0, <2>1
  <2>6. \A a \in Ops : state[a] = "direct" /\ a # cur[t] => owner[a] # t /\ owner[a] \in Threads
    BY DEF CurInv, OpInv, Active
  <2> QED BY <1>0, <1>1, <2>1, <2>2, <2>3, <2>4, <2>5, <2>6 DEF CurInv
<1>8. ASSUME NEW t \in Threads, RunApc(t) PROVE CurInv'
  <2>1. PICK o \in Ops : /\ state[o] = "ready" /\ state' = [state EXCEPT ![o] = "running"]
                         /\ cur' = [cur EXCEPT ![t] = o] /\ pc' = [pc EXCEPT ![t] = "run"]
                         /\ pc[t] = "body"
    BY <1>8, RunStates
  <2>2. owner' = owner /\ cur[t] = None
    BY <1>8, <2>1 DEF RunApc, CurInv
  <2>3. \A u \in Threads : cur[u] # o
    BY <1>0, <1>1, <2>1
  <2>4. \A u \in Threads : u # t => cur'[u] = cur[u] /\ pc'[u] = pc[u]
    BY <1>0, <2>1
  <2>5. cur'[t] = o /\ pc'[t] = "run" /\ state'[o] = "running"
    BY <1>0, <2>1
  <2>6. \A a \in Ops : a # o => state'[a] = state[a]
    BY <1>0, <2>1
  <2>7. \A a \in Ops : state[a] = "direct" => owner[a] # t /\ owner[a] \in Threads
    BY <1>0, <2>2 DEF CurInv, OpInv, Active
  <2> QED BY <1>0, <1>1, <2>1, <2>2, <2>3, <2>4, <2>5, <2>6, <2>7 DEF CurInv
<1>9. ASSUME NEW t \in Threads, Try(t) \/ Callback(t) PROVE CurInv'
  <2>1. /\ UNCHANGED <<cur, state, owner>>
        /\ \/ pc[t] = "try" /\ pc' = [pc EXCEPT ![t] = "tell"]
           \/ pc[t] = "run" /\ pc' = [pc EXCEPT ![t] = "report"]
    BY <1>9, ReadStates
  <2> QED BY <1>0, <2>1 DEF CurInv
<1>10. ASSUME NEW t \in Threads, pc[t] \notin {"try", "tell", "run", "report"},
              NEW p, p \notin {"try", "tell", "run", "report"},
              pc' = [pc EXCEPT ![t] = p] \/ pc' = pc, UNCHANGED <<cur, state, owner>>
       PROVE  CurInv'
  BY <1>0, <1>10 DEF CurInv
<1>11. ASSUME NEW t \in Threads, \/ RemoveCompletion(t) \/ WaitOther(t) \/ EndThread(t) \/ Enter(t)
                                 \/ GetThreadCompletion(t)
       PROVE  CurInv'
  BY <1>10, <1>11 DEF RemoveCompletion, WaitOther, EndThread, Enter, GetThreadCompletion, asyncVars, Goto
<1>12. ASSUME NEW t \in Threads, Completed(t) \/ Take(t) \/ Sleep(t) PROVE CurInv'
  <2>1. pc[t] = "body" /\ UNCHANGED <<cur, state, owner>> /\ \E p \in {"idle", "got", "asleep"} : Goto(t, p)
    BY <1>12 DEF Completed, Take, Sleep, Leave, asyncVars
  <2> QED BY <1>10, <2>1 DEF Goto
<1>13. ASSUME UNCHANGED <<pc, cur, state, owner>> PROVE CurInv'
  BY <1>2, <1>13
<1>14. ASSUME NEW t \in Threads, ClosePort(t) PROVE CurInv'
  BY <1>13, <1>14 DEF ClosePort, asyncVars
<1>15. ASSUME NEW t \in Threads, NEW p \in Posts, AddCompletion(t, p) PROVE CurInv'
  BY <1>13, <1>15 DEF AddCompletion, asyncVars
<1>16. ASSUME NEW o \in Ops, GrowStale(o) PROVE CurInv'
  BY <1>13, <1>16 DEF GrowStale
<1>17. ASSUME NEW s \in Socks, Arrive(s) PROVE CurInv'
  BY <1>13, <1>17 DEF Arrive, asyncVars
<1>18. ASSUME UNCHANGED vars PROVE CurInv'
  BY <1>13, <1>18 DEF vars, asyncVars
<1> QED BY <1>3, <1>5, <1>6, <1>7, <1>8, <1>9, <1>11, <1>12, <1>14, <1>15, <1>16, <1>17, <1>18
        DEF Next, Calls, Step

LEMMA StreamStep == TypeOK /\ OpInv /\ CurInv /\ StreamInv /\ [Next]_vars => StreamInv'
<1> SUFFICES ASSUME TypeOK, OpInv, CurInv, StreamInv, [Next]_vars PROVE StreamInv'
  OBVIOUS
<1>0. /\ taken \in [Socks -> Nat] /\ arrived \in [Socks -> Nat] /\ got \in [Ops -> Nat]
      /\ sock \in [Ops -> Socks \cup {None}]
  <2>1. 0..MaxArrivals \subseteq Nat
    BY AsyncAssumption
  <2> QED BY <2>1 DEF TypeOK
<1>1. ASSUME UNCHANGED <<taken, arrived, got, sock>> PROVE StreamInv'
  BY <1>1 DEF StreamInv
<1>2. ASSUME NEW t \in Threads, NEW o \in Ops, NEW s \in Socks, Recv(t, o, s) \/ Accept(t, o, s)
      PROVE  StreamInv'
  <2>1. /\ state[o] = "idle" /\ sock' = [sock EXCEPT ![o] = s] /\ arrived' = arrived
        /\ \/ UNCHANGED <<taken, got>>
           \/ /\ Readable(s) /\ taken' = [taken EXCEPT ![s] = @ + 1]
              /\ got' = [got EXCEPT ![o] = taken[s] + 1]
    BY <1>2, CreateStates
  <2>2. got[o] = 0
    BY <2>1 DEF OpInv
  <2>3. CASE UNCHANGED <<taken, got>>
    BY <1>0, <2>1, <2>2, <2>3 DEF StreamInv
  <2>4. CASE /\ Readable(s) /\ taken' = [taken EXCEPT ![s] = @ + 1]
             /\ got' = [got EXCEPT ![o] = taken[s] + 1]
    BY <1>0, <2>1, <2>4 DEF StreamInv, Readable
  <2> QED BY <2>1, <2>3, <2>4
<1>3. ASSUME NEW t \in Threads, Try(t) \/ Callback(t) PROVE StreamInv'
  <2>1. cur[t] \in Ops /\ state[cur[t]] \in {"direct", "running"} /\ UNCHANGED <<sock, arrived>>
        /\ (ReadNow(cur[t]) \/ UNCHANGED <<taken, got>>)
    BY <1>3, ReadStates
  <2>2. sock[cur[t]] \in Socks
    BY <2>1 DEF OpInv, Active
  <2>3. \/ UNCHANGED <<taken, got>>
        \/ /\ taken[sock[cur[t]]] < arrived[sock[cur[t]]]
           /\ taken' = [taken EXCEPT ![sock[cur[t]]] = @ + 1]
           /\ got' = [got EXCEPT ![cur[t]] = taken[sock[cur[t]]] + 1]
    BY <2>1, <2>2, ReadNowFacts
  <2>4. CASE /\ taken[sock[cur[t]]] < arrived[sock[cur[t]]]
             /\ taken' = [taken EXCEPT ![sock[cur[t]]] = @ + 1]
             /\ got' = [got EXCEPT ![cur[t]] = taken[sock[cur[t]]] + 1]
    BY <1>0, <2>1, <2>2, <2>4 DEF StreamInv
  <2> QED BY <1>1, <2>1, <2>3, <2>4
<1>4. ASSUME Poll PROVE StreamInv'
  <2> DEFINE accepts == {o \in Fired : sock[o] \in Listeners}
  <2>1. /\ got' = [o \in Ops |-> IF o \in accepts THEN taken[sock[o]] + 1 ELSE got[o]]
        /\ taken' = [s \in Socks |-> IF \E o \in accepts : sock[o] = s THEN taken[s] + 1 ELSE taken[s]]
        /\ UNCHANGED <<sock, arrived>>
    BY <1>4 DEF Poll, Fired
  <2>2. \A o \in accepts : sock[o] \in Socks /\ taken[sock[o]] < arrived[sock[o]]
    BY FiredFacts
  <2> HIDE DEF accepts
  <2>3. \A s \in Socks : taken'[s] <= arrived'[s] /\ taken'[s] >= taken[s]
    BY <1>0, <2>1, <2>2 DEF StreamInv
  <2>4. \A o \in accepts : taken'[sock[o]] = taken[sock[o]] + 1
    BY <2>1, <2>2
  <2>5. ASSUME NEW o \in Ops, got'[o] > 0 PROVE sock'[o] \in Socks /\ got'[o] <= taken'[sock'[o]]
    <3>1. CASE o \in accepts
      BY <1>0, <2>1, <2>2, <2>4, <3>1
    <3>2. CASE o \notin accepts
      <4>1. got'[o] = got[o] /\ sock'[o] = sock[o] /\ sock[o] \in Socks /\ got[o] <= taken[sock[o]]
        BY <2>1, <2>5, <3>2 DEF StreamInv
      <4>2. taken'[sock[o]] >= taken[sock[o]] /\ taken[sock[o]] \in Nat /\ got[o] \in Nat
            /\ taken'[sock[o]] \in Nat
        BY <1>0, <2>1, <2>3, <4>1
      <4> QED BY <4>1, <4>2
    <3> QED BY <3>1, <3>2
  <2> QED BY <2>3, <2>5 DEF StreamInv
<1>5. ASSUME NEW s \in Socks, Arrive(s) PROVE StreamInv'
  <2>1. arrived' = [arrived EXCEPT ![s] = @ + 1] /\ UNCHANGED <<taken, got, sock>>
    BY <1>5 DEF Arrive, asyncVars
  <2> QED BY <1>0, <2>1 DEF StreamInv
<1>6. ASSUME NEW t \in Threads, NEW s \in Socks, Cancel(t, s) \/ CloseSock(t, s) PROVE StreamInv'
  BY <1>1, <1>6 DEF Cancel, CloseSock
<1>7. ASSUME NEW t \in Threads, Tell(t) \/ Report(t) \/ RunApc(t) PROVE StreamInv'
  BY <1>1, <1>7 DEF Tell, Report, RunApc, sockVars
<1>8. ASSUME NEW t \in Threads, \/ RemoveCompletion(t) \/ WaitOther(t) \/ ClosePort(t) \/ EndThread(t)
                                \/ Enter(t) \/ Completed(t) \/ Take(t) \/ Sleep(t) \/ GetThreadCompletion(t)
      PROVE  StreamInv'
  BY <1>1, <1>8 DEF RemoveCompletion, WaitOther, ClosePort, EndThread, Enter,
                    Completed, Take, Sleep, GetThreadCompletion, asyncVars, sockVars
<1>9. ASSUME NEW t \in Threads, NEW p \in Posts, AddCompletion(t, p) PROVE StreamInv'
  BY <1>1, <1>9 DEF AddCompletion, asyncVars, sockVars
<1>10. ASSUME NEW o \in Ops, GrowStale(o) PROVE StreamInv'
  BY <1>1, <1>10 DEF GrowStale, sockVars
<1>11. ASSUME UNCHANGED vars PROVE StreamInv'
  BY <1>1, <1>11 DEF vars, asyncVars, sockVars
<1> QED BY <1>2, <1>3, <1>4, <1>5, <1>6, <1>7, <1>8, <1>9, <1>10, <1>11 DEF Next, Calls, Step

-----------------------------------------------------------------------------
(* The port and the threads that wait for it.                               *)

LEMMA WaitStep == TypeOK /\ CurInv /\ WaitInv /\ [Next]_vars => WaitInv'
<1> SUFFICES ASSUME TypeOK, CurInv, WaitInv, [Next]_vars PROVE WaitInv'
  OBVIOUS
<1>0. /\ pc \in [Threads -> {"idle", "try", "tell", "remove", "body", "asleep",
                             "run", "report", "got", "ended"}]
      /\ msg \in [Threads -> Packets \cup {None, Abandoned}] /\ onPort \in [Threads -> BOOLEAN]
      /\ port \in Seq(Packets) /\ None \notin Packets
  BY AsyncAssumption DEF TypeOK, Packets
<1>1. ASSUME NEW t \in Threads, NEW p, p \notin {"got", "asleep"},
             pc' = [pc EXCEPT ![t] = p] \/ pc' = pc,
             \A u \in Threads : u # t => onPort'[u] = onPort[u], pc' = pc => onPort' = onPort,
             \A u \in Threads : u # t \/ pc' = pc => (msg[u] # None => msg'[u] = msg[u]),
             \A u \in Threads : u # t \/ pc' = pc => (u \in ToSet(waiters) => u \in ToSet(waiters'))
      PROVE  WaitInv'
  <2>1. CASE pc' = pc
    BY <1>0, <1>1, <2>1 DEF WaitInv
  <2>2. CASE pc' = [pc EXCEPT ![t] = p]
    BY <1>0, <1>1, <2>2 DEF WaitInv
  <2> QED BY <1>1, <2>1, <2>2
<1>2. ASSUME UNCHANGED <<pc, waitVars>>, PortStep PROVE WaitInv'
  BY <1>0, <1>2 DEF WaitInv, PortStep, waitVars
<1>3. ASSUME NEW t \in Threads, NEW p, p \notin {"got", "asleep"}, pc' = [pc EXCEPT ![t] = p],
             UNCHANGED waitVars, PortStep
      PROVE  WaitInv'
  BY <1>0, <1>1, <1>3 DEF PortStep, waitVars
<1>4. ASSUME NEW t \in Threads, NEW o \in Ops, NEW s \in Socks, Recv(t, o, s) PROVE WaitInv'
  BY <1>3, <1>4, PortSame DEF Recv, Goto
<1>5. ASSUME NEW t \in Threads, NEW o \in Ops, NEW s \in Socks, Accept(t, o, s) PROVE WaitInv'
  BY <1>2, <1>5, PortSteps DEF Accept
<1>6. ASSUME NEW t \in Threads, NEW s \in Socks, Cancel(t, s) \/ CloseSock(t, s) PROVE WaitInv'
  BY <1>2, <1>6, PortSteps DEF Cancel, CloseSock
<1>7. ASSUME NEW t \in Threads, NEW p \in Posts, AddCompletion(t, p) PROVE WaitInv'
  BY <1>2, <1>7, PortSteps DEF AddCompletion
<1>8. ASSUME NEW t \in Threads, ClosePort(t) PROVE WaitInv'
  BY <1>2, <1>8, PortSteps DEF ClosePort
<1>9. ASSUME Poll PROVE WaitInv'
  BY <1>2, <1>9, PortSteps DEF Poll
<1>10. ASSUME NEW t \in Threads, Tell(t) \/ Report(t) PROVE WaitInv'
  <2>1. PortStep
    BY <1>10, PortSteps
  <2>2. UNCHANGED waitVars /\ \E p \in {"idle", "body"} : pc' = [pc EXCEPT ![t] = p]
    BY <1>10 DEF Tell, Report, Goto
  <2> QED BY <1>3, <2>1, <2>2
<1>11. ASSUME NEW t \in Threads, Try(t) \/ Callback(t) \/ Enter(t) \/ EndThread(t) PROVE WaitInv'
  <2>1. UNCHANGED <<waitVars, portVars>> /\ \E p \in {"tell", "report", "body", "ended"} : pc' = [pc EXCEPT ![t] = p]
    BY <1>11 DEF Try, Callback, Enter, EndThread, Goto
  <2> QED BY <1>3, <2>1, PortSame
<1>12. ASSUME NEW t \in Threads, RemoveCompletion(t) \/ WaitOther(t) PROVE WaitInv'
  <2>1. UNCHANGED <<waiters, msg>> /\ \/ UNCHANGED <<pc, onPort>>
                                      \/ /\ pc' = [pc EXCEPT ![t] = "remove"]
                                         /\ \E v : onPort' = [onPort EXCEPT ![t] = v]
    BY <1>12 DEF RemoveCompletion, WaitOther, Goto, portVars
  <2> QED BY <1>0, <2>1 DEF WaitInv
<1>13. ASSUME NEW t \in Threads, Completed(t) \/ Take(t) \/ RunApc(t) PROVE WaitInv'
  <2>1. /\ waiters' = Keep(waiters, Threads \ {t}) /\ onPort' = onPort
        /\ \/ /\ \E p \in {"idle", "run"} : pc' = [pc EXCEPT ![t] = p]
              /\ \A u \in Threads : u # t => msg'[u] = msg[u]
           \/ /\ pc' = [pc EXCEPT ![t] = "got"] /\ \A u \in Threads : u # t => msg'[u] = msg[u]
              /\ msg'[t] \in Packets
    <3>1. CASE Completed(t)
      BY <1>0, <1>13, <3>1 DEF Completed, Leave, Goto
    <3>2. CASE Take(t)
      <4>1. port # <<>> => Head(port) \in Packets
        BY <1>0
      <4> QED BY <1>0, <1>13, <3>2, <4>1 DEF Take, Leave, Goto
    <3>3. CASE RunApc(t)
      BY <1>0, <1>13, <3>3 DEF RunApc, Leave, Goto
    <3> QED BY <1>13, <3>1, <3>2, <3>3
  <2>2. ToSet(waiters') = ToSet(waiters) \ {t}
    BY <2>1, LeaveFacts
  <2> QED BY <1>0, <2>1, <2>2 DEF WaitInv
<1>14. ASSUME NEW t \in Threads, Sleep(t) PROVE WaitInv'
  <2>0. pc[t] = "body" /\ UNCHANGED <<onPort, msg>>
    BY <1>14 DEF Sleep
  <2>1. CASE Leave(t, "idle")
    <3>1. ToSet(waiters') = ToSet(waiters) \ {t} /\ pc' = [pc EXCEPT ![t] = "idle"]
      BY <2>1, LeaveFacts DEF Leave, Goto
    <3> QED BY <1>0, <2>0, <3>1 DEF WaitInv
  <2>2. CASE /\ Goto(t, "asleep")
             /\ waiters' = IF onPort[t] /\ t \notin ToSet(waiters) THEN Append(waiters, t) ELSE waiters
    <3>1. waiters \in Seq(Threads)
      BY DEF TypeOK
    <3>2. ToSet(Append(waiters, t)) = ToSet(waiters) \cup {t}
      BY <3>1 DEF ToSet
    <3>3. ToSet(waiters) \subseteq ToSet(waiters') /\ (onPort[t] => t \in ToSet(waiters'))
      BY <2>2, <3>2
    <3> QED BY <1>0, <2>0, <2>2, <3>3 DEF WaitInv, Goto
  <2> QED BY <1>14, <2>1, <2>2 DEF Sleep
<1>15. ASSUME NEW t \in Threads, GetThreadCompletion(t) PROVE WaitInv'
  <2>1. pc' = [pc EXCEPT ![t] = "idle"] /\ msg' = [msg EXCEPT ![t] = None] /\ UNCHANGED waitVars
    BY <1>15 DEF GetThreadCompletion, Goto
  <2> QED BY <1>0, <2>1 DEF WaitInv, waitVars
<1>16. ASSUME NEW o \in Ops, GrowStale(o) PROVE WaitInv'
  BY <1>2, <1>16, PortSame DEF GrowStale
<1>17. ASSUME NEW s \in Socks, Arrive(s) PROVE WaitInv'
  BY <1>2, <1>17, PortSame DEF Arrive
<1>18. ASSUME UNCHANGED vars PROVE WaitInv'
  BY <1>2, <1>18, PortSame DEF vars
<1> QED BY <1>4, <1>5, <1>6, <1>7, <1>8, <1>9, <1>10, <1>11, <1>12, <1>13, <1>14, <1>15, <1>16, <1>17, <1>18
        DEF Next, Calls, Step

\* A packet that leaves the port arrives in a wait or with the program, once.
LEMMA ConservedStep == TypeOK /\ CurInv /\ WaitInv /\ PacketsConserved /\ [Next]_vars => PacketsConserved'
<1> SUFFICES ASSUME TypeOK, CurInv, WaitInv, PacketsConserved, [Next]_vars, NEW p \in Packets
             PROVE  posts'[p] = InPort(p)' + InWait(p)' + received'[p]
  BY DEF PacketsConserved
<1> DEFINE W == {u \in Threads : msg[u] = p}
<1>0. /\ posts[p] = InPort(p) + InWait(p) + received[p]
      /\ posts[p] \in Nat /\ received[p] \in Nat /\ received \in [Packets -> Nat]
      /\ msg \in [Threads -> Packets \cup {None, Abandoned}]
      /\ port \in Seq(Packets) /\ p # None /\ p # Abandoned
  BY AsyncAssumption DEF TypeOK, PacketsConserved, Packets
<1>1. /\ InPort(p) \in Nat /\ InWait(p) \in Nat
      /\ InPort(p) = Count(port, p) /\ InPort(p)' = Count(port', p)
      /\ InWait(p) = Cardinality(W) /\ InWait(p)' = Cardinality({u \in Threads : msg'[u] = p})
  BY CountsNat DEF InPort, InWait, Count
<1>2. IsFiniteSet(W)
  BY AsyncAssumption, FS_Subset
<1>3. ASSUME PortStep, received' = received PROVE posts'[p] = InPort(p)' + InWait(p)' + received'[p]
  <2>1. /\ InPort(p)' + InWait(p)' - posts'[p] = InPort(p) + InWait(p) - posts[p]
        /\ port' \in Seq(Packets) /\ posts'[p] \in Nat
    BY <1>3 DEF PortStep
  <2>2. InPort(p)' \in Nat /\ InWait(p)' \in Nat
    BY <1>1, <2>1, CountNat
  <2>3. received'[p] = received[p]
    BY <1>3
  <2>4. InPort(p) \in Nat /\ InWait(p) \in Nat
    BY <1>1
  <2>5. posts[p] = InPort(p) + InWait(p) + received[p] /\ posts[p] \in Nat /\ received[p] \in Nat
    BY <1>0
  <2>6. posts'[p] \in Nat /\ InPort(p)' + InWait(p)' - posts'[p] = InPort(p) + InWait(p) - posts[p]
    BY <2>1
  <2> QED BY <2>2, <2>3, <2>4, <2>5, <2>6
<1>4. ASSUME UNCHANGED <<port, msg, posts, received>> PROVE posts'[p] = InPort(p)' + InWait(p)' + received'[p]
  BY <1>0, <1>1, <1>4
<1>5. ASSUME NEW t \in Threads, NEW o \in Ops, NEW s \in Socks, Accept(t, o, s)
      PROVE  posts'[p] = InPort(p)' + InWait(p)' + received'[p]
  BY <1>3, <1>5, PortSteps DEF Accept
<1>6. ASSUME NEW t \in Threads, NEW s \in Socks, Cancel(t, s) \/ CloseSock(t, s)
      PROVE  posts'[p] = InPort(p)' + InWait(p)' + received'[p]
  BY <1>3, <1>6, PortSteps DEF Cancel, CloseSock
<1>7. ASSUME NEW t \in Threads, NEW r \in Posts, AddCompletion(t, r)
      PROVE  posts'[p] = InPort(p)' + InWait(p)' + received'[p]
  BY <1>3, <1>7, PortSteps DEF AddCompletion
<1>8. ASSUME NEW t \in Threads, ClosePort(t) \/ Tell(t) \/ Report(t)
      PROVE  posts'[p] = InPort(p)' + InWait(p)' + received'[p]
  BY <1>3, <1>8, PortSteps DEF ClosePort, Tell, Report
<1>9. ASSUME Poll PROVE posts'[p] = InPort(p)' + InWait(p)' + received'[p]
  BY <1>3, <1>9, PortSteps DEF Poll
<1>10. ASSUME NEW t \in Threads, RemoveCompletion(t)
       PROVE  posts'[p] = InPort(p)' + InWait(p)' + received'[p]
  <2>1. CASE port = <<>>
    BY <1>4, <1>10, <2>1 DEF RemoveCompletion
  <2>2. CASE port # <<>>
    <3>1. /\ received' = [received EXCEPT ![Head(port)] = @ + 1] /\ port' = Tail(port)
          /\ UNCHANGED <<msg, posts>>
      BY <1>10, <2>2 DEF RemoveCompletion
    <3>2. Count(port, p) = Count(Tail(port), p) + (IF Head(port) = p THEN 1 ELSE 0) /\ Count(Tail(port), p) \in Nat
      BY <1>0, <2>2, CountHead
    <3>3. received'[p] = received[p] + IF Head(port) = p THEN 1 ELSE 0
      BY <1>0, <3>1
    <3>4. InWait(p)' = InWait(p)
      BY <1>1, <3>1
    <3> QED BY <1>0, <1>1, <3>1, <3>2, <3>3, <3>4
  <2> QED BY <2>1, <2>2
<1>11. ASSUME NEW t \in Threads, Take(t) PROVE posts'[p] = InPort(p)' + InWait(p)' + received'[p]
  <2>1. CASE ~portOpen
    BY <1>4, <1>11, <2>1 DEF Take
  <2>2. CASE portOpen
    <3>1. /\ port # <<>> /\ msg[t] = None /\ msg' = [msg EXCEPT ![t] = Head(port)] /\ port' = Tail(port)
          /\ UNCHANGED <<posts, received>>
      BY <1>11, <2>2 DEF Take
    <3>2. Count(port, p) = Count(Tail(port), p) + (IF Head(port) = p THEN 1 ELSE 0) /\ Count(Tail(port), p) \in Nat
      BY <1>0, <3>1, CountHead
    <3>3. {u \in Threads : msg'[u] = p} = W \cup (IF Head(port) = p THEN {t} ELSE {}) /\ t \notin W
      BY <1>0, <3>1
    <3> HIDE DEF W
    <3>4. InWait(p)' = InWait(p) + IF Head(port) = p THEN 1 ELSE 0
      <4>1. CASE Head(port) = p
        BY <1>1, <1>2, <3>3, <4>1, FS_AddElement, ZenonT(40)
      <4>2. CASE Head(port) # p
        <5>1. {u \in Threads : msg'[u] = p} = W
          BY <3>3, <4>2
        <5> QED BY <1>1, <4>2, <5>1
      <4> QED BY <4>1, <4>2
    <3> QED BY <1>0, <1>1, <3>1, <3>2, <3>4
  <2> QED BY <2>1, <2>2
<1>12. ASSUME NEW t \in Threads, Completed(t) PROVE posts'[p] = InPort(p)' + InWait(p)' + received'[p]
  <2>1. /\ UNCHANGED <<port, posts, received>>
        /\ msg' = msg \/ (msg[t] = Abandoned /\ msg' = [msg EXCEPT ![t] = None])
    BY <1>12 DEF Completed
  <2>2. {u \in Threads : msg'[u] = p} = W
    BY <1>0, <2>1
  <2> QED BY <1>0, <1>1, <2>1, <2>2
<1>13. ASSUME NEW t \in Threads, GetThreadCompletion(t)
       PROVE  posts'[p] = InPort(p)' + InWait(p)' + received'[p]
  <2>1. /\ msg[t] \in Packets /\ received' = [received EXCEPT ![msg[t]] = @ + 1]
        /\ msg' = [msg EXCEPT ![t] = None] /\ UNCHANGED <<port, posts>>
    BY <1>13 DEF GetThreadCompletion, WaitInv
  <2>2. received'[p] = received[p] + IF msg[t] = p THEN 1 ELSE 0
    BY <1>0, <2>1
  <2>3. {u \in Threads : msg'[u] = p} = W \ {t} /\ (t \in W <=> msg[t] = p)
    BY <1>0, <2>1
  <2> HIDE DEF W
  <2>4. InWait(p)' = InWait(p) - IF msg[t] = p THEN 1 ELSE 0
    <3>1. CASE msg[t] = p
      BY <1>1, <1>2, <2>3, <3>1, FS_RemoveElement
    <3>2. CASE msg[t] # p
      <4>1. {u \in Threads : msg'[u] = p} = W
        BY <2>3, <3>2
      <4> QED BY <1>1, <3>2, <4>1
    <3> QED BY <3>1, <3>2
  <2> QED BY <1>0, <1>1, <2>1, <2>2, <2>4
<1>14. ASSUME NEW t \in Threads, \/ WaitOther(t) \/ EndThread(t) \/ Try(t) \/ Enter(t) \/ RunApc(t) \/ Sleep(t)
                                 \/ Callback(t)
       PROVE  posts'[p] = InPort(p)' + InWait(p)' + received'[p]
  BY <1>4, <1>14 DEF WaitOther, EndThread, Try, Enter, RunApc, Sleep, Callback, portVars
<1>15. ASSUME NEW t \in Threads, NEW o \in Ops, NEW s \in Socks, Recv(t, o, s)
       PROVE  posts'[p] = InPort(p)' + InWait(p)' + received'[p]
  BY <1>4, <1>15 DEF Recv, portVars
<1>16. ASSUME NEW o \in Ops, GrowStale(o) PROVE posts'[p] = InPort(p)' + InWait(p)' + received'[p]
  BY <1>4, <1>16 DEF GrowStale, portVars
<1>17. ASSUME NEW s \in Socks, Arrive(s) PROVE posts'[p] = InPort(p)' + InWait(p)' + received'[p]
  BY <1>4, <1>17 DEF Arrive, portVars
<1>18. ASSUME UNCHANGED vars PROVE posts'[p] = InPort(p)' + InWait(p)' + received'[p]
  BY <1>4, <1>18 DEF vars, portVars
<1> QED BY <1>5, <1>6, <1>7, <1>8, <1>9, <1>10, <1>11, <1>12, <1>13, <1>14, <1>15, <1>16, <1>17, <1>18
        DEF Next, Calls, Step

\* What ToldOnce says of one operation.
ToldAt(o) ==
    posts[o] + told[o] =
       IF state[o] # "done" \/ (~pending[o] /\ (result[o] = "failed" \/ (o \in Ported /\ Skip)))
       THEN 0 ELSE 1

LEMMA ToldStep == TypeOK /\ OpInv /\ CurInv /\ ToldOnce /\ [Next]_vars => ToldOnce'
<1> SUFFICES ASSUME TypeOK, OpInv, CurInv, ToldOnce, [Next]_vars, NEW o \in Ops
             PROVE  ToldAt(o)'
  BY DEF ToldOnce, ToldAt
<1>0. /\ state \in [Ops -> {"idle", "direct", "queued", "ready", "running", "done"}]
      /\ pending \in [Ops -> BOOLEAN]
      /\ result \in [Ops -> {"none", "again", "ok", "failed", "cancelled", "closed"}]
      /\ posts \in [Packets -> Nat] /\ told \in [Ops -> Nat]
      /\ o \in Packets /\ o \notin Posts /\ ToldAt(o)
  BY AsyncAssumption DEF TypeOK, Packets, ToldOnce, ToldAt
<1>1. ASSUME posts'[o] = posts[o], told'[o] = told[o],
             state[o] # "done" => state'[o] # "done",
             state[o] = "done" => state'[o] = "done" /\ pending'[o] = pending[o] /\ result'[o] = result[o]
      PROVE  ToldAt(o)'
  <2>1. CASE state[o] = "done"
    BY <1>0, <1>1, <2>1 DEF ToldAt
  <2>2. CASE state[o] # "done"
    BY <1>0, <1>1, <2>2 DEF ToldAt
  <2> QED BY <2>1, <2>2
<1>2. ASSUME UNCHANGED <<asyncVars, posts, told>> PROVE ToldAt(o)'
  BY <1>1, <1>2 DEF asyncVars
<1>3. ASSUME NEW pend \in BOOLEAN, Finish(o, pend), state[o] # "done", pending'[o] = pending[o],
             result' = result, pend = pending[o]
      PROVE  ToldAt(o)'
  <2>1. posts[o] + told[o] = 0 /\ posts[o] \in Nat /\ told[o] \in Nat
    BY <1>0, <1>3 DEF ToldAt
  <2>2. posts[o] = 0 /\ told[o] = 0
    BY <2>1
  <2>3. posts'[o] = IF Posted(o, pend) THEN 1 ELSE 0
    <3>1. posts' = IF Posted(o, pend) THEN [posts EXCEPT ![o] = @ + 1] ELSE posts
      BY <1>3, FinishFacts
    <3> QED BY <1>0, <2>2, <3>1
  <2>4. told'[o] = IF Tells(o, pend) /\ o \notin Ported THEN 1 ELSE 0
    BY <1>0, <1>3, <2>2 DEF Finish
  <2>5. state'[o] = "done"
    BY <1>0, <1>3 DEF Finish
  <2>6. Skip \in BOOLEAN
    BY AsyncAssumption
  <2> QED BY <1>0, <1>3, <2>3, <2>4, <2>5, <2>6 DEF ToldAt, Posted, Tells
<1>4. ASSUME NEW t \in Threads, NEW x \in Ops, NEW s \in Socks, Recv(t, x, s) PROVE ToldAt(o)'
  <2>1. state[x] = "idle" /\ state' = [state EXCEPT ![x] = "direct"] /\ UNCHANGED <<pending, result, posts, told>>
    BY <1>4 DEF Recv, Create, portVars
  <2> QED BY <1>0, <1>1, <2>1
<1>5. ASSUME NEW t \in Threads, NEW x \in Ops, NEW s \in Socks, Accept(t, x, s) PROVE ToldAt(o)'
  <2>0. x \in Packets
    BY DEF Packets
  <2>1. CASE ~Readable(s)
    <3>1. /\ state[x] = "idle" /\ state' = [state EXCEPT ![x] = "queued"]
          /\ pending' = [pending EXCEPT ![x] = TRUE] /\ UNCHANGED <<result, posts, told>>
      BY <1>5, <2>1 DEF Accept, Create, portVars
    <3> QED BY <1>0, <1>1, <3>1
  <2>2. CASE Readable(s)
    <3>1. /\ state[x] = "idle" /\ state' = [state EXCEPT ![x] = "done"] /\ pending' = pending
          /\ result' = [result EXCEPT ![x] = "ok"]
          /\ told' = [told EXCEPT ![x] = @ + IF x \in Ported THEN 0 ELSE 1]
      BY <1>5, <2>2 DEF Accept, Create
    <3>2. posts' = IF x \in Ported /\ ~Skip THEN [posts EXCEPT ![x] = @ + 1] ELSE posts
      BY <1>5, <2>0, <2>2, PostFacts DEF Accept, portVars
    <3>3. CASE x # o
      BY <1>0, <1>1, <3>1, <3>2, <3>3
    <3>4. CASE x = o
      <4>1. posts[o] + told[o] = 0 /\ posts[o] \in Nat /\ told[o] \in Nat
        BY <1>0, <3>1, <3>4 DEF ToldAt
      <4>2. posts[o] = 0 /\ told[o] = 0
        BY <4>1
      <4>3. posts'[o] = (IF o \in Ported /\ ~Skip THEN 1 ELSE 0) /\ told'[o] = IF o \in Ported THEN 0 ELSE 1
        BY <1>0, <3>1, <3>2, <3>4, <4>2
      <4>4. state'[o] = "done" /\ ~pending'[o] /\ result'[o] = "ok"
        BY <1>0, <3>1, <3>4 DEF OpInv
      <4>5. Skip \in BOOLEAN
        BY AsyncAssumption
      <4> QED BY <4>3, <4>4, <4>5 DEF ToldAt
    <3> QED BY <3>3, <3>4
  <2> QED BY <2>1, <2>2
<1>6. ASSUME NEW S \in SUBSET Waiting, NEW st, MakeReady(S, st), UNCHANGED <<posts, told, pending, result>>
      PROVE  ToldAt(o)'
  BY <1>1, <1>6, ReadyStates
<1>7. ASSUME NEW t \in Threads, NEW s \in Socks, Cancel(t, s) \/ CloseSock(t, s) PROVE ToldAt(o)'
  BY <1>6, <1>7, ReadyActs
<1>8. ASSUME Poll PROVE ToldAt(o)'
  BY <1>6, <1>8, ReadyActs DEF Poll
<1>9. ASSUME NEW t \in Threads, Tell(t) \/ Report(t) PROVE ToldAt(o)'
  <2>1. cur[t] \in Ops /\ state[cur[t]] \in {"direct", "running"} /\ result' = result
    BY <1>9, EndStates
  <2>2. CASE result[cur[t]] = "again"
    <3>1. /\ state' = [state EXCEPT ![cur[t]] = "queued"] /\ UNCHANGED <<posts, told>>
          /\ pending' = [pending EXCEPT ![cur[t]] = TRUE] \/ pending' = pending
      BY <1>9, <2>2, EndStates DEF portVars
    <3> QED BY <1>0, <1>1, <2>1, <3>1
  <2>3. CASE result[cur[t]] # "again"
    <3>1. PICK pend \in BOOLEAN : /\ Finish(cur[t], pend) /\ pending' = pending
                                  /\ pend = pending[cur[t]]
      <4>1. \/ pc[t] = "tell" /\ Finish(cur[t], FALSE) /\ pending' = pending
            \/ pc[t] = "report" /\ Finish(cur[t], pending[cur[t]]) /\ pending' = pending
        BY <1>9, <2>3, EndStates
      <4>2. pc[t] = "tell" => pending[cur[t]] = FALSE
        BY <1>0, <1>9, <2>1, EndStates DEF OpInv
      <4>3. pending[cur[t]] \in BOOLEAN
        BY <1>0, <2>1
      <4> QED BY <4>1, <4>2, <4>3
    <3>2. CASE o = cur[t]
      BY <1>3, <2>1, <3>1, <3>2
    <3>3. CASE o # cur[t]
      <4>1. posts' = IF Posted(cur[t], pend) THEN [posts EXCEPT ![cur[t]] = @ + 1] ELSE posts
        BY <2>1, <3>1, FinishFacts
      <4>2. posts'[o] = posts[o]
        BY <1>0, <3>3, <4>1
      <4>3. state'[o] = state[o] /\ told'[o] = told[o]
        BY <1>0, <3>1, <3>3 DEF Finish
      <4> QED BY <1>1, <2>1, <3>1, <4>2, <4>3
    <3> QED BY <3>2, <3>3
  <2> QED BY <2>2, <2>3
<1>10. ASSUME NEW t \in Threads, RunApc(t) PROVE ToldAt(o)'
  <2>1. PICK x \in Ops : state[x] = "ready" /\ state' = [state EXCEPT ![x] = "running"]
    BY <1>10, RunStates
  <2>2. UNCHANGED <<pending, result, posts, told>>
    BY <1>10 DEF RunApc
  <2> QED BY <1>0, <1>1, <2>1, <2>2
<1>11. ASSUME NEW t \in Threads, Try(t) \/ Callback(t) PROVE ToldAt(o)'
  <2>1. /\ cur[t] \in Ops /\ state[cur[t]] # "done" /\ UNCHANGED <<state, pending, posts, told>>
        /\ \E r : result' = [result EXCEPT ![cur[t]] = r]
    BY <1>11, ReadStates DEF ReadNow, portVars
  <2> QED BY <1>0, <1>1, <2>1
<1>12. ASSUME NEW t \in Threads, NEW p \in Posts, AddCompletion(t, p) PROVE ToldAt(o)'
  <2>1. posts' = [posts EXCEPT ![p] = @ + 1] /\ UNCHANGED <<asyncVars, told>>
    BY <1>12 DEF AddCompletion, Post
  <2> QED BY <1>0, <1>1, <2>1 DEF asyncVars
<1>13. ASSUME NEW t \in Threads, \/ RemoveCompletion(t) \/ WaitOther(t) \/ ClosePort(t) \/ EndThread(t) \/ Enter(t)
                                 \/ Completed(t) \/ Take(t) \/ Sleep(t) \/ GetThreadCompletion(t)
       PROVE  ToldAt(o)'
  BY <1>2, <1>13 DEF RemoveCompletion, WaitOther, ClosePort, EndThread, Enter,
                     Completed, Take, Sleep, GetThreadCompletion, portVars
<1>14. ASSUME NEW x \in Ops, GrowStale(x) PROVE ToldAt(o)'
  BY <1>1, <1>14 DEF GrowStale, portVars
<1>15. ASSUME NEW s \in Socks, Arrive(s) PROVE ToldAt(o)'
  BY <1>2, <1>15 DEF Arrive, portVars
<1>16. ASSUME UNCHANGED vars PROVE ToldAt(o)'
  BY <1>2, <1>16 DEF vars, portVars
<1> QED BY <1>4, <1>5, <1>7, <1>8, <1>9, <1>10, <1>11, <1>12, <1>13, <1>14, <1>15, <1>16 DEF Next, Calls, Step

LEMMA PacketStep == TypeOK /\ CurInv /\ WaitInv /\ NoMissedPacket /\ [Next]_vars => NoMissedPacket'
<1> SUFFICES ASSUME TypeOK, CurInv, WaitInv, NoMissedPacket, [Next]_vars PROVE NoMissedPacket'
  OBVIOUS
<1>0. /\ pc \in [Threads -> {"idle", "try", "tell", "remove", "body", "asleep",
                             "run", "report", "got", "ended"}]
      /\ notified \in [Threads -> BOOLEAN] /\ port \in Seq(Packets) /\ onPort \in [Threads -> BOOLEAN]
      /\ msg \in [Threads -> Packets \cup {None, Abandoned}]
  BY DEF TypeOK
<1>1. ASSUME PortStep,
             \A u \in Threads : pc'[u] = "asleep" => pc[u] = "asleep" /\ onPort'[u] = onPort[u]
      PROVE  NoMissedPacket'
  <2> SUFFICES ASSUME NEW u \in Threads, pc'[u] = "asleep", onPort'[u], msg'[u] = None,
                      port' # <<>> \/ ~portOpen'
               PROVE  notified'[u]
    BY DEF NoMissedPacket
  <2>1. pc[u] = "asleep" /\ onPort[u] /\ u \in ToSet(waiters)
    BY <1>1 DEF WaitInv
  <2>2. msg[u] = None
    BY <1>1 DEF PortStep
  <2>3. CASE port' = port /\ portOpen' = portOpen
    BY <1>1, <2>1, <2>2, <2>3 DEF NoMissedPacket, PortStep
  <2>4. CASE \A t \in ToSet(waiters) : msg'[t] = None => notified'[t] \/ (portOpen' /\ port' = <<>>)
    BY <2>1, <2>4
  <2> QED BY <1>1, <2>3, <2>4 DEF PortStep
<1>2. ASSUME NEW t \in Threads, pc'[t] # "asleep",
             \A u \in Threads : u # t => /\ pc'[u] = pc[u] /\ onPort'[u] = onPort[u] /\ msg'[u] = msg[u]
                                         /\ notified'[u] = notified[u],
             portOpen' = portOpen, port' = port \/ port # <<>>
      PROVE  NoMissedPacket'
  BY <1>0, <1>2 DEF NoMissedPacket
<1>3. ASSUME NEW t \in Threads, NEW o \in Ops, NEW s \in Socks, Recv(t, o, s) PROVE NoMissedPacket'
  <2>1. UNCHANGED <<portVars, onPort>> /\ pc' = [pc EXCEPT ![t] = "try"]
    BY <1>3 DEF Recv, Goto, waitVars
  <2> QED BY <1>0, <1>1, <2>1, PortSame
<1>4. ASSUME NEW t \in Threads, NEW o \in Ops, NEW s \in Socks, Accept(t, o, s) PROVE NoMissedPacket'
  BY <1>1, <1>4, PortSteps DEF Accept, waitVars
<1>5. ASSUME NEW t \in Threads, NEW s \in Socks, Cancel(t, s) \/ CloseSock(t, s) PROVE NoMissedPacket'
  BY <1>1, <1>5, PortSteps DEF Cancel, CloseSock, waitVars
<1>6. ASSUME NEW t \in Threads, NEW p \in Posts, AddCompletion(t, p) PROVE NoMissedPacket'
  BY <1>1, <1>6, PortSteps DEF AddCompletion, waitVars
<1>7. ASSUME NEW t \in Threads, ClosePort(t) PROVE NoMissedPacket'
  BY <1>1, <1>7, PortSteps DEF ClosePort, waitVars
<1>8. ASSUME Poll PROVE NoMissedPacket'
  BY <1>1, <1>8, PortSteps DEF Poll, waitVars
<1>9. ASSUME NEW t \in Threads, Tell(t) \/ Report(t) PROVE NoMissedPacket'
  <2>1. onPort' = onPort /\ \E p \in {"idle", "body"} : pc' = [pc EXCEPT ![t] = p]
    BY <1>9 DEF Tell, Report, Goto, waitVars
  <2>2. \A u \in Threads : pc'[u] = "asleep" => pc[u] = "asleep" /\ onPort'[u] = onPort[u]
    BY <1>0, <2>1
  <2> QED BY <1>1, <1>9, <2>2, PortSteps
<1>10. ASSUME NEW t \in Threads, Try(t) \/ Callback(t) \/ Enter(t) \/ EndThread(t) PROVE NoMissedPacket'
  <2>1. UNCHANGED <<onPort, portVars>> /\ \E p \in {"tell", "report", "body", "ended"} : pc' = [pc EXCEPT ![t] = p]
    BY <1>10 DEF Try, Callback, Enter, EndThread, Goto, waitVars
  <2> QED BY <1>0, <1>1, <2>1, PortSame
<1>11. ASSUME NEW t \in Threads, RemoveCompletion(t) PROVE NoMissedPacket'
  <2>1. UNCHANGED <<msg, notified, portOpen>> /\ (port' = port \/ port # <<>>) /\ pc[t] = "idle"
        /\ \/ UNCHANGED <<pc, onPort>>
           \/ pc' = [pc EXCEPT ![t] = "remove"] /\ onPort' = [onPort EXCEPT ![t] = TRUE]
    BY <1>11 DEF RemoveCompletion, Goto
  <2> QED BY <1>0, <1>2, <2>1
<1>12. ASSUME NEW t \in Threads, WaitOther(t) PROVE NoMissedPacket'
  <2>1. UNCHANGED <<msg, notified, portOpen, port>>
        /\ pc' = [pc EXCEPT ![t] = "remove"] /\ onPort' = [onPort EXCEPT ![t] = FALSE]
    BY <1>12 DEF WaitOther, Goto, portVars
  <2> QED BY <1>0, <1>2, <2>1
<1>13. ASSUME NEW t \in Threads, Completed(t) \/ Take(t) \/ RunApc(t) PROVE NoMissedPacket'
  <2>1. /\ UNCHANGED <<onPort, portOpen>> /\ (port' = port \/ port # <<>>)
        /\ notified' = [notified EXCEPT ![t] = FALSE]
        /\ \E p \in {"idle", "run", "got"} : pc' = [pc EXCEPT ![t] = p]
        /\ msg' = msg \/ \E m : msg' = [msg EXCEPT ![t] = m]
    BY <1>13 DEF Completed, Take, RunApc, Leave, Goto
  <2> QED BY <1>0, <1>2, <2>1
<1>14. ASSUME NEW t \in Threads, Sleep(t) PROVE NoMissedPacket'
  <2>1. /\ UNCHANGED <<onPort, portOpen, port, msg>> /\ notified' = [notified EXCEPT ![t] = FALSE]
        /\ \E p \in {"idle", "asleep"} : pc' = [pc EXCEPT ![t] = p]
        /\ onPort[t] => portOpen /\ port = <<>>
    BY <1>14 DEF Sleep, Leave, Goto
  <2> QED BY <1>0, <2>1 DEF NoMissedPacket
<1>15. ASSUME NEW t \in Threads, GetThreadCompletion(t) PROVE NoMissedPacket'
  <2>1. /\ pc' = [pc EXCEPT ![t] = "idle"] /\ msg' = [msg EXCEPT ![t] = None]
        /\ UNCHANGED <<onPort, port, portOpen, notified>>
    BY <1>15 DEF GetThreadCompletion, Goto, waitVars
  <2> QED BY <1>0, <1>2, <2>1
<1>16. ASSUME NEW o \in Ops, GrowStale(o) PROVE NoMissedPacket'
  BY <1>1, <1>16, PortSame DEF GrowStale, waitVars
<1>17. ASSUME NEW s \in Socks, Arrive(s) PROVE NoMissedPacket'
  BY <1>1, <1>17, PortSame DEF Arrive, waitVars
<1>18. ASSUME UNCHANGED vars PROVE NoMissedPacket'
  BY <1>1, <1>18, PortSame DEF vars, waitVars
<1> QED BY <1>3, <1>4, <1>5, <1>6, <1>7, <1>8, <1>9, <1>10, <1>11, <1>12, <1>13, <1>14, <1>15, <1>16, <1>17, <1>18
        DEF Next, Calls, Step

LEMMA OperationStep ==
    TypeOK /\ ListInv /\ OpInv /\ CurInv /\ NoMissedOperation /\ [Next]_vars => NoMissedOperation'
<1> SUFFICES ASSUME TypeOK, ListInv, OpInv, CurInv, NoMissedOperation, [Next]_vars PROVE NoMissedOperation'
  OBVIOUS
<1>0. /\ state \in [Ops -> {"idle", "direct", "queued", "ready", "running", "done"}]
      /\ owner \in [Ops -> Threads \cup {None}]
      /\ pc \in [Threads -> {"idle", "try", "tell", "remove", "body", "asleep",
                             "run", "report", "got", "ended"}]
      /\ notified \in [Threads -> BOOLEAN]
      /\ msg \in [Threads -> Packets \cup {None, Abandoned}]
      /\ \A o \in Ops : state[o] = "ready" => owner[o] \in Threads
  BY DEF TypeOK, OpInv, Active
<1>1. ASSUME \A o \in Ops : state'[o] = "ready" => state[o] = "ready" /\ owner'[o] = owner[o],
             \A u \in Threads : pc'[u] = "asleep" => /\ pc[u] = "asleep" /\ (notified[u] => notified'[u])
                                                     /\ (msg[u] # None => msg'[u] # None)
      PROVE  NoMissedOperation'
  BY <1>0, <1>1 DEF NoMissedOperation
<1>2. ASSUME NEW t \in Threads, NEW o \in Ops, NEW s \in Socks, Recv(t, o, s) \/ Accept(t, o, s)
      PROVE  NoMissedOperation'
  <2>1. /\ owner' = [owner EXCEPT ![o] = t]
        /\ \E st \in {"direct", "done", "queued"} : state' = [state EXCEPT ![o] = st]
        /\ pc' = pc \/ pc' = [pc EXCEPT ![t] = "try"]
    BY <1>2, CreateStates
  <2>2. PortStep
    BY <1>2, PortSteps, PortSame DEF Recv
  <2>3. \A x \in Ops : state'[x] = "ready" => state[x] = "ready" /\ owner'[x] = owner[x]
    BY <1>0, <2>1
  <2>4. \A u \in Threads : pc'[u] = "asleep" => pc[u] = "asleep"
    BY <1>0, <2>1
  <2> QED BY <1>1, <2>2, <2>3, <2>4 DEF PortStep
<1>3. ASSUME NEW S \in SUBSET Waiting, NEW st, MakeReady(S, st), UNCHANGED <<owner, pc, msg>>
      PROVE  NoMissedOperation'
  <2> SUFFICES ASSUME NEW o \in Ops, state'[o] = "ready", pc'[owner'[o]] = "asleep", msg'[owner'[o]] = None
               PROVE  notified'[owner'[o]]
    BY DEF NoMissedOperation
  <2>1. o \in S \/ (o \notin S /\ state[o] = "ready")
    BY <1>3, ReadyStates
  <2>2. owner[o] \in Threads
    <3>1. state[o] \in Active
      BY <1>3, <2>1, ReadyStates DEF Active
    <3> QED BY <3>1 DEF OpInv
  <2>3. pc[owner[o]] = "asleep" /\ msg[owner[o]] = None
    BY <1>3
  <2>4. notified' = [t \in Threads |->
            \/ notified[t]
            \/ /\ pc[t] = "asleep" /\ msg[t] = None
               /\ \E x \in Ops : \/ x \in S /\ owner[x] = t
                                 \/ x \notin S /\ state[x] = "ready" /\ (owner[x] = t \/ stale[x])]
    BY <1>3 DEF MakeReady, NotifyAsync
  <2>5. notified'[owner[o]]
    BY <2>1, <2>2, <2>3, <2>4
  <2> QED BY <1>3, <2>5
<1>4. ASSUME NEW t \in Threads, NEW s \in Socks, Cancel(t, s) \/ CloseSock(t, s) PROVE NoMissedOperation'
  BY <1>3, <1>4, ReadyActs
<1>5. ASSUME Poll PROVE NoMissedOperation'
  BY <1>3, <1>5, ReadyActs DEF Poll
<1>6. ASSUME NEW t \in Threads, Tell(t) \/ Report(t) PROVE NoMissedOperation'
  <2>1. /\ cur[t] \in Ops /\ owner' = owner
        /\ \E p \in {"idle", "body"} : pc' = [pc EXCEPT ![t] = p]
        /\ \E st \in {"queued", "done"} : state' = [state EXCEPT ![cur[t]] = st]
    BY <1>6, EndStates
  <2>2. PortStep
    BY <1>6, PortSteps
  <2>3. \A x \in Ops : state'[x] = "ready" => state[x] = "ready" /\ owner'[x] = owner[x]
    BY <1>0, <2>1
  <2>4. \A u \in Threads : pc'[u] = "asleep" => pc[u] = "asleep"
    BY <1>0, <2>1
  <2> QED BY <1>1, <2>2, <2>3, <2>4 DEF PortStep
<1>7. ASSUME NEW t \in Threads, RunApc(t) PROVE NoMissedOperation'
  <2>1. \E o \in Ops : state' = [state EXCEPT ![o] = "running"]
    BY <1>7, RunStates
  <2>2. /\ UNCHANGED <<owner, msg>> /\ pc' = [pc EXCEPT ![t] = "run"]
        /\ notified' = [notified EXCEPT ![t] = FALSE]
    BY <1>7 DEF RunApc, Leave, Goto
  <2> QED BY <1>0, <1>1, <2>1, <2>2
<1>8. ASSUME NEW t \in Threads, Sleep(t) PROVE NoMissedOperation'
  <2>1. /\ UNCHANGED <<owner, state, msg>> /\ notified' = [notified EXCEPT ![t] = FALSE]
        /\ \E p \in {"idle", "asleep"} : pc' = [pc EXCEPT ![t] = p]
        /\ ReadyFor(t) = <<>>
    BY <1>8 DEF Sleep, Leave, Goto, asyncVars
  <2>2. \A o \in Ops : state[o] = "ready" => owner[o] # t
    <3>1. ReadyOps(t) = {}
      BY <2>1, ReadyForFacts
    <3> QED BY <3>1 DEF ReadyOps, ListInv, Active
  <2> QED BY <1>0, <2>1, <2>2 DEF NoMissedOperation
<1>9. ASSUME NEW t \in Threads, Completed(t) \/ Take(t) PROVE NoMissedOperation'
  <2>1. /\ UNCHANGED <<owner, state>> /\ notified' = [notified EXCEPT ![t] = FALSE]
        /\ \E p \in {"idle", "got"} : pc' = [pc EXCEPT ![t] = p]
        /\ msg' = msg \/ \E m : msg' = [msg EXCEPT ![t] = m]
    BY <1>9 DEF Completed, Take, Leave, Goto, asyncVars
  <2> QED BY <1>0, <1>1, <2>1
<1>10. ASSUME NEW t \in Threads, \/ RemoveCompletion(t) \/ WaitOther(t) \/ EndThread(t) \/ Try(t) \/ Callback(t)
                                 \/ Enter(t)
       PROVE  NoMissedOperation'
  <2>1. /\ UNCHANGED <<owner, state, notified, msg>>
        /\ pc' = pc \/ \E p \in {"remove", "ended", "tell", "report", "body"} : pc' = [pc EXCEPT ![t] = p]
    BY <1>10 DEF RemoveCompletion, WaitOther, EndThread, Try, Callback, Enter, Goto, asyncVars, portVars
  <2> QED BY <1>0, <1>1, <2>1
<1>11. ASSUME NEW t \in Threads, GetThreadCompletion(t) PROVE NoMissedOperation'
  <2>1. /\ UNCHANGED <<owner, state, notified>> /\ pc' = [pc EXCEPT ![t] = "idle"]
        /\ msg' = [msg EXCEPT ![t] = None]
    BY <1>11 DEF GetThreadCompletion, Goto, asyncVars
  <2> QED BY <1>0, <1>1, <2>1
<1>12. ASSUME NEW t \in Threads, ClosePort(t) PROVE NoMissedOperation'
  BY <1>1, <1>12, PortSteps DEF ClosePort, asyncVars, PortStep
<1>13. ASSUME NEW t \in Threads, NEW p \in Posts, AddCompletion(t, p) PROVE NoMissedOperation'
  BY <1>1, <1>13, PortSteps DEF AddCompletion, asyncVars, PortStep
<1>14. ASSUME NEW o \in Ops, GrowStale(o) PROVE NoMissedOperation'
  BY <1>1, <1>14 DEF GrowStale, portVars
<1>15. ASSUME NEW s \in Socks, Arrive(s) PROVE NoMissedOperation'
  BY <1>1, <1>15 DEF Arrive, asyncVars, portVars
<1>16. ASSUME UNCHANGED vars PROVE NoMissedOperation'
  BY <1>1, <1>16 DEF vars, asyncVars, portVars
<1> QED BY <1>2, <1>4, <1>5, <1>6, <1>7, <1>8, <1>9, <1>10, <1>11, <1>12, <1>13, <1>14, <1>15, <1>16
        DEF Next, Calls, Step

-----------------------------------------------------------------------------
(* What was read, and in which order.                                       *)

LEMMA ReadStep == TypeOK /\ OpInv /\ CurInv /\ ReadInv /\ [Next]_vars => ReadInv'
<1> SUFFICES ASSUME TypeOK, OpInv, CurInv, ReadInv, [Next]_vars PROVE ReadInv'
  OBVIOUS
<1>0. /\ state \in [Ops -> {"idle", "direct", "queued", "ready", "running", "done"}]
      /\ sock \in [Ops -> Socks \cup {None}] /\ got \in [Ops -> 0..MaxArrivals]
      /\ result \in [Ops -> {"none", "again", "ok", "failed", "cancelled", "closed"}]
      /\ pc \in [Threads -> {"idle", "try", "tell", "remove", "body", "asleep",
                             "run", "report", "got", "ended"}]
      /\ cur \in [Threads -> Ops \cup {None}] /\ None \notin Ops
  BY AsyncAssumption DEF TypeOK
<1>1. ASSUME NEW t \in Threads, NEW o \in Ops, NEW s \in Socks, Recv(t, o, s) \/ Accept(t, o, s)
      PROVE  ReadInv'
  <2>1. /\ state[o] = "idle" /\ got[o] = 0 /\ sock' = [sock EXCEPT ![o] = s]
        /\ \E st \in {"direct", "done", "queued"} : state' = [state EXCEPT ![o] = st]
        /\ \/ /\ UNCHANGED <<got, result>>
              /\ (UNCHANGED <<pc, cur>> \/ (cur' = [cur EXCEPT ![t] = o] /\ pc' = [pc EXCEPT ![t] = "try"]))
           \/ /\ s \in Listeners /\ UNCHANGED <<pc, cur>>
              /\ got' = [got EXCEPT ![o] = taken[s] + 1] /\ result' = [result EXCEPT ![o] = "ok"]
    <3>1. state[o] = "idle" /\ got[o] = 0 /\ sock' = [sock EXCEPT ![o] = s]
      BY <1>1, CreateStates DEF OpInv
    <3>2. \E st \in {"direct", "done", "queued"} : state' = [state EXCEPT ![o] = st]
      BY <1>1, CreateStates
    <3>3. CASE Recv(t, o, s)
      BY <3>1, <3>2, <3>3 DEF Recv, Goto
    <3>4. CASE Accept(t, o, s)
      <4>1. UNCHANGED <<pc, cur>> /\ s \in Listeners
        BY <3>4 DEF Accept
      <4>2. CASE Readable(s)
        <5>1. got' = [got EXCEPT ![o] = taken[s] + 1] /\ result' = [result EXCEPT ![o] = "ok"]
          BY <3>4, <4>2 DEF Accept
        <5> QED BY <3>1, <3>2, <4>1, <5>1
      <4>3. CASE ~Readable(s)
        <5>1. UNCHANGED <<got, result>>
          BY <3>4, <4>3 DEF Accept
        <5> QED BY <3>1, <3>2, <4>1, <5>1
      <4> QED BY <4>2, <4>3
    <3> QED BY <1>1, <3>3, <3>4
  <2>2. ASSUME NEW x \in Ops, x # o PROVE /\ got'[x] = got[x] /\ result'[x] = result[x] /\ sock'[x] = sock[x]
                                          /\ state'[x] = state[x]
                                          /\ \A u \in Threads : cur'[u] = x => cur[u] = x /\ pc'[u] = pc[u]
    BY <1>0, <2>1, <2>2
  <2>3. got'[o] = 0 \/ sock'[o] \in Listeners
    BY <1>0, <2>1
  <2> QED BY <2>2, <2>3 DEF ReadInv
<1>2. ASSUME NEW S \in SUBSET Waiting, NEW st, MakeReady(S, st), UNCHANGED <<sock, result, pc, cur>>,
             \A o \in Ops : got'[o] # got[o] => sock[o] \in Listeners
      PROVE  ReadInv'
  <2>1. /\ \A o \in S : o \in Ops /\ state[o] \in {"queued", "ready"} /\ state'[o] = "ready"
        /\ \A o \in Ops : o \notin S => state'[o] = state[o]
    BY <1>2, ReadyStates
  <2> QED BY <1>0, <1>2, <2>1 DEF ReadInv
<1>3. ASSUME NEW t \in Threads, NEW s \in Socks, Cancel(t, s) \/ CloseSock(t, s) PROVE ReadInv'
  <2>1. got' = got
    BY <1>3 DEF Cancel, CloseSock
  <2> QED BY <1>2, <1>3, <2>1, ReadyActs
<1>4. ASSUME Poll PROVE ReadInv'
  <2>1. got' = [o \in Ops |-> IF o \in {x \in Fired : sock[x] \in Listeners}
                              THEN taken[sock[o]] + 1 ELSE got[o]]
    BY <1>4 DEF Poll, Fired
  <2>2. \A o \in Ops : got'[o] # got[o] => sock[o] \in Listeners
    BY <2>1
  <2>3. UNCHANGED <<sock, result, pc, cur>>
    BY <1>4 DEF Poll
  <2> QED BY <1>2, <1>4, <2>2, <2>3, ReadyActs
<1>5. ASSUME NEW t \in Threads, Tell(t) \/ Report(t) PROVE ReadInv'
  <2>1. /\ cur[t] \in Ops /\ UNCHANGED <<sock, got, result>> /\ cur' = [cur EXCEPT ![t] = None]
        /\ \E p \in {"idle", "body"} : pc' = [pc EXCEPT ![t] = p]
        /\ \/ state' = [state EXCEPT ![cur[t]] = "done"]
           \/ result[cur[t]] = "again" /\ state' = [state EXCEPT ![cur[t]] = "queued"]
    BY <1>5, EndStates
  <2>2. \A x \in Ops, u \in Threads : cur'[u] = x => cur[u] = x /\ pc'[u] = pc[u]
    BY <1>0, <2>1
  <2> QED BY <1>0, <2>1, <2>2 DEF ReadInv
<1>6. ASSUME NEW t \in Threads, RunApc(t) PROVE ReadInv'
  <2>1. PICK o \in Ops : /\ state[o] = "ready" /\ state' = [state EXCEPT ![o] = "running"]
                         /\ cur' = [cur EXCEPT ![t] = o] /\ pc' = [pc EXCEPT ![t] = "run"]
    BY <1>6, RunStates
  <2>2. UNCHANGED <<sock, got, result>>
    BY <1>6 DEF RunApc
  <2>3. \A x \in Ops, u \in Threads : x # o /\ cur'[u] = x => cur[u] = x /\ pc'[u] = pc[u]
    BY <1>0, <2>1
  <2> QED BY <1>0, <2>1, <2>2, <2>3 DEF ReadInv
<1>7. ASSUME NEW t \in Threads, Try(t) \/ Callback(t) PROVE ReadInv'
  <2> DEFINE o == cur[t]
  <2>1. /\ o \in Ops /\ state[o] \in {"direct", "running"} /\ UNCHANGED <<state, sock, cur>>
        /\ pc[t] \in {"try", "run"} /\ \E p \in {"tell", "report"} : pc' = [pc EXCEPT ![t] = p]
    BY <1>7, ReadStates
  <2>2. \A u \in Threads : cur[u] = o => u = t
    BY <2>1, <1>0 DEF CurInv
  <2>3. sock[o] \in Socks
    BY <2>1 DEF OpInv, Active
  <2>4. \/ \E k : got' = [got EXCEPT ![o] = k] /\ result' = [result EXCEPT ![o] = "ok"]
        \/ got' = got /\ \E r : result' = [result EXCEPT ![o] = r]
    <3>1. CASE ReadNow(cur[t])
      BY <2>1, <2>3, <3>1, ReadNowFacts
    <3>2. CASE ~ReadNow(cur[t])
      BY <1>7, <3>2, ReadStates
    <3> QED BY <3>1, <3>2
  <2>5. ASSUME NEW x \in Ops, x # o PROVE /\ got'[x] = got[x] /\ result'[x] = result[x]
                                          /\ \A u \in Threads : cur'[u] = x => cur[u] = x /\ pc'[u] = pc[u]
    BY <1>0, <2>1, <2>4, <2>5
  <2>6. got[o] = 0 \/ sock[o] \in Listeners
    BY <1>0, <2>1 DEF ReadInv
  <2>7. \A u \in Threads : cur'[u] = o => pc'[u] \in {"tell", "report"}
    BY <1>0, <2>1, <2>2
  <2>8. got'[o] = got[o] \/ result'[o] = "ok"
    BY <1>0, <2>1, <2>4
  <2> HIDE DEF o
  <2> QED BY <2>1, <2>5, <2>6, <2>7, <2>8 DEF ReadInv
<1>8. ASSUME UNCHANGED <<state, sock, got, result, cur>>,
             \A u \in Threads : cur[u] # None => pc'[u] = pc[u]
      PROVE  ReadInv'
  BY <1>0, <1>8 DEF ReadInv
<1>9. ASSUME NEW t \in Threads, \/ RemoveCompletion(t) \/ WaitOther(t) \/ ClosePort(t) \/ EndThread(t)
                                \/ Enter(t) \/ Completed(t) \/ Take(t) \/ Sleep(t) \/ GetThreadCompletion(t)
      PROVE  ReadInv'
  <2>1. /\ UNCHANGED <<state, sock, got, result, cur>>
        /\ pc[t] \in {"idle", "remove", "asleep", "body", "got"}
        /\ pc' = pc \/ \E p : pc' = [pc EXCEPT ![t] = p]
    BY <1>9 DEF RemoveCompletion, WaitOther, ClosePort, EndThread, Enter, Leave, Goto,
                Completed, Take, Sleep, GetThreadCompletion, asyncVars
  <2>2. cur[t] = None
    BY <2>1 DEF CurInv
  <2> QED BY <1>0, <1>8, <2>1, <2>2
<1>10. ASSUME NEW t \in Threads, NEW p \in Posts, AddCompletion(t, p) PROVE ReadInv'
  BY <1>8, <1>10 DEF AddCompletion, asyncVars
<1>11. ASSUME NEW o \in Ops, GrowStale(o) PROVE ReadInv'
  BY <1>8, <1>11 DEF GrowStale
<1>12. ASSUME NEW s \in Socks, Arrive(s) PROVE ReadInv'
  BY <1>8, <1>12 DEF Arrive, asyncVars
<1>13. ASSUME UNCHANGED vars PROVE ReadInv'
  BY <1>8, <1>13 DEF vars, asyncVars
<1> QED BY <1>1, <1>3, <1>4, <1>5, <1>6, <1>7, <1>9, <1>10, <1>11, <1>12, <1>13 DEF Next, Calls, Step

LEMMA CancelledLemma == TypeOK /\ ReadInv => CancelledReadNothing
<1> SUFFICES ASSUME TypeOK, ReadInv, NEW o \in Ops, sock[o] \notin Listeners,
                    result[o] \in {"cancelled", "closed", "failed"}
             PROVE  got[o] = 0
  BY DEF CancelledReadNothing
<1>1. got[o] \in 0..MaxArrivals /\ ~(got[o] > 0)
  BY DEF TypeOK, ReadInv
<1> QED BY <1>1, AsyncAssumption

\* What starting one more operation adds to the order.
LEMMA StartFacts ==
    ASSUME started \in Seq(Ops), IsInjective(started), NEW o \in Ops, o \notin ToSet(started),
           started' = Append(started, o)
    PROVE  /\ IsInjective(started') /\ ToSet(started') = ToSet(started) \cup {o}
           /\ \A a, b : Before(a, b)' <=> (Before(a, b) \/ (b = o /\ a \in ToSet(started)))
           /\ \A a, b : Before(a, b) => a \in ToSet(started) /\ b \in ToSet(started)
<1>1. /\ Len(started) \in Nat /\ DOMAIN started = 1..Len(started)
      /\ DOMAIN started' = 1..(Len(started) + 1) /\ started'[Len(started) + 1] = o
      /\ \A i \in 1..Len(started) : started'[i] = started[i]
  OBVIOUS
<1>2. \A i \in 1..Len(started) : started[i] # o
  BY <1>1 DEF ToSet
<1>3. IsInjective(started')
  BY <1>1, <1>2 DEF IsInjective
<1>4. ToSet(started') = ToSet(started) \cup {o}
  BY <1>1 DEF ToSet
<1>5. \A a, b : Before(a, b) => a \in ToSet(started) /\ b \in ToSet(started)
  BY DEF Before, ToSet
<1>6. ASSUME NEW a, NEW b, Before(a, b) PROVE Before(a, b)'
  <2>1. PICK i, j \in DOMAIN started : i < j /\ started[i] = a /\ started[j] = b
    BY <1>6 DEF Before
  <2>2. i \in DOMAIN started' /\ j \in DOMAIN started' /\ started'[i] = a /\ started'[j] = b
    BY <1>1, <2>1
  <2> QED BY <2>1, <2>2 DEF Before
<1>7. ASSUME NEW a \in ToSet(started) PROVE Before(a, o)'
  <2>1. PICK i \in DOMAIN started : started[i] = a
    BY DEF ToSet
  <2>2. i \in DOMAIN started' /\ Len(started) + 1 \in DOMAIN started' /\ i < Len(started) + 1
        /\ started'[i] = a
    BY <1>1, <2>1
  <2> QED BY <1>1, <2>2 DEF Before
<1>8. ASSUME NEW a, NEW b, Before(a, b)' PROVE Before(a, b) \/ (b = o /\ a \in ToSet(started))
  <2>1. PICK i, j \in DOMAIN started' : i < j /\ started'[i] = a /\ started'[j] = b
    BY <1>8 DEF Before
  <2>2. i \in 1..Len(started) /\ started[i] = a
    BY <1>1, <2>1
  <2>3. CASE j = Len(started) + 1
    BY <1>1, <2>1, <2>2, <2>3 DEF ToSet
  <2>4. CASE j # Len(started) + 1
    <3>1. j \in 1..Len(started) /\ started[j] = b
      BY <1>1, <2>1, <2>4
    <3> QED BY <1>1, <2>1, <2>2, <3>1 DEF Before
  <2> QED BY <2>3, <2>4
<1> QED BY <1>3, <1>4, <1>5, <1>6, <1>7, <1>8

LEMMA StartStep == TypeOK /\ ListInv /\ OpInv /\ CurInv /\ StartInv /\ [Next]_vars => StartInv'
<1> SUFFICES ASSUME TypeOK, ListInv, OpInv, CurInv, StartInv, [Next]_vars PROVE StartInv'
  OBVIOUS
<1>0. /\ state \in [Ops -> {"idle", "direct", "queued", "ready", "running", "done"}]
      /\ owner \in [Ops -> Threads \cup {None}] /\ list \in Seq(Ops) /\ started \in Seq(Ops)
      /\ None \notin Ops
  BY AsyncAssumption DEF TypeOK
<1>1. ASSUME UNCHANGED <<started, owner>>,
             \A o \in Ops : /\ state'[o] = "idle" => state[o] = "idle"
                            /\ state'[o] = "direct" => state[o] = "direct"
                            /\ state'[o] \in Active => state[o] \in Active,
             \A i, j \in DOMAIN list' : i < j =>
                 \E k, l \in DOMAIN list : k < l /\ list'[i] = list[k] /\ list'[j] = list[l]
      PROVE  StartInv'
  <2>1. \A a, b : Before(a, b)' <=> Before(a, b)
    BY <1>1 DEF Before
  <2> QED BY <1>1, <2>1 DEF StartInv
<1>2. ASSUME list' = list
      PROVE  \A i, j \in DOMAIN list' : i < j =>
                 \E k, l \in DOMAIN list : k < l /\ list'[i] = list[k] /\ list'[j] = list[l]
  BY <1>2
<1>3. ASSUME NEW t \in Threads, NEW o \in Ops, NEW s \in Socks, Recv(t, o, s) \/ Accept(t, o, s)
      PROVE  StartInv'
  <2>1. /\ pc[t] = "idle" /\ state[o] = "idle" /\ owner' = [owner EXCEPT ![o] = t]
        /\ started' = Append(started, o)
    BY <1>3, CreateStates
  <2>2. /\ \E st \in {"direct", "done", "queued"} : state' = [state EXCEPT ![o] = st]
        /\ list' = Append(list, o) \/ list' = list
    BY <1>3, CreateStates
  <2>3. o \notin ToSet(started) /\ IsInjective(started)
    BY <2>1 DEF StartInv
  <2>4. /\ IsInjective(started') /\ ToSet(started') = ToSet(started) \cup {o}
        /\ \A a, b : Before(a, b)' <=> (Before(a, b) \/ (b = o /\ a \in ToSet(started)))
        /\ \A a, b : Before(a, b) => a \in ToSet(started) /\ b \in ToSet(started)
    BY <1>0, <2>1, <2>3, StartFacts
  <2>5. ASSUME NEW x \in Ops, x # o PROVE state'[x] = state[x] /\ owner'[x] = owner[x]
    BY <1>0, <2>1, <2>2, <2>5
  <2>6. state'[o] # "idle" /\ owner'[o] = t
    BY <1>0, <2>1, <2>2
  <2>7. ASSUME NEW x \in Ops
        PROVE  /\ x \in ToSet(started') => state'[x] # "idle"
               /\ state'[x] \in Active => x \in ToSet(started')
    BY <2>4, <2>5, <2>6 DEF StartInv
  <2> DEFINE Later(a, b) == \E k, l \in DOMAIN started' : k < l /\ started'[k] = a /\ started'[l] = b
  <2>10. \A a, b : Later(a, b) <=> Before(a, b) \/ (b = o /\ a \in ToSet(started))
    BY <2>4 DEF Before
  <2> HIDE DEF Later
  <2>8. ASSUME NEW i \in DOMAIN list', NEW j \in DOMAIN list', i < j PROVE Later(list'[i], list'[j])
    <3>1. CASE list' = list
      BY <2>8, <2>10, <3>1 DEF StartInv
    <3>2. CASE list' = Append(list, o)
      <4>1. /\ Len(list) \in Nat /\ DOMAIN list = 1..Len(list)
            /\ DOMAIN list' = 1..(Len(list) + 1) /\ list'[Len(list) + 1] = o
            /\ \A k \in DOMAIN list : list'[k] = list[k]
        BY <2>1, <3>2, AddFacts
      <4>2. i \in DOMAIN list
        BY <2>8, <4>1
      <4>3. CASE j \in DOMAIN list
        BY <2>8, <2>10, <4>1, <4>2, <4>3 DEF StartInv
      <4>4. CASE j \notin DOMAIN list
        <5>1. j = Len(list) + 1
          BY <4>1, <4>4
        <5>2. list[i] \in Ops /\ list[i] \in ToSet(list)
          BY <1>0, <4>2 DEF ToSet
        <5>3. list[i] \in ToSet(started)
          BY <5>2 DEF ListInv, StartInv
        <5> QED BY <2>10, <4>1, <4>2, <5>1, <5>3
      <4> QED BY <4>3, <4>4
    <3> QED BY <2>2, <3>1, <3>2
  <2>9. ASSUME NEW a \in Ops, NEW b \in Ops, state'[a] = "direct", Before(a, b)' PROVE owner'[b] # owner'[a]
    <3>1. a \in ToSet(started) /\ a # o /\ state[a] = "direct" /\ owner'[a] = owner[a]
      BY <2>3, <2>4, <2>5, <2>9
    <3>2. CASE b = o
      <4>1. cur[t] = None
        BY <2>1 DEF CurInv
      <4>2. cur[owner[a]] = a
        BY <3>1 DEF CurInv
      <4> QED BY <1>0, <2>6, <3>1, <3>2, <4>1, <4>2
    <3>3. CASE b # o
      <4>1. Before(a, b)
        BY <2>4, <2>9, <3>3
      <4> QED BY <2>5, <3>1, <3>3, <4>1 DEF StartInv
    <3> QED BY <3>2, <3>3
  <2>11. (\A i, j \in DOMAIN list : i < j => Before(list[i], list[j]))'
    BY <2>8 DEF Before, Later
  <2>12. (\A a, b \in Ops : state[a] = "direct" /\ Before(a, b) => owner[b] # owner[a])'
    BY <2>9
  <2> QED BY <2>4, <2>7, <2>11, <2>12 DEF StartInv
<1>4. ASSUME NEW S \in SUBSET Waiting, NEW st, MakeReady(S, st), UNCHANGED <<list, owner, started>>
      PROVE  StartInv'
  <2>1. /\ \A o \in S : o \in Ops /\ state[o] \in {"queued", "ready"} /\ state'[o] = "ready"
        /\ \A o \in Ops : o \notin S => state'[o] = state[o]
    BY <1>4, ReadyStates
  <2> QED BY <1>1, <1>2, <1>4, <2>1 DEF Active
<1>5. ASSUME NEW t \in Threads, NEW s \in Socks, Cancel(t, s) \/ CloseSock(t, s) PROVE StartInv'
  BY <1>4, <1>5, ReadyActs
<1>6. ASSUME Poll PROVE StartInv'
  BY <1>4, <1>6, ReadyActs DEF Poll
<1>7. ASSUME NEW t \in Threads, Tell(t) \/ Report(t) PROVE StartInv'
  <2>1. /\ cur[t] \in Ops /\ UNCHANGED <<owner, started>> /\ state[cur[t]] \in Active
        /\ \E st \in {"queued", "done"} : state' = [state EXCEPT ![cur[t]] = st]
    BY <1>7, EndStates DEF Active
  <2>2. \A i, j \in DOMAIN list' : i < j =>
            \E k, l \in DOMAIN list : k < l /\ list'[i] = list[k] /\ list'[j] = list[l]
    <3>1. CASE result[cur[t]] = "again"
      BY <1>2, <1>7, <3>1, EndStates
    <3>2. CASE result[cur[t]] # "again"
      <4>1. \E pend \in BOOLEAN : Finish(cur[t], pend)
        BY <1>7, <3>2, EndStates
      <4> QED BY <2>1, <4>1, FinishFacts
    <3> QED BY <3>1, <3>2
  <2>3. \A o \in Ops : /\ state'[o] = "idle" => state[o] = "idle"
                       /\ state'[o] = "direct" => state[o] = "direct"
                       /\ state'[o] \in Active => state[o] \in Active
    BY <1>0, <2>1
  <2> QED BY <1>1, <2>1, <2>2, <2>3
<1>8. ASSUME NEW t \in Threads, RunApc(t) PROVE StartInv'
  <2>1. PICK o \in Ops : state[o] = "ready" /\ state' = [state EXCEPT ![o] = "running"]
    BY <1>8, RunStates
  <2>2. UNCHANGED <<list, owner, started>>
    BY <1>8 DEF RunApc
  <2>3. \A x \in Ops : /\ state'[x] = "idle" => state[x] = "idle"
                       /\ state'[x] = "direct" => state[x] = "direct"
                       /\ state'[x] \in Active => state[x] \in Active
    BY <1>0, <2>1 DEF Active
  <2> QED BY <1>1, <1>2, <2>2, <2>3
<1>9. ASSUME UNCHANGED <<list, state, owner, started>> PROVE StartInv'
  BY <1>1, <1>2, <1>9
<1>10. ASSUME NEW t \in Threads, \/ RemoveCompletion(t) \/ WaitOther(t) \/ ClosePort(t) \/ EndThread(t)
                                 \/ Try(t) \/ Callback(t) \/ Enter(t) \/ Completed(t) \/ Take(t)
                                 \/ Sleep(t) \/ GetThreadCompletion(t)
       PROVE  StartInv'
  BY <1>9, <1>10 DEF RemoveCompletion, WaitOther, ClosePort, EndThread, Try, Callback, Enter,
                     Completed, Take, Sleep, GetThreadCompletion, asyncVars
<1>11. ASSUME NEW t \in Threads, NEW p \in Posts, AddCompletion(t, p) PROVE StartInv'
  BY <1>9, <1>11 DEF AddCompletion, asyncVars
<1>12. ASSUME NEW o \in Ops, GrowStale(o) PROVE StartInv'
  BY <1>9, <1>12 DEF GrowStale
<1>13. ASSUME NEW s \in Socks, Arrive(s) PROVE StartInv'
  BY <1>9, <1>13 DEF Arrive, asyncVars
<1>14. ASSUME UNCHANGED vars PROVE StartInv'
  BY <1>9, <1>14 DEF vars, asyncVars
<1> QED BY <1>3, <1>5, <1>6, <1>7, <1>8, <1>10, <1>11, <1>12, <1>13, <1>14 DEF Next, Calls, Step

\* One operation is not started both before and after another.
LEMMA BeforeOnce ==
    ASSUME TypeOK, StartInv, NEW a, NEW b, Before(a, b)
    PROVE  /\ a # b /\ ~Before(b, a)
           /\ a \in ToSet(started) /\ b \in ToSet(started)
<1>1. started \in Seq(Ops) /\ IsInjective(started)
  BY DEF TypeOK, StartInv
<1>2. DOMAIN started \subseteq Nat
  BY <1>1
<1>3. PICK i, j \in DOMAIN started : i < j /\ started[i] = a /\ started[j] = b
  BY DEF Before
<1>4. \A k, l \in DOMAIN started : started[k] = started[l] => k = l
  BY <1>1 DEF IsInjective
<1>5. a # b
  BY <1>2, <1>3, <1>4
<1>6. ASSUME Before(b, a) PROVE FALSE
  <2>1. PICK k, l \in DOMAIN started : k < l /\ started[k] = b /\ started[l] = a
    BY <1>6 DEF Before
  <2>2. k = j /\ l = i
    BY <1>3, <1>4, <2>1
  <2> QED BY <1>2, <1>3, <2>1, <2>2
<1> QED BY <1>3, <1>5, <1>6 DEF ToSet

\* When the poller makes an operation ready, the earlier ones of its thread on
\* its socket have ended.
LEMMA FiredInOrder ==
    ASSUME TypeOK, ListInv, StartInv, NEW a \in Ops, NEW b \in Fired,
           Before(a, b), owner[a] = owner[b], sock[a] = sock[b]
    PROVE  state[a] = "done"
<1>1. /\ b \in Ops
      /\ \E k \in DOMAIN list : /\ list[k] = b
                                /\ \A j \in 1..(k - 1) : sock[list[j]] = sock[b] => state[list[j]] = "direct"
  BY FiredFacts
<1>2. PICK k \in DOMAIN list : /\ list[k] = b
                               /\ \A j \in 1..(k - 1) : sock[list[j]] = sock[b] => state[list[j]] = "direct"
  BY <1>1
<1>3. state[a] # "direct"
  BY <1>1 DEF StartInv
<1>4. state[a] # "idle"
  BY BeforeOnce DEF StartInv
<1>5. SUFFICES ASSUME state[a] # "done" PROVE FALSE
  OBVIOUS
<1>6. state[a] \in Active
  BY <1>4, <1>5 DEF TypeOK, Active
<1>7. PICK m \in DOMAIN list : list[m] = a
  BY <1>6 DEF ListInv, ToSet
<1>8. k \in Nat /\ m \in Nat /\ k >= 1 /\ m >= 1
  <2>1. list \in Seq(Ops)
    BY DEF TypeOK
  <2>2. DOMAIN list = 1..Len(list) /\ Len(list) \in Nat
    BY <2>1
  <2> QED BY <2>2
<1>9. m # k
  BY <1>2, <1>7, BeforeOnce
<1>10. ~(k < m)
  BY <1>2, <1>7, BeforeOnce DEF StartInv
<1>11. m \in 1..(k - 1)
  BY <1>8, <1>9, <1>10
<1> QED BY <1>2, <1>3, <1>7, <1>11

LEMMA OrderStep ==
    TypeOK /\ ListInv /\ OpInv /\ CurInv /\ ReadInv /\ StartInv /\ OrderInv /\ [Next]_vars => OrderInv'
<1> SUFFICES ASSUME TypeOK, ListInv, OpInv, CurInv, ReadInv, StartInv, OrderInv, [Next]_vars PROVE OrderInv'
  OBVIOUS
<1>0. /\ state \in [Ops -> {"idle", "direct", "queued", "ready", "running", "done"}]
      /\ owner \in [Ops -> Threads \cup {None}] /\ sock \in [Ops -> Socks \cup {None}]
      /\ pending \in [Ops -> BOOLEAN] /\ got \in [Ops -> 0..MaxArrivals]
      /\ status \in [Ops -> {"alerted", "cancelled", "closed"}]
      /\ started \in Seq(Ops)
  BY DEF TypeOK
<1> DEFINE Reads(x) == pending[x] /\ (got[x] > 0 \/ (state[x] \in {"ready", "running"} /\ status[x] = "alerted"))
           Reads1(x) == /\ pending'[x]
                        /\ got'[x] > 0 \/ (state'[x] \in {"ready", "running"} /\ status'[x] = "alerted")
<1>1. ASSUME UNCHANGED <<started, owner, sock>>,
             \A x \in Ops : state[x] = "done" => state'[x] = "done",
             \A a, b \in Ops : /\ Before(a, b) /\ owner[a] = owner[b] /\ sock[a] = sock[b]
                               /\ Reads1(b) /\ ~Reads(b)
                               => state[a] = "done"
      PROVE  OrderInv'
  <2>1. \A a, b : Before(a, b)' <=> Before(a, b)
    BY <1>1 DEF Before
  <2> QED BY <1>1, <2>1 DEF OrderInv
<1>2. ASSUME NEW t \in Threads, NEW o \in Ops, NEW s \in Socks, Recv(t, o, s) \/ Accept(t, o, s)
      PROVE  OrderInv'
  <2>1. /\ state[o] = "idle" /\ owner' = [owner EXCEPT ![o] = t] /\ sock' = [sock EXCEPT ![o] = s]
        /\ started' = Append(started, o) /\ status' = status
    BY <1>2, CreateStates
  <2>2. /\ \E st \in {"direct", "done", "queued"} : state' = [state EXCEPT ![o] = st]
        /\ \/ pending' = pending /\ (got' = got \/ got' = [got EXCEPT ![o] = taken[s] + 1])
           \/ pending' = [pending EXCEPT ![o] = TRUE] /\ got' = got
    BY <1>2, CreateStates
  <2>3. o \notin ToSet(started) /\ IsInjective(started) /\ ~pending[o] /\ got[o] = 0
    BY <2>1 DEF StartInv, OpInv
  <2>4. /\ \A a, b : Before(a, b)' <=> (Before(a, b) \/ (b = o /\ a \in ToSet(started)))
        /\ \A a, b : Before(a, b) => a \in ToSet(started) /\ b \in ToSet(started)
    BY <1>0, <2>1, <2>3, StartFacts
  <2>5. ~Reads1(o)
    BY <1>0, <2>2, <2>3
  <2>6. ASSUME NEW x \in Ops, x # o
        PROVE  /\ state'[x] = state[x] /\ owner'[x] = owner[x] /\ sock'[x] = sock[x]
               /\ pending'[x] = pending[x] /\ got'[x] = got[x] /\ status'[x] = status[x]
    BY <1>0, <2>1, <2>2, <2>6
  <2> SUFFICES ASSUME NEW a \in Ops, NEW b \in Ops, Before(a, b)', owner'[a] = owner'[b], sock'[a] = sock'[b],
                      Reads1(b)
               PROVE  state'[a] = "done"
    BY DEF OrderInv
  <2>7. b # o
    BY <2>5
  <2>8. Before(a, b) /\ a # o
    BY <2>3, <2>4, <2>7
  <2>9. state[a] = "done"
    BY <2>6, <2>7, <2>8 DEF OrderInv
  <2> QED BY <2>6, <2>8, <2>9
<1>3. ASSUME NEW S \in SUBSET Waiting, NEW st \in {"cancelled", "closed"}, MakeReady(S, st),
             UNCHANGED <<started, owner, sock, pending, got>>
      PROVE  OrderInv'
  <2>1. /\ \A o \in S : o \in Ops /\ state[o] \in {"queued", "ready"} /\ state'[o] = "ready"
        /\ \A o \in Ops : o \notin S => state'[o] = state[o]
    BY <1>3, ReadyStates
  <2>2. \A o \in Ops : status'[o] = IF o \in S THEN st ELSE status[o]
    BY <1>3 DEF MakeReady
  <2>3. \A x \in Ops : state[x] = "done" => state'[x] = "done"
    BY <2>1
  <2>4. \A x \in Ops : Reads1(x) => Reads(x)
    BY <1>0, <1>3, <2>1, <2>2
  <2> QED BY <1>1, <1>3, <2>3, <2>4
<1>4. ASSUME NEW t \in Threads, NEW s \in Socks, Cancel(t, s) \/ CloseSock(t, s) PROVE OrderInv'
  <2>1. got' = got
    BY <1>4 DEF Cancel, CloseSock
  <2> QED BY <1>3, <1>4, <2>1, ReadyActs
<1>5. ASSUME Poll PROVE OrderInv'
  <2>1. /\ Fired \in SUBSET Waiting /\ MakeReady(Fired, "alerted")
        /\ UNCHANGED <<started, owner, sock, pending>>
    BY <1>5, ReadyActs DEF Poll
  <2>2. /\ \A o \in Fired : o \in Ops /\ state[o] \in {"queued", "ready"} /\ state'[o] = "ready"
        /\ \A o \in Ops : o \notin Fired => state'[o] = state[o]
    BY <2>1, ReadyStates
  <2>3. got' = [o \in Ops |-> IF o \in {x \in Fired : sock[x] \in Listeners}
                              THEN taken[sock[o]] + 1 ELSE got[o]]
    BY <1>5 DEF Poll, Fired
  <2>4. \A o \in Ops : o \notin Fired => got'[o] = got[o] /\ status'[o] = status[o]
    BY <2>1, <2>3 DEF MakeReady
  <2>5. \A x \in Ops : state[x] = "done" => state'[x] = "done"
    BY <2>2
  <2>6. \A x \in Ops : Reads1(x) /\ ~Reads(x) => x \in Fired
    BY <2>1, <2>2, <2>4
  <2>7. \A a, b \in Ops : /\ Before(a, b) /\ owner[a] = owner[b] /\ sock[a] = sock[b]
                          /\ Reads1(b) /\ ~Reads(b)
                          => state[a] = "done"
    BY <2>6, FiredInOrder
  <2> QED BY <1>1, <2>1, <2>5, <2>7
<1>6. ASSUME NEW t \in Threads, Tell(t) \/ Report(t) PROVE OrderInv'
  <2> DEFINE o == cur[t]
  <2>1. /\ o \in Ops /\ UNCHANGED <<started, owner, sock, got>> /\ state[o] \in {"direct", "running"}
        /\ \/ state' = [state EXCEPT ![o] = "done"] /\ pending' = pending
           \/ /\ state' = [state EXCEPT ![o] = "queued"] /\ result[o] = "again"
              /\ \/ state[o] = "direct" /\ pending' = [pending EXCEPT ![o] = TRUE]
                 \/ pending' = pending
    BY <1>6, EndStates
  <2>2. \A x \in Ops : x # o => status'[x] = status[x]
    BY <1>0, <1>6 DEF Tell, Report, Finish
  <2>3. state[o] = "direct" /\ result[o] = "again" => got[o] = 0
    BY <1>0, <2>1, AsyncAssumption DEF ReadInv, OpInv
  <2> HIDE DEF o
  <2>4. \A x \in Ops : state[x] = "done" => state'[x] = "done"
    BY <1>0, <2>1
  <2>5. Reads1(o) => Reads(o)
    BY <1>0, <2>1, <2>3
  <2>6. \A x \in Ops : x # o /\ Reads1(x) => Reads(x)
    BY <1>0, <2>1, <2>2
  <2> QED BY <1>1, <2>1, <2>4, <2>5, <2>6
<1>7. ASSUME NEW t \in Threads, RunApc(t) PROVE OrderInv'
  <2>1. PICK o \in Ops : state[o] = "ready" /\ state' = [state EXCEPT ![o] = "running"]
    BY <1>7, RunStates
  <2>2. UNCHANGED <<started, owner, sock, pending, got, status>>
    BY <1>7 DEF RunApc
  <2>3. \A x \in Ops : (state[x] = "done" => state'[x] = "done") /\ (Reads1(x) => Reads(x))
    BY <1>0, <2>1, <2>2
  <2> QED BY <1>1, <2>2, <2>3
<1>8. ASSUME NEW t \in Threads, Try(t) \/ Callback(t) PROVE OrderInv'
  <2> DEFINE o == cur[t]
  <2>1. /\ o \in Ops /\ UNCHANGED <<started, owner, sock, pending, state, status>>
        /\ state[o] = IF pc[t] = "try" THEN "direct" ELSE "running"
        /\ pc[t] \in {"try", "run"}
    BY <1>8, ReadStates
  <2>2. \/ \E k : got' = [got EXCEPT ![o] = k] /\ (pc[t] = "run" => status[o] = "alerted")
        \/ got' = got
    <3>1. sock[o] \in Socks
      BY <2>1 DEF OpInv, Active
    <3>2. CASE ReadNow(o) /\ (pc[t] = "run" => status[o] = "alerted")
      BY <2>1, <3>1, <3>2, ReadNowFacts
    <3>3. CASE ~(ReadNow(o) /\ (pc[t] = "run" => status[o] = "alerted"))
      BY <1>8, <3>3, ReadStates
    <3> QED BY <3>2, <3>3
  <2>3. state[o] = "direct" => ~pending[o]
    BY <2>1 DEF OpInv
  <2> HIDE DEF o
  <2>4. Reads1(o) => Reads(o)
    BY <1>0, <2>1, <2>2, <2>3
  <2>5. \A x \in Ops : x # o /\ Reads1(x) => Reads(x)
    BY <1>0, <2>1, <2>2
  <2> QED BY <1>1, <2>1, <2>4, <2>5
<1>9. ASSUME UNCHANGED <<started, owner, sock, pending, state, status, got>> PROVE OrderInv'
  BY <1>1, <1>9
<1>10. ASSUME NEW t \in Threads, \/ RemoveCompletion(t) \/ WaitOther(t) \/ ClosePort(t) \/ EndThread(t)
                                 \/ Enter(t) \/ Completed(t) \/ Take(t) \/ Sleep(t) \/ GetThreadCompletion(t)
       PROVE  OrderInv'
  BY <1>9, <1>10 DEF RemoveCompletion, WaitOther, ClosePort, EndThread, Enter,
                     Completed, Take, Sleep, GetThreadCompletion, asyncVars
<1>11. ASSUME NEW t \in Threads, NEW p \in Posts, AddCompletion(t, p) PROVE OrderInv'
  BY <1>9, <1>11 DEF AddCompletion, asyncVars
<1>12. ASSUME NEW o \in Ops, GrowStale(o) PROVE OrderInv'
  BY <1>9, <1>12 DEF GrowStale
<1>13. ASSUME NEW s \in Socks, Arrive(s) PROVE OrderInv'
  BY <1>9, <1>13 DEF Arrive, asyncVars
<1>14. ASSUME UNCHANGED vars PROVE OrderInv'
  BY <1>9, <1>14 DEF vars, asyncVars
<1> QED BY <1>2, <1>4, <1>5, <1>6, <1>7, <1>8, <1>10, <1>11, <1>12, <1>13, <1>14 DEF Next, Calls, Step

\* A pending operation that has something had it before the step, or takes the
\* next of its stream in it.
LEMMA PendingReads ==
    ASSUME TypeOK, OpInv, CurInv, ReadInv, StartInv, [Next]_vars
    PROVE  /\ \A x \in Ops : pending'[x] /\ got'[x] > 0 =>
                 /\ pending[x] /\ owner'[x] = owner[x] /\ sock'[x] = sock[x]
                 /\ \/ got'[x] = got[x]
                    \/ state'[x] # "done" /\ sock[x] \in Socks /\ got'[x] = taken[sock[x]] + 1
           /\ \A a, b : Before(a, b)' => Before(a, b) \/ (b \in Ops /\ ~pending[b])
<1> DEFINE Goal == /\ \A x \in Ops : pending'[x] /\ got'[x] > 0 =>
                         /\ pending[x] /\ owner'[x] = owner[x] /\ sock'[x] = sock[x]
                         /\ \/ got'[x] = got[x]
                            \/ state'[x] # "done" /\ sock[x] \in Socks /\ got'[x] = taken[sock[x]] + 1
                   /\ \A a, b : Before(a, b)' => Before(a, b) \/ (b \in Ops /\ ~pending[b])
<1>0. /\ state \in [Ops -> {"idle", "direct", "queued", "ready", "running", "done"}]
      /\ owner \in [Ops -> Threads \cup {None}] /\ sock \in [Ops -> Socks \cup {None}]
      /\ pending \in [Ops -> BOOLEAN] /\ got \in [Ops -> 0..MaxArrivals]
      /\ started \in Seq(Ops)
  BY DEF TypeOK
<1>1. ASSUME UNCHANGED <<started, owner, sock>>,
             \A x \in Ops : pending'[x] /\ got'[x] > 0 =>
                 /\ pending[x]
                 /\ \/ got'[x] = got[x]
                    \/ state'[x] # "done" /\ sock[x] \in Socks /\ got'[x] = taken[sock[x]] + 1
      PROVE  Goal
  BY <1>1 DEF Before
<1>2. ASSUME NEW t \in Threads, NEW o \in Ops, NEW s \in Socks, Recv(t, o, s) \/ Accept(t, o, s)
      PROVE  Goal
  <2>1. /\ state[o] = "idle" /\ owner' = [owner EXCEPT ![o] = t] /\ sock' = [sock EXCEPT ![o] = s]
        /\ started' = Append(started, o)
    BY <1>2, CreateStates
  <2>2. \/ pending' = pending /\ (got' = got \/ got' = [got EXCEPT ![o] = taken[s] + 1])
        \/ pending' = [pending EXCEPT ![o] = TRUE] /\ got' = got
    BY <1>2, CreateStates
  <2>3. o \notin ToSet(started) /\ IsInjective(started) /\ ~pending[o] /\ got[o] = 0
    BY <2>1 DEF StartInv, OpInv
  <2>4. \A a, b : Before(a, b)' <=> (Before(a, b) \/ (b = o /\ a \in ToSet(started)))
    BY <1>0, <2>1, <2>3, StartFacts
  <2>5. ~(pending'[o] /\ got'[o] > 0)
    BY <1>0, <2>2, <2>3
  <2>6. ASSUME NEW x \in Ops, x # o
        PROVE  owner'[x] = owner[x] /\ sock'[x] = sock[x] /\ pending'[x] = pending[x] /\ got'[x] = got[x]
    BY <1>0, <2>1, <2>2, <2>6
  <2> QED BY <2>3, <2>4, <2>5, <2>6
<1>3. ASSUME NEW t \in Threads, NEW s \in Socks, Cancel(t, s) \/ CloseSock(t, s) PROVE Goal
  BY <1>1, <1>3 DEF Cancel, CloseSock
<1>4. ASSUME Poll PROVE Goal
  <2>1. MakeReady(Fired, "alerted") /\ UNCHANGED <<started, owner, sock, pending>>
    BY <1>4, ReadyActs DEF Poll
  <2>2. got' = [o \in Ops |-> IF o \in {x \in Fired : sock[x] \in Listeners}
                              THEN taken[sock[o]] + 1 ELSE got[o]]
    BY <1>4 DEF Poll, Fired
  <2>3. \A o \in Fired : o \in Ops /\ sock[o] \in Socks
    BY FiredFacts
  <2>4. \A o \in Fired : state'[o] = "ready"
    BY <2>1, <2>3 DEF MakeReady
  <2>5. \A x \in Ops : got'[x] = got[x] \/ (x \in Fired /\ got'[x] = taken[sock[x]] + 1)
    BY <2>2
  <2> QED BY <1>1, <2>1, <2>3, <2>4, <2>5
<1>5. ASSUME NEW t \in Threads, Tell(t) \/ Report(t) PROVE Goal
  <2> DEFINE o == cur[t]
  <2>1. /\ o \in Ops /\ UNCHANGED <<started, owner, sock, got>>
        /\ \/ pending' = pending
           \/ state[o] = "direct" /\ result[o] = "again" /\ pending' = [pending EXCEPT ![o] = TRUE]
    BY <1>5, EndStates
  <2>2. state[o] = "direct" /\ result[o] = "again" => got[o] = 0
    BY <1>0, <2>1, AsyncAssumption DEF ReadInv, OpInv
  <2> HIDE DEF o
  <2>3. ASSUME NEW x \in Ops, pending'[x], got'[x] > 0 PROVE pending[x]
    <3>1. got[x] > 0
      BY <2>1, <2>3
    <3>2. CASE pending' = pending
      BY <2>3, <3>2
    <3>3. CASE got[o] = 0 /\ pending' = [pending EXCEPT ![o] = TRUE]
      BY <1>0, <2>3, <3>1, <3>3
    <3> QED BY <2>1, <2>2, <3>2, <3>3
  <2> QED BY <1>1, <2>1, <2>3
<1>6. ASSUME NEW t \in Threads, Try(t) \/ Callback(t) PROVE Goal
  <2> DEFINE o == cur[t]
  <2>1. /\ o \in Ops /\ UNCHANGED <<started, owner, sock, pending, state>>
        /\ state[o] \in {"direct", "running"}
    BY <1>6, ReadStates
  <2>2. sock[o] \in Socks
    BY <2>1 DEF OpInv, Active
  <2>3. got' = got \/ got' = [got EXCEPT ![o] = taken[sock[o]] + 1]
    <3>1. CASE ReadNow(o)
      BY <2>1, <2>2, <3>1, ReadNowFacts
    <3>2. CASE ~ReadNow(o)
      BY <1>6, <3>2, ReadStates
    <3> QED BY <3>1, <3>2
  <2> HIDE DEF o
  <2>4. \A x \in Ops : got'[x] = got[x] \/ (x = o /\ got'[x] = taken[sock[o]] + 1)
    BY <1>0, <2>3
  <2> QED BY <1>1, <2>1, <2>2, <2>4
<1>7. ASSUME UNCHANGED <<started, owner, sock, pending, got>> PROVE Goal
  BY <1>1, <1>7
<1>8. ASSUME NEW t \in Threads, \/ RemoveCompletion(t) \/ WaitOther(t) \/ ClosePort(t) \/ EndThread(t) \/ RunApc(t)
                                \/ Enter(t) \/ Completed(t) \/ Take(t) \/ Sleep(t) \/ GetThreadCompletion(t)
      PROVE  Goal
  BY <1>7, <1>8 DEF RemoveCompletion, WaitOther, ClosePort, EndThread, Enter, RunApc,
                    Completed, Take, Sleep, GetThreadCompletion, asyncVars
<1>9. ASSUME NEW t \in Threads, NEW p \in Posts, AddCompletion(t, p) PROVE Goal
  BY <1>7, <1>9 DEF AddCompletion, asyncVars
<1>10. ASSUME NEW o \in Ops, GrowStale(o) PROVE Goal
  BY <1>7, <1>10 DEF GrowStale
<1>11. ASSUME NEW s \in Socks, Arrive(s) PROVE Goal
  BY <1>7, <1>11 DEF Arrive, asyncVars
<1>12. ASSUME UNCHANGED vars PROVE Goal
  BY <1>7, <1>12 DEF vars, asyncVars
<1> HIDE DEF Goal
<1>13. Goal
  BY <1>2, <1>3, <1>4, <1>5, <1>6, <1>8, <1>9, <1>10, <1>11, <1>12 DEF Next, Calls, Step
<1> QED BY <1>13 DEF Goal

LEMMA PendingStep ==
    /\ TypeOK /\ OpInv /\ CurInv /\ StreamInv /\ ReadInv /\ StartInv /\ PendingInOrder /\ OrderInv'
    /\ TypeOK' /\ [Next]_vars
    => PendingInOrder'
<1> SUFFICES ASSUME TypeOK, OpInv, CurInv, StreamInv, ReadInv, StartInv, PendingInOrder, OrderInv', TypeOK',
                    [Next]_vars,
                    NEW a \in Ops, NEW b \in Ops, Before(a, b)', owner'[a] = owner'[b], sock'[a] = sock'[b],
                    pending'[a], pending'[b], got'[a] > 0, got'[b] > 0
             PROVE  got'[a] < got'[b]
  BY DEF PendingInOrder
<1>1. state'[a] = "done"
  BY DEF OrderInv
<1>2. /\ pending[a] /\ owner'[a] = owner[a] /\ sock'[a] = sock[a] /\ got'[a] = got[a]
  BY <1>1, PendingReads
<1>3. /\ pending[b] /\ owner'[b] = owner[b] /\ sock'[b] = sock[b]
      /\ \/ got'[b] = got[b]
         \/ sock[b] \in Socks /\ got'[b] = taken[sock[b]] + 1
  BY PendingReads
<1>4. Before(a, b)
  BY <1>3, PendingReads
<1>5. CASE got'[b] = got[b]
  BY <1>2, <1>3, <1>4, <1>5 DEF PendingInOrder
<1>6. CASE sock[b] \in Socks /\ got'[b] = taken[sock[b]] + 1
  <2>1. got[a] <= taken[sock[b]]
    BY <1>2, <1>3 DEF StreamInv
  <2>2. got[a] \in Nat /\ taken[sock[b]] \in Nat
    BY <1>6 DEF TypeOK
  <2> QED BY <1>2, <1>6, <2>1, <2>2
<1> QED BY <1>3, <1>5, <1>6

-----------------------------------------------------------------------------
(* The theorems.                                                            *)

LEMMA InitLemma ==
    Init => /\ TypeOK /\ IInv /\ PacketsConserved /\ ToldOnce
            /\ NoMissedPacket /\ NoMissedOperation /\ PendingInOrder
<1> SUFFICES ASSUME Init PROVE /\ TypeOK /\ IInv /\ PacketsConserved /\ ToldOnce
                               /\ NoMissedPacket /\ NoMissedOperation /\ PendingInOrder
  OBVIOUS
<1>1. PICK start \in Starts : InitFrom(start)
  BY DEF Init
<1>2. /\ Ops \cap Posts = {} /\ None \notin Packets /\ MaxArrivals \in Nat /\ MaxCancels \in Nat
      /\ start.socks \subseteq Socks /\ Skip \in BOOLEAN
  BY AsyncAssumption DEF Packets
<1>3. /\ list \in Seq(Ops) /\ started \in Seq(Ops) /\ port \in Seq(Packets) /\ waiters \in Seq(Threads)
      /\ DOMAIN list = {} /\ DOMAIN started = {} /\ DOMAIN port = {} /\ DOMAIN waiters = {}
  BY <1>1 DEF InitFrom
<1>4. /\ ToSet(list) = {} /\ ToSet(started) = {}
      /\ IsInjective(list) /\ IsInjective(started) /\ IsInjective(waiters)
  BY <1>3 DEF ToSet, IsInjective
<1>5. OpType /\ SockType
  BY <1>1, <1>2 DEF InitFrom, OpType, SockType
<1>6. ThreadType /\ WaitType /\ ListType
  BY <1>1, <1>3, <1>4 DEF InitFrom, ThreadType, WaitType, ListType
<1>7. PortType
  <2>1. posts \in [Packets -> {0, 1}] /\ received = posts
    BY <1>1 DEF InitFrom
  <2>2. told \in [Ops -> {0, 1}]
    BY <1>1 DEF InitFrom
  <2> QED BY <1>1, <1>3, <2>1, <2>2 DEF InitFrom, PortType
<1>8. TypeOK
  BY <1>5, <1>6, <1>7, TypeParts
<1>9. ListInv /\ OpInv /\ CurInv
  BY <1>1, <1>4 DEF InitFrom, ListInv, OpInv, CurInv, Active
<1>10. StreamInv /\ WaitInv /\ ReadInv
  BY <1>1, <1>2 DEF InitFrom, StreamInv, WaitInv, ReadInv
<1>11. \A a, b : ~Before(a, b)
  BY <1>3 DEF Before
<1>12. StartInv /\ OrderInv /\ PendingInOrder
  <2>1. \A o \in Ops : state[o] \notin Active
    BY <1>1 DEF InitFrom, Active
  <2> QED BY <1>3, <1>4, <1>11, <2>1 DEF StartInv, OrderInv, PendingInOrder
<1>13. NoMissedPacket /\ NoMissedOperation
  BY <1>1 DEF InitFrom, NoMissedPacket, NoMissedOperation
<1>14. PacketsConserved
  <2> SUFFICES ASSUME NEW p \in Packets PROVE posts[p] = InPort(p) + InWait(p) + received[p]
    BY DEF PacketsConserved
  <2>1. {i \in DOMAIN port : port[i] = p} = {} /\ {t \in Threads : msg[t] = p} = {}
    BY <1>1, <1>2, <1>3 DEF InitFrom
  <2>2. InPort(p) = 0 /\ InWait(p) = 0
    BY <2>1, FS_EmptySet DEF InPort, InWait
  <2>3. received[p] = posts[p] /\ posts[p] \in Nat
    BY <1>1, <1>8 DEF InitFrom, TypeOK
  <2> QED BY <2>2, <2>3
<1>15. ToldOnce
  <2> SUFFICES ASSUME NEW o \in Ops
               PROVE  posts[o] + told[o] =
                         IF state[o] # "done" \/ (~pending[o] /\ (result[o] = "failed" \/ (o \in Ported /\ Skip)))
                         THEN 0 ELSE 1
    BY DEF ToldOnce
  <2>1. o \notin Posts /\ o \in Packets
    BY <1>2 DEF Packets
  <2>2. /\ posts[o] = IF o \in start.past /\ o \in Ported /\ ~Skip THEN 1 ELSE 0
        /\ told[o] = IF o \in start.past \ Ported THEN 1 ELSE 0
    BY <1>1, <2>1 DEF InitFrom
  <2>3. /\ state[o] = "done" <=> o \in start.past
        /\ ~pending[o] /\ result[o] # "failed"
    BY <1>1 DEF InitFrom
  <2> QED BY <2>2, <2>3
<1> QED BY <1>8, <1>9, <1>10, <1>12, <1>13, <1>14, <1>15 DEF IInv

\* The invariant of the lists, the threads and the order of the streams.
LEMMA InvStep == TypeOK /\ IInv /\ [Next]_vars => TypeOK' /\ IInv'
BY TypeStep, ListStep, OpStep, CurStep, StreamStep, WaitStep, ReadStep, StartStep, OrderStep DEF IInv

(* Every reachable state is well-typed and satisfies the inductive          *)
(* invariant: the list holds exactly the operations that have not ended, in *)
(* the order they were started, an operation is tried by its own thread and *)
(* run by one, and what reads as alerted after it was pending has nothing   *)
(* of its thread before it on its socket.                                   *)
THEOREM Invariant == Spec => [](TypeOK /\ IInv)
<1>1. Init => TypeOK /\ IInv
  BY InitLemma
<1>2. TypeOK /\ IInv /\ [Next]_vars => (TypeOK /\ IInv)'
  BY InvStep
<1> QED BY <1>1, <1>2, PTL DEF Spec

(* Each packet posted to the completion port is on it, in one wait or with  *)
(* the program, and the end of each overlapped operation is told exactly    *)
(* once, for any number of threads, sockets and operations.                 *)
THEOREM Delivery == Spec => []DeliveredOnce
<1>1. Init => PacketsConserved /\ ToldOnce
  BY InitLemma
<1>2. /\ TypeOK /\ IInv /\ PacketsConserved /\ ToldOnce /\ [Next]_vars
      => PacketsConserved' /\ ToldOnce'
  BY ConservedStep, ToldStep DEF IInv
<1>3. TypeOK /\ PacketsConserved /\ ToldOnce => DeliveredOnce
  BY DEF DeliveredOnce
<1> QED BY <1>1, <1>2, <1>3, Invariant, PTL DEF Spec

(* A thread asleep in select with a packet on its port, or with an          *)
(* operation of its own to run, has been notified: the wake-up of the port  *)
(* and that of the poller, a cancel or a close are never lost.              *)
THEOREM WakeUps == Spec => []NobodySleepsOn
<1>1. Init => NoMissedPacket /\ NoMissedOperation
  BY InitLemma
<1>2. /\ TypeOK /\ IInv /\ NoMissedPacket /\ NoMissedOperation /\ [Next]_vars
      => NoMissedPacket' /\ NoMissedOperation'
  BY PacketStep, OperationStep DEF IInv
<1>3. NoMissedPacket /\ NoMissedOperation => NobodySleepsOn
  BY DEF NobodySleepsOn
<1> QED BY <1>1, <1>2, <1>3, Invariant, PTL DEF Spec

(* The bytes of a stream go to the pending recvs of a thread in the order   *)
(* they were started, whichever threads run them, and none goes to a recv   *)
(* that is reported cancelled, closed or failed.                            *)
THEOREM Bytes == Spec => []BytesInOrder
<1>1. Init => PendingInOrder
  BY InitLemma
<1>2. /\ TypeOK /\ IInv /\ TypeOK' /\ IInv' /\ PendingInOrder /\ [Next]_vars => PendingInOrder'
  BY PendingStep DEF IInv
<1>3. TypeOK /\ IInv /\ PendingInOrder => BytesInOrder
  BY CancelledLemma DEF BytesInOrder, IInv
<1> QED BY <1>1, <1>2, <1>3, Invariant, PTL DEF Spec

=============================================================================
