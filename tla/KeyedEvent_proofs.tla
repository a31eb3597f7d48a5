------------------------- MODULE KeyedEvent_proofs -------------------------
(***************************************************************************)
(* For any number of threads and keys: waits and releases of a keyed event *)
(* succeed in pairs, the oldest first, no record outlives its call, and no *)
(* wake-up is lost.                                                        *)
(***************************************************************************)
EXTENDS KeyedEvent, FiniteSetTheorems, TLAPS

(* Unlinking a record takes it, and nothing else, out of the queue.        *)
LEMMA Unlinked ==
  ASSUME NEW S, NEW q \in Seq(S), IsInjective(q), NEW i \in DOMAIN q
  PROVE  /\ RemoveAt(q, i) \in Seq(S) /\ IsInjective(RemoveAt(q, i))
         /\ \A x : Contains(RemoveAt(q, i), x) <=> Contains(q, x) /\ x # q[i]
<1> DEFINE r == RemoveAt(q, i)
<1>1. /\ r \in Seq(S) /\ Len(r) = Len(q) - 1
      /\ \A j \in 1 .. Len(r) : r[j] = IF j < i THEN q[j] ELSE q[j + 1]
  <2> DEFINE a == SubSeq(q, 1, i - 1)
             b == SubSeq(q, i + 1, Len(q))
  <2>1. a \in Seq(S) /\ Len(a) = i - 1 /\ \A j \in 1 .. i - 1 : a[j] = q[j]
    OBVIOUS
  <2>2. b \in Seq(S) /\ Len(b) = Len(q) - i /\ \A j \in 1 .. Len(q) - i : b[j] = q[i + j]
    OBVIOUS
  <2>3. r = a \o b
    BY DEF RemoveAt
  <2> HIDE DEF a, b
  <2>4. r \in Seq(S) /\ Len(r) = Len(q) - 1
    BY <2>1, <2>2, <2>3
  <2>5. ASSUME NEW j \in 1 .. Len(r) PROVE r[j] = IF j < i THEN q[j] ELSE q[j + 1]
    <3>1. CASE j < i
      BY <3>1, <2>1, <2>2, <2>3, <2>4
    <3>2. CASE j >= i
      <4>1. r[j] = b[j - (i - 1)] /\ j - (i - 1) \in 1 .. Len(q) - i
        BY <3>2, <2>1, <2>2, <2>3, <2>4, SMTT(20)
      <4> QED
        BY <3>2, <4>1, <2>2
    <3> QED
      BY <3>1, <3>2
  <2> QED
    BY <2>4, <2>5
<1> HIDE DEF r
<1>2. IsInjective(r)
  BY <1>1, SMTT(20) DEF IsInjective
<1>3. ASSUME NEW x, Contains(q, x), x # q[i] PROVE Contains(r, x)
  <2>1. PICK j \in 1 .. Len(q) : q[j] = x
    BY <1>3 DEF Contains
  <2>2. j # i
    BY <2>1, <1>3
  <2>3. CASE j < i
    BY <2>1, <2>3, <1>1 DEF Contains
  <2>4. CASE j > i
    <3>1. j - 1 \in 1 .. Len(r) /\ r[j - 1] = x
      BY <2>1, <2>4, <1>1
    <3> QED
      BY <3>1 DEF Contains
  <2> QED
    BY <2>2, <2>3, <2>4
<1>4. ASSUME NEW x, Contains(r, x) PROVE Contains(q, x) /\ x # q[i]
  <2>1. PICK j \in 1 .. Len(r) : r[j] = x
    BY <1>4 DEF Contains
  <2>2. PICK k \in 1 .. Len(q) : q[k] = x /\ k # i
    BY <2>1, <1>1
  <2> QED
    BY <2>2 DEF Contains, IsInjective
<1> QED
  BY <1>1, <1>2, <1>3, <1>4 DEF r

LEMMA Linked ==
  ASSUME NEW S, NEW q \in Seq(S), IsInjective(q), NEW x \in S, ~Contains(q, x)
  PROVE  /\ Append(q, x) \in Seq(S) /\ IsInjective(Append(q, x))
         /\ \A y : Contains(Append(q, x), y) <=> Contains(q, y) \/ y = x
<1> DEFINE r == Append(q, x)
<1>1. /\ r \in Seq(S) /\ Len(r) = Len(q) + 1 /\ r[Len(q) + 1] = x
      /\ \A j \in 1 .. Len(q) : r[j] = q[j]
  OBVIOUS
<1> HIDE DEF r
<1>2. IsInjective(r)
  BY <1>1 DEF IsInjective, Contains
<1>3. ASSUME NEW y, Contains(q, y) \/ y = x PROVE Contains(r, y)
  BY <1>1, <1>3 DEF Contains
<1>4. ASSUME NEW y, Contains(r, y) PROVE Contains(q, y) \/ y = x
  BY <1>1, <1>4 DEF Contains
<1> QED
  BY <1>1, <1>2, <1>3, <1>4 DEF r

LEMMA SeqToSet ==
  ASSUME NEW S, NEW q \in Seq(S)
  PROVE  \A x : x \in ToSet(q) <=> Contains(q, x)
  BY DEF ToSet, Contains

LEMMA QueueSet ==
  ASSUME TypeOK
  PROVE  \A x : x \in ToSet(queue) <=> Contains(queue, x)
  BY SeqToSet DEF TypeOK

-----------------------------------------------------------------------------
(* The structure of the rendezvous.                                        *)

LEMMA KeyedInit == Init => KeyedInv
  BY NoneAssumption
  DEF Init, KeyedInv, TypeOK, PeerInv, NoMissedPair, LinkedOnlyWhileBlocked, NoLostWake,
      Taking, ToSet, IsInjective, Sides, Timeouts

LEMMA CallStep ==
  ASSUME KeyedInv, NEW t \in Threads, NEW k \in Keys, NEW s \in Sides, NEW o \in Patience[t],
         Call(t, k, s, o)
  PROVE  KeyedInv'
<1> USE DEF Call, Goto, KeyedInv
<1>1. TypeOK'
  BY PatienceAssumption DEF TypeOK
<1>2. ~Contains(queue, t) /\ \A u \in Threads : pc[u] = "store" => peer[u] # t
  BY QueueSet DEF LinkedOnlyWhileBlocked, PeerInv, Blocked
<1>3. PeerInv'
  BY <1>2 DEF PeerInv, TypeOK, Taking, Blocked, Pairs
<1>4. \A u \in ToSet(queue) : u \in Threads /\ u # t
  BY <1>2, QueueSet DEF TypeOK, ToSet
<1>5. NoMissedPair' /\ NoLostWake'
  BY <1>4 DEF NoMissedPair, NoLostWake, TypeOK
<1>6. LinkedOnlyWhileBlocked'
  BY <1>4 DEF LinkedOnlyWhileBlocked, PeerInv, Taking, TypeOK, Blocked
<1> QED
  BY <1>1, <1>3, <1>5, <1>6

LEMMA MatchStep ==
  ASSUME KeyedInv, NEW t \in Threads, Match(t)
  PROVE  KeyedInv'
<1> USE DEF Match, Goto, KeyedInv
<1>1. PICK i \in Opposite(t) :
        /\ peer' = [peer EXCEPT ![t] = queue[i]]
        /\ queue' = RemoveAt(queue, i)
  OBVIOUS
<1> DEFINE p == queue[i]
<1>2. /\ i \in DOMAIN queue /\ p \in Threads /\ Pairs(t, p) /\ Contains(queue, p)
      /\ Blocked(p) /\ ~done[p] /\ p # t
  BY QueueSet DEF Opposite, TypeOK, LinkedOnlyWhileBlocked, ToSet, Blocked
<1>3. /\ queue' \in Seq(Threads) /\ IsInjective(queue')
      /\ \A x : Contains(queue', x) <=> Contains(queue, x) /\ x # p
  BY <1>1, <1>2, Unlinked DEF TypeOK
<1> HIDE DEF p
<1>4. TypeOK'
  BY <1>1, <1>2, <1>3 DEF TypeOK, p
<1>5. peer' = [peer EXCEPT ![t] = p]
  BY <1>1 DEF p
<1>6. PeerInv'
  BY <1>2, <1>3, <1>5, NoneAssumption DEF PeerInv, TypeOK, Taking, Blocked, Pairs
<1>7. \A x : x \in ToSet(queue)' => x \in ToSet(queue) /\ x # p
  BY <1>3, SeqToSet DEF TypeOK
<1>8. NoMissedPair' /\ NoLostWake'
  BY <1>7 DEF NoMissedPair, NoLostWake, TypeOK, PeerInv, Taking
<1>9. LinkedOnlyWhileBlocked'
  BY <1>5, <1>7 DEF LinkedOnlyWhileBlocked, TypeOK, Blocked, PeerInv, Taking
<1> QED
  BY <1>4, <1>6, <1>8, <1>9

LEMMA StoreStep ==
  ASSUME KeyedInv, NEW t \in Threads, Store(t)
  PROVE  KeyedInv'
<1> USE DEF Store, Goto, KeyedInv
<1>1. peer[t] \in Threads /\ peer[t] # t /\ ~Contains(queue, peer[t]) /\ lock = t /\ Blocked(peer[t])
  BY DEF PeerInv, TypeOK, Taking
<1>2. TypeOK'
  BY <1>1 DEF TypeOK
<1>3. PeerInv'
  BY <1>1 DEF PeerInv, TypeOK, Taking, Blocked, Pairs
<1>4. NoMissedPair' /\ LinkedOnlyWhileBlocked' /\ NoLostWake'
  BY <1>1, QueueSet DEF NoMissedPair, LinkedOnlyWhileBlocked, NoLostWake, TypeOK, Blocked
<1> QED
  BY <1>2, <1>3, <1>4

LEMMA WakeStep ==
  ASSUME KeyedInv, NEW t \in Threads, WakePeer(t)
  PROVE  KeyedInv'
<1> USE DEF WakePeer, KeyedInv
<1>1. peer[t] \in Threads /\ peer[t] # t /\ lock = t
  BY DEF PeerInv, TypeOK, Taking
<1>2. /\ pc' \in [Threads -> {"idle", "call", "store", "wake", "check", "expire", "wait", "asleep", "cancel"}]
      /\ pc'[t] = "idle" /\ pc'[peer[t]] # "asleep"
      /\ \A u \in Threads \ {t} : pc'[u] = pc[u] \/ (pc[u] = "asleep" /\ pc'[u] = "check")
  BY <1>1 DEF TypeOK
<1>3. owed' \in [Keys -> Int]
  BY DEF TypeOK
<1>4. TypeOK'
  BY <1>1, <1>2, <1>3 DEF TypeOK
<1>5. PeerInv'
  BY <1>1, NoneAssumption DEF PeerInv, TypeOK, Taking, Blocked, Pairs
<1>6. \A u \in ToSet(queue) : u \in Threads /\ u # t
  <2>1. \A u \in ToSet(queue) : u \in Threads
    BY DEF TypeOK, ToSet
  <2> QED
    BY <2>1 DEF LinkedOnlyWhileBlocked, Blocked
<1>7. NoMissedPair' /\ LinkedOnlyWhileBlocked'
  <2>1. \A u \in ToSet(queue) : Blocked(u)'
    BY <1>2, <1>6 DEF LinkedOnlyWhileBlocked, Blocked
  <2>2. \A u \in Threads : peer'[u] = IF u = t THEN None ELSE peer[u]
    BY DEF TypeOK
  <2>3. \A u \in Threads : \A v \in ToSet(queue) : peer'[u] # v
    BY <1>1, <1>6, <2>2, NoneAssumption DEF PeerInv
  <2> QED
    BY <2>1, <2>3 DEF NoMissedPair, LinkedOnlyWhileBlocked
<1>8. NoLostWake'
  BY <1>1, <1>2 DEF NoLostWake, TypeOK, PeerInv, Taking
<1> QED
  BY <1>4, <1>5, <1>7, <1>8

LEMMA EnqueueStep ==
  ASSUME KeyedInv, NEW t \in Threads, Enqueue(t)
  PROVE  KeyedInv'
<1> USE DEF Enqueue, Goto, KeyedInv
<1>1. ~Contains(queue, t)
  BY QueueSet DEF LinkedOnlyWhileBlocked, Blocked
<1>2. /\ queue' \in Seq(Threads) /\ IsInjective(queue')
      /\ \A x : Contains(queue', x) <=> Contains(queue, x) \/ x = t
  BY <1>1, Linked DEF TypeOK
<1>3. TypeOK'
  BY <1>2 DEF TypeOK
<1>4. \A x : x \in ToSet(queue)' <=> x \in ToSet(queue) \/ x = t
  BY <1>2, SeqToSet DEF TypeOK
<1>5. PeerInv'
  BY <1>2, NoneAssumption DEF PeerInv, TypeOK, Taking, Blocked, Pairs
<1>6. \A u \in ToSet(queue) : key[u] = key[t] => side[u] = side[t]
  BY DEF Opposite, Pairs, ToSet
<1>7. NoMissedPair'
  BY <1>4, <1>6 DEF NoMissedPair
<1>8. LinkedOnlyWhileBlocked' /\ NoLostWake'
  BY <1>4, NoneAssumption DEF LinkedOnlyWhileBlocked, NoLostWake, TypeOK, Blocked, PeerInv
<1> QED
  BY <1>3, <1>5, <1>7, <1>8

LEMMA CancelStep ==
  ASSUME KeyedInv, NEW t \in Threads, Cancel(t)
  PROVE  KeyedInv'
<1> USE DEF Cancel, TimeOut, Goto, KeyedInv
<1>1. CASE ~Contains(queue, t) /\ pc' = [pc EXCEPT ![t] = "check"] /\ UNCHANGED <<queue, owed>>
  BY <1>1 DEF TypeOK, PeerInv, NoMissedPair, LinkedOnlyWhileBlocked, NoLostWake, Blocked, Taking, Pairs
<1>2. ASSUME NEW i \in DOMAIN queue, queue[i] = t, queue' = RemoveAt(queue, i),
             pc' = [pc EXCEPT ![t] = "idle"], UNCHANGED owed
      PROVE  KeyedInv'
  <2>1. /\ queue' \in Seq(Threads) /\ IsInjective(queue')
        /\ \A x : Contains(queue', x) <=> Contains(queue, x) /\ x # t
    BY <1>2, Unlinked DEF TypeOK
  <2>2. TypeOK'
    BY <1>2, <2>1 DEF TypeOK
  <2>3. \A x : x \in ToSet(queue)' => x \in ToSet(queue) /\ x # t
    BY <2>1, SeqToSet DEF TypeOK
  <2>4. PeerInv'
    BY <1>2, <2>1, NoneAssumption DEF PeerInv, TypeOK, Taking, Blocked, Pairs
  <2>5. NoMissedPair' /\ LinkedOnlyWhileBlocked' /\ NoLostWake'
    BY <1>2, <2>3, NoneAssumption DEF NoMissedPair, LinkedOnlyWhileBlocked, NoLostWake, TypeOK, Blocked, PeerInv
  <2> QED
    BY <2>2, <2>4, <2>5
<1> QED
  BY <1>1, <1>2

(* A step that moves one thread to where its record stays as it is.        *)
LEMMA MoveStep ==
  ASSUME KeyedInv, NEW t \in Threads,
         NEW p \in {"idle", "check", "expire", "wait", "asleep", "cancel"},
         pc' = [pc EXCEPT ![t] = p], UNCHANGED <<lock, queue, key, side, done, timeout, peer>>,
         owed' \in [Keys -> Int], Blocked(t) \/ pc[t] = "call",
         p = "asleep" => ~done[t], p = "idle" => pc[t] = "call" \/ done[t],
         pc[t] = "call" => p = "idle"
  PROVE  KeyedInv'
<1> USE DEF KeyedInv
<1>1. TypeOK'
  BY DEF TypeOK
<1>2. PeerInv'
  <2>1. \A u \in Threads : Taking(u)' <=> Taking(u)
    BY DEF Taking, Blocked, TypeOK
  <2>2. \A u \in Threads : pc'[u] = "store" <=> pc[u] = "store"
    BY DEF Blocked, TypeOK
  <2>3. \A u \in Threads : pc[u] = "store" => Blocked(peer[u])'
    <3> SUFFICES ASSUME NEW u \in Threads, pc[u] = "store" PROVE Blocked(peer[u])'
      OBVIOUS
    <3>1. Blocked(peer[u]) /\ ~done[peer[u]]
      BY DEF PeerInv
    <3>2. CASE peer[u] = t
      <4>1. pc[t] # "call" /\ p # "idle"
        BY <3>1, <3>2 DEF Blocked
      <4> QED
        BY <3>2, <4>1 DEF Blocked, TypeOK
    <3>3. CASE peer[u] # t
      BY <3>1, <3>3 DEF Blocked, TypeOK
    <3> QED
      BY <3>2, <3>3
  <2>4. \A u \in Threads : pc'[u] = "call" => pc[u] = "call"
    BY DEF TypeOK
  <2> QED
    BY <2>1, <2>2, <2>3, <2>4 DEF PeerInv, Pairs
<1>3. LinkedOnlyWhileBlocked'
  <2> SUFFICES ASSUME NEW u \in ToSet(queue)
               PROVE  Blocked(u)' /\ ~done[u] /\ \A v \in Threads : peer[v] = u => pc'[v] = "wake"
    BY DEF LinkedOnlyWhileBlocked
  <2>1. Blocked(u) /\ ~done[u] /\ \A v \in Threads : peer[v] = u => pc[v] = "wake"
    BY DEF LinkedOnlyWhileBlocked
  <2>2. u = t => pc[t] # "call" /\ p # "idle"
    BY <2>1 DEF Blocked
  <2>3. Blocked(u)'
    BY <2>1, <2>2 DEF Blocked, TypeOK
  <2> QED
    BY <2>1, <2>3 DEF Blocked, TypeOK
<1>4. NoLostWake'
  BY DEF NoLostWake, TypeOK, Blocked
<1>5. NoMissedPair'
  BY DEF NoMissedPair
<1> QED
  BY <1>1, <1>2, <1>3, <1>4, <1>5

LEMMA LoopStep ==
  ASSUME KeyedInv, NEW t \in Threads,
         CheckDone(t) \/ Expire(t) \/ HasTime(t) \/ FutexWait(t) \/ FutexElapses(t) \/ GiveUp(t)
  PROVE  KeyedInv'
<1> USE DEF Goto
<1>1. CASE CheckDone(t)
  <2>1. owed' \in [Keys -> Int]
    BY <1>1 DEF CheckDone, Succeed, KeyedInv, TypeOK
  <2> QED
    BY <1>1, <2>1, MoveStep DEF CheckDone, Succeed, Blocked
<1>2. ASSUME UNCHANGED owed PROVE owed' \in [Keys -> Int]
  BY <1>2 DEF KeyedInv, TypeOK
<1>3. CASE Expire(t) \/ HasTime(t)
  BY <1>2, <1>3, MoveStep DEF Expire, HasTime, Blocked
<1>4. CASE FutexWait(t)
  BY <1>2, <1>4, MoveStep DEF FutexWait, Blocked
<1>5. CASE FutexElapses(t)
  BY <1>2, <1>5, MoveStep DEF FutexElapses, Blocked
<1>6. CASE GiveUp(t)
  BY <1>2, <1>6, MoveStep DEF GiveUp, TimeOut, Blocked
<1> QED
  BY <1>1, <1>3, <1>4, <1>5, <1>6

LEMMA KeyedStep == KeyedInv /\ [Next]_vars => KeyedInv'
<1> SUFFICES ASSUME KeyedInv, [Next]_vars PROVE KeyedInv'
  OBVIOUS
<1>1. CASE UNCHANGED vars
  BY <1>1 DEF vars, KeyedInv, TypeOK, PeerInv, NoMissedPair, LinkedOnlyWhileBlocked, NoLostWake,
              Taking, Blocked, Pairs
<1>2. CASE Next
  BY <1>2, CallStep, MatchStep, StoreStep, WakeStep, EnqueueStep, CancelStep, LoopStep DEF Next, Step
<1> QED
  BY <1>1, <1>2

(* horizon_keyed_match_locked: of the calls queued for a key the oldest is *)
(* paired first.                                                           *)
THEOREM OldestPairedFirst == Spec => FirstComeFirstPaired
<1>1. KeyedInv /\ [Next]_vars =>
        [\A t, u \in Threads :
           /\ Contains(queue, t) /\ Contains(queue, u)
           /\ key[t] = key[u] /\ ~Contains(queue', u)
           /\ (\E v \in Threads : peer'[v] = u /\ peer[v] # u)
           => \/ t = u
              \/ \E i, j \in DOMAIN queue : i < j /\ queue[i] = u /\ queue[j] = t]_vars
  <2> SUFFICES ASSUME KeyedInv, Next, NEW t \in Threads, NEW u \in Threads,
                      Contains(queue, t), Contains(queue, u), key[t] = key[u],
                      NEW v \in Threads, peer'[v] = u, peer[v] # u
               PROVE  t = u \/ \E i, j \in DOMAIN queue : i < j /\ queue[i] = u /\ queue[j] = t
    OBVIOUS
  <2>1. Match(v)
    <3>1. PICK w \in Threads :
            \/ \E k \in Keys, s \in Sides, o \in Patience[w] : Call(w, k, s, o)
            \/ Step(w)
      BY DEF Next
    <3>2. peer' # peer
      OBVIOUS
    <3>3. Match(w) \/ WakePeer(w)
      BY <3>1, <3>2 DEF Step, Call, Store, GiveUp, Enqueue, CheckDone, Expire, HasTime, FutexWait,
                        FutexElapses, Cancel
    <3>4. CASE WakePeer(w)
      BY <3>4, NoneAssumption DEF WakePeer, KeyedInv, TypeOK
    <3>5. CASE Match(w)
      <4>1. w = v
        BY <3>5 DEF Match, KeyedInv, TypeOK
      <4> QED
        BY <4>1, <3>5
    <3> QED
      BY <3>3, <3>4, <3>5
  <2>2. PICK i \in Opposite(v) : (\A j \in Opposite(v) : i <= j) /\ queue[i] = u
    BY <2>1 DEF Match, KeyedInv, TypeOK
  <2>3. PICK j \in DOMAIN queue : queue[j] = t
    BY DEF Contains, KeyedInv, TypeOK
  <2>4. t \in ToSet(queue) /\ u \in ToSet(queue)
    BY QueueSet DEF KeyedInv
  <2>5. j \in Opposite(v)
    BY <2>2, <2>3, <2>4 DEF Opposite, Pairs, KeyedInv, NoMissedPair
  <2>6. i <= j /\ i \in DOMAIN queue /\ i \in Nat /\ j \in Nat
    BY <2>2, <2>5 DEF Opposite, KeyedInv, TypeOK
  <2> QED
    BY <2>2, <2>3, <2>6
<1> QED
  BY KeyedInit, KeyedStep, <1>1, PTL DEF Spec, FirstComeFirstPaired

-----------------------------------------------------------------------------
(* The balance of waits and releases.                                      *)

LEMMA BoundFinite == \A k, s : IsFiniteSet(Bound(k, s)) /\ Bound(k, s) \subseteq Threads
<1>1. \A k, s : Bound(k, s) \subseteq Threads
  BY DEF Bound
<1> QED
  BY <1>1, FiniteAssumption, FS_Subset

(* A step that pairs and frees nobody.                                     *)
LEMMA SameBound ==
  ASSUME Balanced, UNCHANGED owed,
         \A u \in Threads : Paired(u)' <=> Paired(u),
         \A u \in Threads : Paired(u) => key'[u] = key[u] /\ side'[u] = side[u]
  PROVE  Balanced'
<1>1. \A k, s : Bound(k, s)' = Bound(k, s)
  <2> TAKE k, s
  <2>1. ASSUME NEW u PROVE u \in Bound(k, s)' <=> u \in Bound(k, s)
    BY DEF Bound
  <2> QED
    BY <2>1
<1> QED
  BY <1>1 DEF Balanced

(* A wait and a release of one key are paired together.                    *)
LEMMA TwoBound ==
  ASSUME KeyedInv, Balanced, UNCHANGED <<key, side, owed>>,
         NEW w \in Threads, side[w] = "wait", ~Paired(w), Paired(w)',
         NEW r \in Threads, side[r] = "release", ~Paired(r), Paired(r)', key[w] = key[r],
         \A u \in Threads \ {w, r} : Paired(u)' <=> Paired(u)
  PROVE  Balanced'
<1>1. ASSUME NEW k \in Keys
      PROVE  owed'[k] + Cardinality(Bound(k, "wait"))' - Cardinality(Bound(k, "release"))' = 0
  <2> DEFINE W == Bound(k, "wait")
             R == Bound(k, "release")
  <2>1. w \notin W /\ r \notin R
    BY DEF Bound
  <2>2. ASSUME k # key[w] PROVE W' = W /\ R' = R
    <3>1. ASSUME NEW u PROVE (u \in W' <=> u \in W) /\ (u \in R' <=> u \in R)
      BY <2>2 DEF Bound
    <3> QED
      BY <3>1
  <2>3. ASSUME k = key[w] PROVE W' = W \cup {w} /\ R' = R \cup {r}
    <3>1. ASSUME NEW u PROVE (u \in W' <=> u \in W \cup {w}) /\ (u \in R' <=> u \in R \cup {r})
      BY <2>3 DEF Bound
    <3> QED
      BY <3>1
  <2>4. owed[k] + Cardinality(W) - Cardinality(R) = 0 /\ owed[k] \in Int /\ owed'[k] = owed[k]
    BY DEF Balanced, KeyedInv, TypeOK
  <2>5. IsFiniteSet(W) /\ IsFiniteSet(R)
    BY BoundFinite
  <2> HIDE DEF W, R
  <2>6. Cardinality(W) \in Nat /\ Cardinality(R) \in Nat
    BY <2>5, FS_CardinalityType
  <2>7. Cardinality(W \cup {w}) = Cardinality(W) + 1 /\ Cardinality(R \cup {r}) = Cardinality(R) + 1
    BY <2>1, <2>5, FS_AddElement
  <2>8. owed'[k] + Cardinality(W') - Cardinality(R') = 0
    <3>1. CASE k # key[w]
      BY <3>1, <2>2, <2>4
    <3>2. CASE k = key[w]
      <4>1. Cardinality(W') = Cardinality(W) + 1 /\ Cardinality(R') = Cardinality(R) + 1
        BY <3>2, <2>3, <2>7
      <4> QED
        BY <4>1, <2>4, <2>6
    <3> QED
      BY <3>1, <3>2
  <2> QED
    BY <2>8 DEF W, R
<1> QED
  BY <1>1 DEF Balanced

(* A paired call returns.                                                  *)
LEMMA OneReturns ==
  ASSUME KeyedInv, Balanced, UNCHANGED <<key, side>>,
         NEW t \in Threads, Paired(t), ~Paired(t)',
         owed' = [owed EXCEPT ![key[t]] = @ + IF side[t] = "wait" THEN 1 ELSE -1],
         \A u \in Threads \ {t} : Paired(u)' <=> Paired(u)
  PROVE  Balanced'
<1>1. ASSUME NEW k \in Keys
      PROVE  owed'[k] + Cardinality(Bound(k, "wait"))' - Cardinality(Bound(k, "release"))' = 0
  <2> DEFINE W == Bound(k, "wait")
             R == Bound(k, "release")
  <2>1. side[t] \in {"wait", "release"} /\ key[t] \in Keys
    BY DEF KeyedInv, TypeOK, Sides
  <2>2. ASSUME NEW u PROVE (u \in W' <=> u \in W \ {t}) /\ (u \in R' <=> u \in R \ {t})
    BY DEF Bound
  <2>3. W' = W \ {t} /\ R' = R \ {t}
    BY <2>2
  <2>4. (t \in W <=> k = key[t] /\ side[t] = "wait") /\ (t \in R <=> k = key[t] /\ side[t] = "release")
    BY DEF Bound
  <2>5. owed[k] + Cardinality(W) - Cardinality(R) = 0 /\ owed[k] \in Int
    BY DEF Balanced, KeyedInv, TypeOK
  <2>6. owed'[k] = IF k = key[t] THEN owed[k] + (IF side[t] = "wait" THEN 1 ELSE -1) ELSE owed[k]
    BY <2>1 DEF KeyedInv, TypeOK
  <2>7. IsFiniteSet(W) /\ IsFiniteSet(R)
    BY BoundFinite
  <2> HIDE DEF W, R
  <2>8. Cardinality(W) \in Nat /\ Cardinality(R) \in Nat
    BY <2>7, FS_CardinalityType
  <2>9. /\ t \in W => Cardinality(W \ {t}) = Cardinality(W) - 1
        /\ t \in R => Cardinality(R \ {t}) = Cardinality(R) - 1
    BY <2>7, FS_RemoveElement
  <2>10. /\ t \notin W => W \ {t} = W
         /\ t \notin R => R \ {t} = R
    OBVIOUS
  <2>11. owed'[k] + Cardinality(W \ {t}) - Cardinality(R \ {t}) = 0
    <3>1. CASE k # key[t]
      BY <3>1, <2>4, <2>5, <2>6, <2>10
    <3>2. CASE k = key[t] /\ side[t] = "wait"
      <4>1. Cardinality(W \ {t}) = Cardinality(W) - 1 /\ Cardinality(R \ {t}) = Cardinality(R)
        BY <3>2, <2>4, <2>9, <2>10
      <4>2. owed'[k] = owed[k] + 1
        BY <3>2, <2>6
      <4> QED
        BY <4>1, <4>2, <2>5, <2>8
    <3>3. CASE k = key[t] /\ side[t] = "release"
      <4>1. Cardinality(W \ {t}) = Cardinality(W) /\ Cardinality(R \ {t}) = Cardinality(R) - 1
        BY <3>3, <2>4, <2>9, <2>10
      <4>2. owed'[k] = owed[k] - 1
        BY <3>3, <2>5, <2>6
      <4> QED
        BY <4>1, <4>2, <2>5, <2>8
    <3> QED
      BY <3>1, <3>2, <3>3, <2>1
  <2> QED
    BY <2>3, <2>11 DEF W, R
<1> QED
  BY <1>1 DEF Balanced

LEMMA MatchBalanced ==
  ASSUME KeyedInv, Balanced, NEW t \in Threads, Match(t)
  PROVE  Balanced'
<1> USE DEF KeyedInv
<1>1. PICK i \in Opposite(t) : peer' = [peer EXCEPT ![t] = queue[i]]
  BY DEF Match
<1>2. PICK p \in Threads : p = queue[i]
  BY <1>1 DEF Opposite, TypeOK
<1>3. /\ Pairs(t, p) /\ p \in ToSet(queue) /\ Blocked(p) /\ ~done[p] /\ p # t
      /\ peer' = [peer EXCEPT ![t] = p]
  BY <1>1, <1>2, QueueSet DEF Match, Opposite, TypeOK, LinkedOnlyWhileBlocked, ToSet, Blocked
<1>4. \A u \in Threads : ~Taking(u) /\ pc[u] # "store"
  BY NoneAssumption DEF Match, PeerInv, Taking
<1>5. pc'[t] = "store" /\ peer'[t] = p /\ pc'[p] = pc[p]
  BY <1>3 DEF Match, Goto, TypeOK
<1>6. ~Paired(t) /\ ~Paired(p)
  BY <1>3, <1>4 DEF Paired, Taken, Blocked, Match
<1>7. Paired(t)' /\ Paired(p)'
  <2>1. Taking(t)'
    BY <1>5 DEF Taking
  <2>2. Blocked(p)'
    BY <1>3, <1>5 DEF Blocked
  <2>3. Taken(p)'
    BY <2>2, <1>5 DEF Taken
  <2> QED
    BY <2>1, <2>3 DEF Paired
<1>8. \A u \in Threads \ {t, p} : Paired(u)' <=> Paired(u)
  <2>1. \A u \in Threads \ {t} : pc'[u] = pc[u]
    BY DEF Match, Goto, TypeOK
  <2>2. ASSUME NEW u \in Threads \ {t, p}
        PROVE  (\E v \in Threads : pc'[v] = "store" /\ peer'[v] = u) <=> (\E v \in Threads : pc[v] = "store" /\ peer[v] = u)
    BY <1>4, <1>5, <2>1
  <2> QED
    BY <2>1, <2>2 DEF Paired, Taken, Taking, Blocked, Match
<1>9. key' = key /\ side' = side /\ owed' = owed /\ key[p] = key[t]
  BY <1>3 DEF Match, Pairs
<1>10. CASE side[t] = "wait"
  <2>1. side[p] = "release"
    BY <1>3, <1>10 DEF Pairs, TypeOK, Sides
  <2> QED
    BY <1>3, <1>6, <1>7, <1>8, <1>9, <1>10, <2>1, TwoBound
<1>11. CASE side[t] = "release"
  <2>1. side[p] = "wait"
    BY <1>3, <1>11 DEF Pairs, TypeOK, Sides
  <2> QED
    BY <1>3, <1>6, <1>7, <1>8, <1>9, <1>11, <2>1, TwoBound
<1> QED
  BY <1>10, <1>11 DEF TypeOK, Sides

(* The store only says what taking the record had settled.                 *)
LEMMA StoreBalanced ==
  ASSUME KeyedInv, Balanced, NEW t \in Threads, Store(t)
  PROVE  Balanced'
<1> USE DEF KeyedInv
<1>1. /\ peer[t] \in Threads /\ Blocked(peer[t]) /\ peer[t] # t
      /\ \A u \in Threads : pc[u] = "store" => u = t
  BY NoneAssumption DEF Store, PeerInv, Taking, TypeOK
<1>2. /\ pc'[t] = "wake" /\ done'[peer[t]] /\ peer' = peer
      /\ \A u \in Threads \ {t} : pc'[u] = pc[u] /\ (u # peer[t] => done'[u] = done[u])
  BY <1>1 DEF Store, Goto, TypeOK
<1>3. ASSUME NEW u \in Threads \ {t} PROVE Blocked(u)' <=> Blocked(u)
  BY <1>2 DEF Blocked
<1>4. \A u \in Threads : pc'[u] # "store"
  BY <1>1, <1>2
<1>5. ASSUME NEW u \in Threads PROVE Paired(u)' <=> Paired(u)
  <2>1. CASE u = t
    BY <2>1, <1>2 DEF Paired, Taking, Store
  <2>2. CASE u = peer[t]
    <3>1. Taken(u)
      BY <2>2, <1>1 DEF Taken, Store
    <3>2. Taken(u)'
      BY <2>2, <1>1, <1>2, <1>3 DEF Taken
    <3> QED
      BY <3>1, <3>2 DEF Paired
  <2>3. CASE u # t /\ u # peer[t]
    <3>1. Taken(u)' <=> Taken(u)
      BY <2>3, <1>1, <1>2, <1>3, <1>4 DEF Taken
    <3>2. Taking(u)' <=> Taking(u)
      BY <2>3, <1>2 DEF Taking
    <3> QED
      BY <3>1, <3>2 DEF Paired
  <2> QED
    BY <2>1, <2>2, <2>3
<1> QED
  BY <1>5, SameBound DEF Store

LEMMA WakeBalanced ==
  ASSUME KeyedInv, Balanced, NEW t \in Threads, WakePeer(t)
  PROVE  Balanced'
<1> USE DEF KeyedInv
<1>1. /\ peer[t] \in Threads /\ peer[t] # t
      /\ \A u \in Threads : pc[u] # "store"
  BY NoneAssumption DEF WakePeer, PeerInv, Taking, TypeOK
<1>2. /\ pc'[t] = "idle"
      /\ \A u \in Threads \ {t} : pc'[u] = pc[u] \/ (pc[u] = "asleep" /\ pc'[u] = "check")
  BY <1>1 DEF WakePeer, TypeOK
<1>3. Paired(t) /\ ~Paired(t)'
  BY <1>2 DEF Paired, Taking, Taken, Blocked, WakePeer
<1>4. ASSUME NEW u \in Threads \ {t} PROVE (Blocked(u)' <=> Blocked(u)) /\ (Taking(u)' <=> Taking(u))
  BY <1>2 DEF Blocked, Taking
<1>5. \A u \in Threads : pc'[u] # "store"
  BY <1>1, <1>2
<1>6. ASSUME NEW u \in Threads \ {t} PROVE Paired(u)' <=> Paired(u)
  BY <1>1, <1>4, <1>5 DEF Paired, Taken, WakePeer
<1> QED
  BY <1>3, <1>6, OneReturns DEF WakePeer

LEMMA CheckBalanced ==
  ASSUME KeyedInv, Balanced, NEW t \in Threads, CheckDone(t)
  PROVE  Balanced'
<1> USE DEF KeyedInv
<1>1. CASE done[t]
  <2>1. /\ pc'[t] = "idle" /\ \A u \in Threads \ {t} : pc'[u] = pc[u]
        /\ owed' = [owed EXCEPT ![key[t]] = @ + IF side[t] = "wait" THEN 1 ELSE -1]
    BY <1>1 DEF CheckDone, Succeed, Goto, TypeOK
  <2>2. Paired(t) /\ ~Paired(t)'
    BY <1>1, <2>1 DEF Paired, Taking, Taken, Blocked, CheckDone
  <2>3. \A u, v \in Threads : (pc'[v] = "store" /\ peer'[v] = u) <=> (pc[v] = "store" /\ peer[v] = u)
    BY <2>1 DEF CheckDone
  <2>4. ASSUME NEW u \in Threads \ {t} PROVE Paired(u)' <=> Paired(u)
    BY <2>1, <2>3 DEF Paired, Taken, Taking, Blocked, CheckDone
  <2> QED
    BY <2>1, <2>2, <2>4, OneReturns DEF CheckDone
<1>2. CASE ~done[t]
  <2>1. pc'[t] = "expire" /\ (\A u \in Threads \ {t} : pc'[u] = pc[u]) /\ owed' = owed
    BY <1>2 DEF CheckDone, Goto, TypeOK
  <2>2. \A u, v \in Threads : (pc'[v] = "store" /\ peer'[v] = u) <=> (pc[v] = "store" /\ peer[v] = u)
    BY <2>1 DEF CheckDone
  <2>3. ASSUME NEW u \in Threads PROVE (Blocked(u)' <=> Blocked(u)) /\ (Taking(u)' <=> Taking(u))
    BY <2>1 DEF Blocked, Taking, CheckDone
  <2>4. ASSUME NEW u \in Threads PROVE Paired(u)' <=> Paired(u)
    BY <2>2, <2>3 DEF Paired, Taken, CheckDone
  <2> QED
    BY <2>1, <2>4, SameBound DEF CheckDone
<1> QED
  BY <1>1, <1>2

(* Every other step moves a thread that nobody has taken, or moves it      *)
(* between the places a blocked call can be.                               *)
LEMMA MoveBalanced ==
  ASSUME KeyedInv, Balanced, NEW t \in Threads, UNCHANGED <<key, side, done, peer, owed>>,
         NEW p, Goto(t, p), ~Taking(t), p \notin {"store", "wake"},
         \/ Blocked(t) /\ p \in {"check", "expire", "wait", "asleep", "cancel"}
         \/ ~Taken(t) /\ ~done[t] /\ \A u \in Threads : ~(pc[u] = "store" /\ peer[u] = t)
  PROVE  Balanced'
<1> USE DEF KeyedInv
<1>1. pc'[t] = p /\ \A u \in Threads \ {t} : pc'[u] = pc[u]
  BY DEF Goto, TypeOK
<1>2. \A u, v \in Threads : (pc'[v] = "store" /\ peer'[v] = u) <=> (pc[v] = "store" /\ peer[v] = u)
  BY <1>1 DEF Taking
<1>3. ASSUME NEW u \in Threads \ {t} PROVE Paired(u)' <=> Paired(u)
  BY <1>1, <1>2 DEF Paired, Taken, Taking, Blocked
<1>4. ~Taking(t)'
  BY <1>1 DEF Taking
<1>5. Taken(t)' <=> Taken(t)
  <2>1. CASE Blocked(t) /\ p \in {"check", "expire", "wait", "asleep", "cancel"}
    <3>1. Blocked(t)'
      BY <2>1, <1>1 DEF Blocked
    <3> QED
      BY <3>1, <2>1, <1>2 DEF Taken
  <2>2. CASE ~Taken(t) /\ ~done[t] /\ \A u \in Threads : ~(pc[u] = "store" /\ peer[u] = t)
    BY <2>2, <1>2 DEF Taken
  <2> QED
    BY <2>1, <2>2
<1>6. Paired(t)' <=> Paired(t)
  BY <1>4, <1>5 DEF Paired
<1> QED
  BY <1>3, <1>6, SameBound

LEMMA CallBalanced ==
  ASSUME KeyedInv, Balanced, NEW t \in Threads, NEW k, NEW s, NEW o, Call(t, k, s, o)
  PROVE  Balanced'
<1> USE DEF KeyedInv
<1>1. pc'[t] = "call" /\ \A u \in Threads \ {t} : pc'[u] = pc[u] /\ done'[u] = done[u] /\ key'[u] = key[u] /\ side'[u] = side[u]
  BY DEF Call, Goto, TypeOK
<1>2. \A u, v \in Threads : (pc'[v] = "store" /\ peer'[v] = u) <=> (pc[v] = "store" /\ peer[v] = u)
  BY <1>1 DEF Call
<1>3. ~Paired(t) /\ ~Paired(t)'
  BY <1>1 DEF Paired, Taken, Taking, Blocked, Call
<1>4. ASSUME NEW u \in Threads \ {t} PROVE Paired(u)' <=> Paired(u)
  BY <1>1, <1>2 DEF Paired, Taken, Taking, Blocked
<1> QED
  BY <1>1, <1>3, <1>4, SameBound DEF Call

LEMMA StillBalanced ==
  ASSUME KeyedInv, Balanced, [Next]_vars
  PROVE  Balanced'
<1> USE DEF KeyedInv
<1>1. CASE UNCHANGED vars
  BY <1>1, SameBound DEF vars, Paired, Taken, Taking, Blocked
<1>2. ASSUME NEW t \in Threads, NEW k \in Keys, NEW s \in Sides, NEW o \in Patience[t], Call(t, k, s, o)
      PROVE  Balanced'
  BY <1>2, CallBalanced
<1>3. ASSUME NEW t \in Threads, Step(t)
      PROVE  Balanced'
  <2>1. pc[t] = "call" =>
          ~Taking(t) /\ ~Taken(t) /\ ~done[t] /\ \A u \in Threads : ~(pc[u] = "store" /\ peer[u] = t)
    BY DEF PeerInv, Taking, Taken, Blocked
  <2>2. CASE Match(t)
    BY <2>2, MatchBalanced
  <2>3. CASE Store(t)
    BY <2>3, StoreBalanced
  <2>4. CASE WakePeer(t)
    BY <2>4, WakeBalanced
  <2>5. CASE GiveUp(t)
    BY <2>1, <2>5, MoveBalanced DEF GiveUp, TimeOut
  <2>6. CASE Enqueue(t)
    BY <2>1, <2>6, MoveBalanced DEF Enqueue
  <2>7. CASE CheckDone(t)
    BY <2>7, CheckBalanced
  <2>8. CASE Expire(t)
    BY <2>8, MoveBalanced DEF Expire, Blocked, Taking
  <2>9. CASE HasTime(t)
    BY <2>9, MoveBalanced DEF HasTime, Blocked, Taking
  <2>10. CASE FutexWait(t)
    BY <2>10, MoveBalanced DEF FutexWait, Blocked, Taking
  <2>11. CASE FutexElapses(t)
    BY <2>11, MoveBalanced DEF FutexElapses, Blocked, Taking
  <2>12. CASE Cancel(t)
    <3>1. CASE Contains(queue, t)
      <4>1. ~done[t] /\ \A u \in Threads : ~(pc[u] = "store" /\ peer[u] = t)
        BY <3>1, QueueSet DEF LinkedOnlyWhileBlocked
      <4>2. ~Taken(t)
        BY <4>1 DEF Taken
      <4>3. Goto(t, "idle") \/ Goto(t, "check")
        BY <2>12 DEF Cancel, TimeOut
      <4>4. UNCHANGED <<key, side, done, peer, owed>> /\ ~Taking(t)
        BY <2>12 DEF Cancel, TimeOut, Taking
      <4> QED
        BY <4>1, <4>2, <4>3, <4>4, MoveBalanced
    <3>2. CASE ~Contains(queue, t)
      <4>1. Goto(t, "check") /\ UNCHANGED owed
        BY <2>12, <3>2 DEF Cancel, Contains, TypeOK
      <4>2. UNCHANGED <<key, side, done, peer>> /\ ~Taking(t) /\ Blocked(t)
        BY <2>12 DEF Cancel, Taking, Blocked
      <4> QED
        BY <4>1, <4>2, MoveBalanced
    <3> QED
      BY <3>1, <3>2
  <2> QED
    BY <1>3, <2>2, <2>3, <2>4, <2>5, <2>6, <2>7, <2>8, <2>9, <2>10, <2>11, <2>12 DEF Step
<1> QED
  BY <1>1, <1>2, <1>3 DEF Next

LEMMA BalancedInit == Init => Balanced
<1> SUFFICES ASSUME Init, NEW k \in Keys
             PROVE  owed[k] + Cardinality(Bound(k, "wait")) - Cardinality(Bound(k, "release")) = 0
  BY DEF Balanced
<1>1. Bound(k, "wait") = {} /\ Bound(k, "release") = {}
  BY DEF Init, Bound, Paired, Taking, Taken, Blocked
<1>2. owed[k] = 0
  BY DEF Init
<1>3. Cardinality({}) = 0
  BY FS_EmptySet
<1> QED
  BY <1>1, <1>2, <1>3, SMT

(* For any number of threads and keys: waits and releases succeed in       *)
(* pairs, a deadline that races the pairing included; none is left queued  *)
(* beside its match, no record outlives its call, no wake-up is lost.      *)
THEOREM PairsSucceed == Spec => []Rendezvous
<1>1. KeyedInv /\ Balanced => Rendezvous
  BY DEF KeyedInv, Rendezvous
<1> QED
  BY <1>1, KeyedInit, KeyedStep, BalancedInit, StillBalanced, PTL DEF Spec
=============================================================================
