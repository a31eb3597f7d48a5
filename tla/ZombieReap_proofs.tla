------------------------- MODULE ZombieReap_proofs -------------------------
(***************************************************************************)
(* For any number of connection threads: a reaper never waits for a thread *)
(* that itself waits, no thread is joined twice, and the count of the      *)
(* threads that are to be joined is right.                                 *)
(***************************************************************************)
EXTENDS ZombieReap, FiniteSetTheorems, TLAPS

LEMMA ReapInit == Init => ReapInv
  BY MainAssumption
  DEF Init, ReapInv, Shape, Queued, NoJoinCycle, JoinedOnce, Held, All

(* Detaching the list moves every queued node to one reaper.               *)
LEMMA StartReapStep ==
  ASSUME ReapInv, NEW t \in All, NEW p \in {"reap", "ending"}, StartReap(t, p),
         t = Main => p = "reap"
  PROVE  ReapInv'
  BY MainAssumption
  DEF StartReap, ReapInv, Shape, Queued, NoJoinCycle, JoinedOnce, Held, All

LEMMA JoinStep ==
  ASSUME ReapInv, NEW t \in All, Join(t)
  PROVE  ReapInv'
  BY MainAssumption
  DEF Join, ReapInv, Shape, Queued, NoJoinCycle, JoinedOnce, Held, All

(* The caller's own node was never detached by the caller: it is running.  *)
LEMMA ReapedStep ==
  ASSUME ReapInv, NEW t \in All, Reaped(t)
  PROVE  ReapInv'
<1>1. t \notin mine[t]
  BY DEF Reaped, ReapInv, NoJoinCycle
<1>2. mine[t] = {} /\ AfterReap(t) \in {"push", "run", "create"}
  BY <1>1 DEF Reaped, AfterReap
<1> QED
  BY <1>2, MainAssumption DEF Reaped, AfterReap, ReapInv, Shape, Queued, NoJoinCycle, JoinedOnce, Held, All

(* A thread that queues itself is in nobody's hands yet.                   *)
LEMMA PushStep ==
  ASSUME ReapInv, NEW t \in All, Push(t) \/ NoMemory(t), t \in Threads
  PROVE  ReapInv'
  BY MainAssumption
  DEF Push, NoMemory, ReapInv, Shape, Queued, NoJoinCycle, JoinedOnce, Held, All

LEMMA CreateStep ==
  ASSUME ReapInv, NEW t \in All, NEW u \in Threads, Create(t, u)
  PROVE  ReapInv'
  BY MainAssumption
  DEF Create, ReapInv, Shape, Queued, NoJoinCycle, JoinedOnce, Held, All

LEMMA MoveStep ==
  ASSUME ReapInv, NEW t \in All, CreateFails(t) \/ Exit(t)
  PROVE  ReapInv'
  BY MainAssumption
  DEF CreateFails, Exit, ReapInv, Shape, Queued, NoJoinCycle, JoinedOnce, Held, All

LEMMA ReapInvStep == ReapInv /\ [Next]_vars => ReapInv'
<1> SUFFICES ASSUME ReapInv, [Next]_vars PROVE ReapInv'
  OBVIOUS
<1>1. CASE UNCHANGED vars
  BY <1>1 DEF vars, ReapInv, Shape, Queued, NoJoinCycle, JoinedOnce, Held
<1>2. CASE Next
  <2> PICK t \in All :
        \/ \E u \in Threads : Create(t, u)
        \/ CreateFails(t) \/ Reap(t) \/ End(t) \/ Join(t) \/ Reaped(t)
        \/ Push(t) \/ NoMemory(t) \/ Exit(t)
    BY <1>2 DEF Next
  <2>1. CASE Reap(t) \/ End(t)
    BY <2>1, StartReapStep DEF Reap, End
  <2>2. CASE Join(t) \/ Reaped(t)
    BY <2>2, JoinStep, ReapedStep
  <2>3. CASE Push(t) \/ NoMemory(t)
    <3>1. t \in Threads
      BY <2>3 DEF Push, NoMemory, All, ReapInv, Shape
    <3> QED
      BY <2>3, <3>1, PushStep
  <2>4. CASE (\E u \in Threads : Create(t, u)) \/ CreateFails(t) \/ Exit(t)
    BY <2>4, CreateStep, MoveStep
  <2> QED
    BY <2>1, <2>2, <2>3, <2>4
<1> QED
  BY <1>1, <1>2

(* The reapers' loop of joins (horizon_zombie_reap) never waits for a      *)
(* thread with joins of its own, and joins each ended thread once.         *)
THEOREM JoinsAreSafe == Spec => [](NoJoinCycle /\ JoinedOnce)
<1>1. ReapInv => NoJoinCycle /\ JoinedOnce
  BY DEF ReapInv
<1> QED
  BY ReapInit, ReapInvStep, <1>1, PTL DEF Spec

-----------------------------------------------------------------------------
(* The count.                                                              *)

LEMMA UnaccountedType ==
  ASSUME Shape
  PROVE  Unaccounted \subseteq Threads /\ IsFiniteSet(Unaccounted)
<1>1. Unaccounted \subseteq Threads
  BY DEF Shape, Unaccounted, Held
<1> QED
  BY <1>1, FiniteAssumption, FS_Subset

(* Detaching and joining move nodes and lose none.                         *)
LEMMA StartReapCounts ==
  ASSUME ReapInv, PendingCounts, NEW t \in All, NEW p, StartReap(t, p)
  PROVE  PendingCounts'
<1>1. mine[t] = {}
  BY DEF ReapInv, Queued, StartReap, Held
<1>2. Unaccounted' = Unaccounted
  BY <1>1 DEF StartReap, Unaccounted, Held, ReapInv, Shape
<1> QED
  BY <1>2 DEF PendingCounts, StartReap

LEMMA JoinCounts ==
  ASSUME ReapInv, PendingCounts, NEW t \in All, Join(t)
  PROVE  PendingCounts'
<1>1. \A x \in All : Held(x)' = Held(x)
  BY DEF Join, Held, ReapInv, Shape
<1>2. Unaccounted' = Unaccounted
  BY <1>1 DEF Join, Unaccounted
<1> QED
  BY <1>2 DEF PendingCounts, Join

(* What a reaper takes off the count is what only it held.                 *)
LEMMA ReapedCounts ==
  ASSUME ReapInv, PendingCounts, NEW t \in All, Reaped(t)
  PROVE  PendingCounts'
<1>1. mine[t] = {}
  BY DEF Reaped, ReapInv, NoJoinCycle
<1>2. joins[t] \subseteq Unaccounted
  BY DEF Unaccounted, Held
<1>3. Unaccounted' = Unaccounted \ joins[t]
  <2>1. Held(t)' = {} /\ \A x \in All \ {t} : Held(x)' = Held(x)
    BY DEF Reaped, Held, ReapInv, Shape
  <2>2. list' = list /\ list \cap joins[t] = {}
    BY <1>1 DEF Reaped, ReapInv, Queued
  <2>3. \A x \in All \ {t} : Held(x) \cap joins[t] = {}
    BY DEF ReapInv, JoinedOnce, Held
  <2>4. Held(t) = joins[t]
    BY <1>1 DEF Held
  <2> QED
    BY <2>1, <2>2, <2>3, <2>4 DEF Unaccounted
<1>4. IsFiniteSet(Unaccounted) /\ IsFiniteSet(joins[t])
  BY <1>2, UnaccountedType, FS_Subset DEF ReapInv
<1>5. Unaccounted \cap joins[t] = joins[t]
  BY <1>2
<1>6. Cardinality(Unaccounted \ joins[t]) = Cardinality(Unaccounted) - Cardinality(joins[t])
  BY <1>4, <1>5, FS_Difference
<1> QED
  BY <1>3, <1>6 DEF PendingCounts, Reaped

LEMMA PushCounts ==
  ASSUME ReapInv, PendingCounts, NEW t \in Threads, Push(t)
  PROVE  PendingCounts'
<1>1. t \notin Unaccounted
  BY DEF Push, ReapInv, Queued, NoJoinCycle, Unaccounted, Held
<1>2. Unaccounted' = Unaccounted \cup {t}
  BY DEF Push, Unaccounted, Held
<1> QED
  BY <1>1, <1>2, UnaccountedType, FS_AddElement DEF PendingCounts, Push, ReapInv

LEMMA CountStep == ReapInv /\ PendingCounts /\ [Next]_vars => PendingCounts'
<1> SUFFICES ASSUME ReapInv, PendingCounts, [Next]_vars PROVE PendingCounts'
  OBVIOUS
<1>1. ASSUME UNCHANGED <<list, mine, joins, pending>> PROVE PendingCounts'
  BY <1>1 DEF PendingCounts, Unaccounted, Held
<1>2. CASE UNCHANGED vars
  BY <1>1, <1>2 DEF vars
<1>3. CASE Next
  <2> PICK t \in All :
        \/ \E u \in Threads : Create(t, u)
        \/ CreateFails(t) \/ Reap(t) \/ End(t) \/ Join(t) \/ Reaped(t)
        \/ Push(t) \/ NoMemory(t) \/ Exit(t)
    BY <1>3 DEF Next
  <2>1. CASE Reap(t) \/ End(t)
    BY <2>1, StartReapCounts DEF Reap, End
  <2>2. CASE Join(t) \/ Reaped(t)
    BY <2>2, JoinCounts, ReapedCounts
  <2>3. CASE Push(t)
    <3>1. t \in Threads
      BY <2>3 DEF Push, All, ReapInv, Shape
    <3> QED
      BY <2>3, <3>1, PushCounts
  <2>4. CASE (\E u \in Threads : Create(t, u)) \/ CreateFails(t) \/ NoMemory(t) \/ Exit(t)
    BY <1>1, <2>4 DEF Create, CreateFails, NoMemory, Exit
  <2> QED
    BY <2>1, <2>2, <2>3, <2>4
<1> QED
  BY <1>2, <1>3

(* list->pending is the number of threads that ended and nobody accounted  *)
(* for, however many reaps run at once (horizon_zombie_push and            *)
(* horizon_zombie_reap), and stays within the number of threads.           *)
THEOREM EveryoneAccounted == Spec => []Accounted
<1>1. Init => PendingCounts
  <2> SUFFICES ASSUME Init PROVE PendingCounts
    OBVIOUS
  <2>1. Unaccounted = {}
    BY DEF Init, Unaccounted, Held
  <2> QED
    BY <2>1, FS_EmptySet DEF Init, PendingCounts
<1>2. ReapInv /\ PendingCounts => Accounted
  <2> SUFFICES ASSUME ReapInv, PendingCounts PROVE Accounted
    OBVIOUS
  <2>1. pending \in 0 .. Cardinality(Threads)
    BY UnaccountedType, FiniteAssumption, FS_Subset, FS_CardinalityType DEF PendingCounts, ReapInv
  <2> QED
    BY <2>1 DEF Accounted, TypeOK, ReapInv, Shape
<1> QED
  BY ReapInit, ReapInvStep, CountStep, <1>1, <1>2, PTL DEF Spec
=============================================================================
