------------------------- MODULE HorizonSync_proofs -------------------------
(* Theorems about HorizonSync, for every set of threads, objects and         *)
(* requests.                                                                 *)
EXTENDS HorizonSync, FiniteSetTheorems, TLAPS

-----------------------------------------------------------------------------
(* Lists of waiters                                                          *)

\* Unlinking a waiter leaves a list of threads.
LEMMA WithoutType ==
    ASSUME NEW s \in Seq(Threads), NEW t
    PROVE  Without(s, t) \in Seq(Threads)
<1>1. CASE t \in Elements(s)
  <2> DEFINE k == CHOOSE i \in DOMAIN s : s[i] = t
  <2>1. k \in DOMAIN s
    BY <1>1 DEF Elements
  <2>2. Len(s) \in Nat /\ DOMAIN s = 1..Len(s) /\ Len(s) - 1 \in Nat
    BY <2>1
  <2>3. \A i \in 1..(Len(s) - 1) : (IF i < k THEN s[i] ELSE s[i + 1]) \in Threads
    BY <2>1, <2>2
  <2>4. Without(s, t) = [i \in 1..(Len(s) - 1) |-> IF i < k THEN s[i] ELSE s[i + 1]]
    BY <1>1 DEF Without
  <2> QED BY <2>2, <2>3, <2>4
<1>2. CASE t \notin Elements(s)
  BY <1>2 DEF Without
<1> QED BY <1>1, <1>2

\* Unlinking a waiter keeps every other one.
LEMMA WithoutKeeps ==
    ASSUME NEW s \in Seq(Threads), NEW t, NEW u \in Elements(s), u # t
    PROVE  u \in Elements(Without(s, t))
<1>1. CASE t \in Elements(s)
  <2> DEFINE k == CHOOSE i \in DOMAIN s : s[i] = t
             f == [i \in 1..(Len(s) - 1) |-> IF i < k THEN s[i] ELSE s[i + 1]]
  <2>1. k \in DOMAIN s /\ s[k] = t
    BY <1>1 DEF Elements
  <2>2. Len(s) \in Nat /\ DOMAIN s = 1..Len(s)
    OBVIOUS
  <2>3. PICK j \in DOMAIN s : s[j] = u
    BY DEF Elements
  <2> HIDE DEF k
  <2>4. CASE j < k
    <3>1. j \in 1..(Len(s) - 1) /\ f[j] = u
      BY <2>1, <2>2, <2>3, <2>4
    <3> QED BY <1>1, <3>1 DEF Without, Elements, k
  <2>5. CASE j > k
    <3>1. (j - 1) \in 1..(Len(s) - 1) /\ f[j - 1] = u
      BY <2>1, <2>2, <2>3, <2>5
    <3> QED BY <1>1, <3>1 DEF Without, Elements, k
  <2>6. j # k
    BY <2>1, <2>3
  <2> QED BY <2>1, <2>2, <2>3, <2>4, <2>5, <2>6
<1>2. CASE t \notin Elements(s)
  BY <1>2 DEF Without
<1> QED BY <1>1, <1>2

\* A list without repetitions loses the waiter, gains nothing, and stays without
\* repetitions.
LEMMA WithoutRemoves ==
    ASSUME NEW s \in Seq(Threads), NEW t,
           \A i, j \in DOMAIN s : s[i] = s[j] => i = j
    PROVE  /\ Elements(Without(s, t)) \subseteq Elements(s) \ {t}
           /\ \A i, j \in DOMAIN Without(s, t) : Without(s, t)[i] = Without(s, t)[j] => i = j
<1>1. CASE t \in Elements(s)
  <2> DEFINE k == CHOOSE i \in DOMAIN s : s[i] = t
             f == [i \in 1..(Len(s) - 1) |-> IF i < k THEN s[i] ELSE s[i + 1]]
  <2>1. k \in DOMAIN s /\ s[k] = t
    BY <1>1 DEF Elements
  <2>2. Len(s) \in Nat /\ DOMAIN s = 1..Len(s)
    OBVIOUS
  <2>3. Without(s, t) = f
    BY <1>1 DEF Without
  <2> HIDE DEF k
  <2>4. \A i \in 1..(Len(s) - 1) : f[i] \in Elements(s) /\ f[i] # t
    BY <2>1, <2>2 DEF Elements
  <2>5. \A i, j \in 1..(Len(s) - 1) : f[i] = f[j] => i = j
    BY <2>1, <2>2
  <2> QED BY <2>3, <2>4, <2>5 DEF Elements
<1>2. CASE t \notin Elements(s)
  BY <1>2 DEF Without
<1> QED BY <1>1, <1>2

\* Linking a waiter adds it to the list.
LEMMA AppendElements ==
    ASSUME NEW s \in Seq(Threads), NEW t \in Threads
    PROVE  Elements(Append(s, t)) = Elements(s) \cup {t}
<1>1. \A i \in 1..Len(s) : Append(s, t)[i] = s[i]
  OBVIOUS
<1>2. Append(s, t)[Len(s) + 1] = t /\ DOMAIN Append(s, t) = 1..(Len(s) + 1)
  OBVIOUS
<1>3. DOMAIN s = 1..Len(s) /\ Len(s) \in Nat
  OBVIOUS
<1> QED BY <1>1, <1>2, <1>3 DEF Elements

\* The walk visits its first waiter and keeps the others.
LEMMA HeadTail ==
    ASSUME NEW s \in Seq(Threads), s # <<>>
    PROVE  /\ Head(s) \in Threads /\ Tail(s) \in Seq(Threads)
           /\ Elements(s) = {Head(s)} \cup Elements(Tail(s))
<1>1. Len(s) \in Nat \ {0} /\ DOMAIN s = 1..Len(s)
  OBVIOUS
<1>2. Head(s) = s[1] /\ Tail(s) \in Seq(Threads) /\ DOMAIN Tail(s) = 1..(Len(s) - 1)
  BY <1>1
<1>3. \A i \in 1..(Len(s) - 1) : Tail(s)[i] = s[i + 1]
  BY <1>1
<1>4. \A i \in 2..Len(s) : s[i] = Tail(s)[i - 1] /\ (i - 1) \in DOMAIN Tail(s)
  BY <1>1, <1>2, <1>3
<1>5. Elements(s) \subseteq {Head(s)} \cup Elements(Tail(s))
  <2> SUFFICES ASSUME NEW i \in 1..Len(s)
               PROVE  s[i] \in {Head(s)} \cup Elements(Tail(s))
    BY <1>1 DEF Elements
  <2>1. CASE i = 1
    BY <1>2, <2>1
  <2>2. CASE i \in 2..Len(s)
    BY <1>4, <2>2 DEF Elements
  <2> QED BY <1>1, <2>1, <2>2
<1>6. {Head(s)} \cup Elements(Tail(s)) \subseteq Elements(s)
  BY <1>1, <1>2, <1>3 DEF Elements
<1> QED BY <1>1, <1>2, <1>5, <1>6

-----------------------------------------------------------------------------
(* Type correctness                                                          *)

\* Every request being served is a well-formed request.
LEMMA RequestTyped ==
    ASSUME TypeOK, NEW t \in Threads
    PROVE  /\ req[t] \in RequestType
           /\ req[t].objs \in Seq(Objects) /\ req[t].signal \in Objects \cup {None}
           /\ req[t].all \in BOOLEAN
           /\ \A i \in DOMAIN req[t].objs : req[t].objs[i] \in Objects
<1>1. NoRequest \in RequestType
  BY DEF NoRequest, RequestType
<1>2. req[t] \in RequestType
  BY <1>1, RequestsAssumption DEF TypeOK
<1> QED BY <1>2 DEF RequestType

\* A satisfied wait takes signaled objects only.
LEMMA TakesReady ==
    ASSUME TypeOK, NEW t \in Threads, NEW o \in Takes(t)
    PROVE  o \in Objects /\ Ready(o, t) /\ o \in Elements(req[t].objs)
<1>1. PICK i \in DOMAIN req[t].objs : o = req[t].objs[i] /\ Ready(o, t)
  <2>1. CASE req[t].all
    BY <2>1 DEF Takes, Elements
  <2>2. CASE ~req[t].all
    BY <2>2 DEF Takes
  <2> QED BY <2>1, <2>2
<1> QED BY <1>1, RequestTyped DEF Elements

\* Consuming signaled objects keeps the objects' types.
LEMMA ConsumeType ==
    ASSUME TypeOK, NEW t \in Threads, NEW S, Consume(t, S),
           \A o \in S : IsSignaled(o, t)
    PROVE  /\ signaled' \in [Signals -> BOOLEAN]
           /\ mutex' \in [Mutexes -> MutexType]
           /\ count' \in [Semaphores -> 0..SemMax]
<1>1. signaled' \in [Signals -> BOOLEAN]
  BY DEF TypeOK, Consume
<1>2. mutex' \in [Mutexes -> MutexType]
  <2>1. \A m \in Mutexes : Acquire(mutex[m], t) \in MutexType
    BY DEF TypeOK, Acquire, MutexType
  <2> QED BY <2>1 DEF TypeOK, Consume
<1>3. count' \in [Semaphores -> 0..SemMax]
  <2>1. \A s \in Semaphores : s \in S => count[s] > 0
    BY ObjectsAssumption DEF IsSignaled, Signals
  <2> QED BY <2>1, BoundsAssumption DEF TypeOK, Consume
<1> QED BY <1>1, <1>2, <1>3

\* Waking waiters keeps the type of their flags.
LEMMA NotifyType ==
    ASSUME TypeOK, NEW S, Notify(S)
    PROVE  notified' \in [Threads -> BOOLEAN]
BY DEF TypeOK, Notify

\* Signalling an object keeps types.
LEMMA SignalType ==
    ASSUME TypeOK, NEW t \in Threads, NEW o, NEW n \in 1..SemMax,
           CanSignal(t, o, n), DoSignal(t, o, n)
    PROVE  /\ signaled' \in [Signals -> BOOLEAN]
           /\ mutex' \in [Mutexes -> MutexType]
           /\ count' \in [Semaphores -> 0..SemMax]
           /\ walk' \in Seq(Threads) /\ notified' \in [Threads -> BOOLEAN]
           /\ held' \in [Threads -> [Mutexes -> Int]]
           /\ credit' \in [Counted -> Int]
<1>0. o \in Objects
  BY DEF CanSignal, TypeOK
<1>1. signaled' \in [Signals -> BOOLEAN]
  BY DEF TypeOK, DoSignal
<1>2. mutex' \in [Mutexes -> MutexType]
  <2>1. \A m \in Mutexes : m = o => mutex[m].count > 0
    BY ObjectsAssumption DEF CanSignal
  <2>2. \A m \in Mutexes : m = o => Release(mutex[m]) \in MutexType
    BY <2>1 DEF TypeOK, Release, MutexType
  <2> QED BY <2>2 DEF TypeOK, DoSignal
<1>3. count' \in [Semaphores -> 0..SemMax]
  BY ObjectsAssumption, BoundsAssumption DEF TypeOK, DoSignal, CanSignal
<1>4. walk' \in Seq(Threads) /\ notified' \in [Threads -> BOOLEAN]
  <2>1. waiters[o] \in Seq(Threads)
    BY <1>0 DEF TypeOK
  <2>2. CASE Wakes(o)
    BY <2>1, <2>2, NotifyType DEF DoSignal, StartWalk
  <2>3. CASE ~Wakes(o)
    BY <2>3 DEF TypeOK, DoSignal
  <2> QED BY <2>2, <2>3
<1>5. held' \in [Threads -> [Mutexes -> Int]]
  BY DEF TypeOK, DoSignal
<1>6. credit' \in [Counted -> Int]
  BY BoundsAssumption DEF TypeOK, DoSignal
<1> QED BY <1>1, <1>2, <1>3, <1>4, <1>5, <1>6

\* Replying to a select keeps types.
LEMMA ReturnType ==
    ASSUME TypeOK, NEW t \in Threads, NEW S, Return(t, S)
    PROVE  /\ lock' \in Threads \cup {None} /\ pc' \in [Threads -> Stages]
           /\ waiters' \in [Objects -> Seq(Threads)]
           /\ req' \in [Threads -> Requests \cup {NoRequest}]
           /\ fresh' \in [Threads -> BOOLEAN]
           /\ mode' \in [Threads -> {"new", "legacy", "queued"}]
           /\ notified' \in [Threads -> BOOLEAN] /\ done' \in [Threads -> BOOLEAN]
           /\ took' \in [Threads -> SUBSET Objects]
           /\ held' \in [Threads -> [Mutexes -> Int]]
           /\ credit' \in [Counted -> Int]
<1>1. lock' \in Threads \cup {None} /\ pc' \in [Threads -> Stages]
  BY DEF TypeOK, Return, Leave, Stages
<1>2. waiters' \in [Objects -> Seq(Threads)]
  BY WithoutType DEF TypeOK, Return, Unqueue
<1>3. /\ req' \in [Threads -> Requests \cup {NoRequest}]
      /\ fresh' \in [Threads -> BOOLEAN]
      /\ mode' \in [Threads -> {"new", "legacy", "queued"}]
      /\ notified' \in [Threads -> BOOLEAN] /\ done' \in [Threads -> BOOLEAN]
      /\ took' \in [Threads -> SUBSET Objects]
  BY DEF TypeOK, Return
<1>4. held' \in [Threads -> [Mutexes -> Int]]
  BY DEF TypeOK, Return
<1>5. credit' \in [Counted -> Int]
  BY DEF TypeOK, Return
<1> QED BY <1>1, <1>2, <1>3, <1>4, <1>5

\* Clearing a flag keeps types.
LEMMA ClearType ==
    ASSUME TypeOK, NEW o, Clear(o)
    PROVE  signaled' \in [Signals -> BOOLEAN] /\ credit' \in [Counted -> Int]
<1>1. signaled' \in [Signals -> BOOLEAN]
  BY Zenon DEF Clear, TypeOK
<1>2. credit' \in [Counted -> Int]
  BY DEF Clear, TypeOK
<1> QED BY <1>1, <1>2

\* Every step keeps types.
LEMMA TypeStep == TypeOK /\ [Next]_vars => TypeOK'
<1> SUFFICES ASSUME TypeOK, [Next]_vars
             PROVE  TypeOK'
  OBVIOUS
<1> USE DEF objVars, timerVars, threadVars, waitVars, ghostVars
<1>1. CASE Visit
  <2> DEFINE t == Head(walk)
  <2>1. t \in Threads /\ walk' \in Seq(Threads)
    BY <1>1, HeadTail DEF Visit, TypeOK
  <2>2. CASE UNCHANGED <<objVars, notified, done, took>>
    BY <1>1, <2>1, <2>2 DEF Visit, TypeOK
  <2>3. CASE Notify({t}) /\ UNCHANGED <<objVars, done, took>>
    BY <1>1, <2>1, <2>3, NotifyType DEF Visit, TypeOK
  <2>4. CASE /\ Notify({t}) /\ Consume(t, Takes(t))
             /\ done' = [done EXCEPT ![t] = TRUE] /\ took' = [took EXCEPT ![t] = Takes(t)]
    <3>1. \A o \in Takes(t) : IsSignaled(o, t) /\ o \in Objects
      BY <2>1, TakesReady DEF Ready
    <3>2. /\ signaled' \in [Signals -> BOOLEAN]
          /\ mutex' \in [Mutexes -> MutexType]
          /\ count' \in [Semaphores -> 0..SemMax]
      BY <2>1, <2>4, <3>1, ConsumeType
    <3>3. done' \in [Threads -> BOOLEAN] /\ took' \in [Threads -> SUBSET Objects]
      BY <2>4, <3>1 DEF TypeOK
    <3> QED BY <1>1, <2>1, <2>4, <3>2, <3>3, NotifyType DEF Visit, TypeOK
  <2> QED BY <1>1, <2>2, <2>3, <2>4 DEF Visit
<1>2. ASSUME NEW t \in Threads, Request(t)
      PROVE  TypeOK'
  <2>1. ASSUME NEW r \in Requests, Select(t, r)
        PROVE  TypeOK'
    BY <2>1 DEF Select, Enter, TypeOK, Stages
  <2>2. ASSUME NEW e \in Events, SetEvent(t, e)
        PROVE  TypeOK'
    <3>1. 1 \in 1..SemMax
      BY BoundsAssumption
    <3> QED BY <2>2, <3>1, SignalType DEF SetEvent, Enter, TypeOK, Stages
  <2>3. ASSUME NEW e \in Events, ResetEvent(t, e)
        PROVE  TypeOK'
    BY <2>3, ClearType DEF ResetEvent, TypeOK, Signals
  <2>4. ASSUME NEW e \in Events, PulseEvent(t, e)
        PROVE  TypeOK'
    <3>1. walk' \in Seq(Threads) /\ notified' \in [Threads -> BOOLEAN]
      BY <2>4, NotifyType DEF PulseEvent, StartWalk, TypeOK, Objects, Signals
    <3>2. signaled' \in [Signals -> BOOLEAN]
      BY <2>4, Zenon DEF PulseEvent, TypeOK
    <3>3. credit' \in [Counted -> Int]
      BY <2>4 DEF PulseEvent, TypeOK
    <3> QED BY <2>4, <3>1, <3>2, <3>3 DEF PulseEvent, Enter, TypeOK, Stages
  <2>5. ASSUME NEW m \in Mutexes, ReleaseMutex(t, m)
        PROVE  TypeOK'
    <3>1. 1 \in 1..SemMax
      BY BoundsAssumption
    <3> QED BY <2>5, <3>1, SignalType DEF ReleaseMutex, Enter, TypeOK, Stages
  <2>6. ASSUME NEW s \in Semaphores, NEW n \in 1..SemMax, ReleaseSemaphore(t, s, n)
        PROVE  TypeOK'
    BY <2>6, SignalType DEF ReleaseSemaphore, Enter, TypeOK, Stages
  <2>7. ASSUME NEW o \in Timers, CancelTimer(t, o)
        PROVE  TypeOK'
    BY <2>7, NotifyType, ClearType DEF CancelTimer, NotifyOnly, TypeOK, Signals
  <2>8. ASSUME NEW o \in Timers, NEW p \in BOOLEAN, SetTimer(t, o, p)
        PROVE  TypeOK'
    BY <2>8, NotifyType, ClearType DEF SetTimer, NotifyOnly, TypeOK, Signals
  <2>9. CASE GetTimerInfo(t)
    BY <2>9 DEF GetTimerInfo, Enter, TypeOK, Stages
  <2>10. ASSUME NEW o \in Closable, CloseHandle(t, o)
         PROVE  TypeOK'
    BY <2>10, NotifyType DEF CloseHandle, NotifyOnly, TypeOK
  <2>11. ASSUME NEW u \in Threads, SuspendThread(t, u)
         PROVE  TypeOK'
    <3>1. suspend' \in [Threads -> 0..MaxSuspend]
      BY <2>11, BoundsAssumption DEF SuspendThread, TypeOK
    <3> QED BY <2>11, <3>1, NotifyType DEF SuspendThread, SignalChanged, TypeOK
  <2>12. ASSUME NEW u \in Threads, ResumeThread(t, u)
         PROVE  TypeOK'
    <3>1. suspend' \in [Threads -> 0..MaxSuspend]
      BY <2>12, BoundsAssumption DEF ResumeThread, TypeOK
    <3> QED BY <2>12, <3>1, NotifyType DEF ResumeThread, SignalChanged, TypeOK
  <2>13. ASSUME NEW u \in Threads, QueueApc(t, u)
         PROVE  TypeOK'
    <3>1. apc' \in [Threads -> 0..MaxApc]
      BY <2>13, BoundsAssumption DEF QueueApc, TypeOK
    <3> QED BY <2>13, <3>1, NotifyType DEF QueueApc, TypeOK
  <2>14. CASE ExitThread(t)
    <3>1. suspend' \in [Threads -> 0..MaxSuspend]
      BY <2>14, BoundsAssumption DEF ExitThread, TypeOK
    <3> QED BY <2>14, <3>1 DEF ExitThread, Enter, TypeOK, Stages
  <2> QED BY <1>2, <2>1, <2>2, <2>3, <2>4, <2>5, <2>6, <2>7, <2>8, <2>9, <2>10, <2>11,
             <2>12, <2>13, <2>14 DEF Request
<1>3. ASSUME NEW t \in Threads, Serve(t)
      PROVE  TypeOK'
  <2>1. CASE EndCall(t)
    BY <2>1 DEF EndCall, Leave, TypeOK, Stages
  <2>2. CASE EndPulse(t)
    BY <2>2, ClearType DEF EndPulse, Leave, TypeOK, Stages
  <2>3. CASE Park(t)
    <3>1. waiters' \in [Objects -> Seq(Threads)] /\ mode' \in [Threads -> {"new", "legacy", "queued"}]
      <4>1. CASE mode[t] = "queued"
        <5>1. /\ waiters' = [o \in Objects |-> Without(waiters[o], t)]
              /\ mode' = [mode EXCEPT ![t] = "new"]
          BY <2>3, <4>1 DEF Park, Unqueue
        <5>2. mode' \in [Threads -> {"new", "legacy", "queued"}]
          BY <5>1 DEF TypeOK
        <5> QED BY <5>1, <5>2, WithoutType DEF TypeOK
      <4>2. CASE mode[t] # "queued"
        BY <2>3, <4>2 DEF Park, TypeOK
      <4> QED BY <4>1, <4>2
    <3> QED BY <2>3, <3>1, NotifyType DEF Park, SignalChanged, Goto, TypeOK, Stages
  <2>4. CASE Collect(t)
    BY <2>4, ReturnType DEF Collect, TypeOK
  <2>5. CASE SignalFirst(t)
    <3>1. 1 \in 1..SemMax
      BY BoundsAssumption
    <3>2. CASE req[t].objs[1] \in open /\ CanSignal(t, req[t].signal, 1)
      <4>1. /\ signaled' \in [Signals -> BOOLEAN]
            /\ mutex' \in [Mutexes -> MutexType]
            /\ count' \in [Semaphores -> 0..SemMax]
            /\ walk' \in Seq(Threads) /\ notified' \in [Threads -> BOOLEAN]
            /\ held' \in [Threads -> [Mutexes -> Int]]
            /\ credit' \in [Counted -> Int]
        BY <2>5, <3>1, <3>2, SignalType DEF SignalFirst
      <4> QED BY <2>5, <3>2, <4>1, ZenonT(30) DEF SignalFirst, Goto, TypeOK, Stages
    <3>3. CASE ~(req[t].objs[1] \in open /\ CanSignal(t, req[t].signal, 1))
      BY <2>5, <3>3, ReturnType DEF SignalFirst, TypeOK
    <3> QED BY <3>2, <3>3
  <2>6. CASE GoOn(t)
    BY <2>6 DEF GoOn, Goto, TypeOK, Stages
  <2>7. CASE TakeAsync(t)
    <3>1. async' \in [Threads -> {"none", "ready", "stale"}]
      BY <2>7 DEF TakeAsync, TypeOK
    <3> QED BY <2>7, <3>1, ReturnType DEF TakeAsync, TypeOK
  <2>8. CASE TakeApc(t)
    <3>1. apc' \in [Threads -> 0..MaxApc]
      BY <2>8, BoundsAssumption DEF TakeApc, TypeOK
    <3> QED BY <2>8, <3>1, ReturnType DEF TakeApc, TypeOK
  <2>9. CASE NoApc(t)
    BY <2>9 DEF NoApc, Goto, TypeOK, Stages
  <2>10. ASSUME NEW o \in Timers, FireTimer(t, o)
         PROVE  TypeOK'
    <3>1. walk' \in Seq(Threads) /\ notified' \in [Threads -> BOOLEAN]
      BY <2>10, NotifyType DEF FireTimer, StartWalk, TypeOK, Objects, Signals
    <3>2. timer' \in [Timers -> {"idle", "set", "due"}]
      BY <2>10 DEF FireTimer, TypeOK
    <3>3. signaled' \in [Signals -> BOOLEAN]
      BY <2>10, Zenon DEF FireTimer, TypeOK
    <3>4. credit' \in [Counted -> Int]
      BY <2>10 DEF FireTimer, TypeOK
    <3> QED BY <2>10, <3>1, <3>2, <3>3, <3>4 DEF FireTimer, TypeOK
  <2>11. CASE TimersDone(t)
    BY <2>11 DEF TimersDone, Goto, TypeOK, Stages
  <2>12. CASE Satisfied(t)
    <3>1. CASE done[t]
      BY <2>12, <3>1, ReturnType DEF Satisfied, TypeOK
    <3>2. CASE ~done[t]
      <4>1. \A o \in Takes(t) : IsSignaled(o, t)
        BY TakesReady DEF Ready
      <4> QED BY <2>12, <3>2, <4>1, ConsumeType, ReturnType DEF Satisfied, TypeOK
    <3> QED BY <3>1, <3>2
  <2>13. CASE TimedOut(t)
    BY <2>13, ReturnType DEF TimedOut, TypeOK
  <2>14. CASE GoToSleep(t)
    <3>1. waiters' \in [Objects -> Seq(Threads)]
      <4>1. CASE Queue(t)
        BY <4>1 DEF Queue, TypeOK
      <4>2. CASE UNCHANGED waiters
        BY <4>2 DEF TypeOK
      <4> QED BY <2>14, <4>1, <4>2 DEF GoToSleep
    <3>2. mode' \in [Threads -> {"new", "legacy", "queued"}]
      BY <2>14 DEF GoToSleep, TypeOK
    <3>3. /\ lock' \in Threads \cup {None} /\ pc' \in [Threads -> Stages]
          /\ notified' \in [Threads -> BOOLEAN]
      BY <2>14 DEF GoToSleep, Goto, TypeOK, Stages
    <3> QED BY <2>14, <3>1, <3>2, <3>3 DEF GoToSleep, TypeOK
  <2>15. ASSUME NEW m \in Mutexes, AbandonMutex(t, m)
         PROVE  TypeOK'
    <3>1. walk' \in Seq(Threads) /\ notified' \in [Threads -> BOOLEAN]
      BY <2>15, NotifyType DEF AbandonMutex, StartWalk, TypeOK, Objects
    <3>2. mutex' \in [Mutexes -> MutexType] /\ held' \in [Threads -> [Mutexes -> Int]]
      BY <2>15 DEF AbandonMutex, Abandoned, MutexType, TypeOK
    <3> QED BY <2>15, <3>1, <3>2 DEF AbandonMutex, TypeOK
  <2>16. CASE WakeJoiners(t)
    <3>1. walk' \in Seq(Threads) /\ notified' \in [Threads -> BOOLEAN]
      BY <2>16, NotifyType DEF WakeJoiners, StartWalk, TypeOK, Objects
    <3> QED BY <2>16, <3>1 DEF WakeJoiners, Goto, TypeOK, Stages
  <2>17. CASE EndThread(t)
    BY <2>17, NotifyType DEF EndThread, SignalChanged, Goto, TypeOK, Stages
  <2> QED BY <1>3, <2>1, <2>2, <2>3, <2>4, <2>5, <2>6, <2>7, <2>8, <2>9, <2>10, <2>11,
             <2>12, <2>13, <2>14, <2>15, <2>16, <2>17 DEF Serve
<1>4. ASSUME NEW t \in Threads, Reenter(t)
      PROVE  TypeOK'
  <2>1. CASE Wake(t)
    BY <2>1 DEF Wake, Goto, TypeOK, Stages
  <2>2. CASE Unpark(t)
    <3>1. CASE req[t].context
      BY <2>2, <3>1, ReturnType DEF Unpark, TypeOK
    <3>2. CASE ~req[t].context
      BY <2>2, <3>2 DEF Unpark, Goto, TypeOK, Stages
    <3> QED BY <3>1, <3>2
  <2>3. CASE InitThread(t)
    BY <2>3 DEF InitThread, Goto, TypeOK, Stages
  <2> QED BY <1>4, <2>1, <2>2, <2>3 DEF Reenter
<1>5. CASE Environment
  <2>1. ASSUME NEW o \in Timers, Tick(o)
        PROVE  TypeOK'
    BY <2>1 DEF Tick, TypeOK
  <2>2. ASSUME NEW u \in AsyncOwners, NEW s \in {"ready", "stale"}, PollAsync(u, s)
        PROVE  TypeOK'
    BY <2>2, NotifyType DEF PollAsync, TypeOK
  <2> QED BY <1>5, <2>1, <2>2 DEF Environment
<1>6. CASE UNCHANGED vars
  BY <1>6 DEF TypeOK, vars
<1> QED BY <1>1, <1>2, <1>3, <1>4, <1>5, <1>6 DEF Next

\* The server's structures keep their types in every behaviour (TypeOK).
THEOREM TypeCorrect == Spec => []TypeOK
<1>1. Init => TypeOK
  BY BoundsAssumption DEF Init, TypeOK, Stages, MutexType, NoRequest
<1> QED BY <1>1, TypeStep, PTL DEF Spec

-----------------------------------------------------------------------------
(* The mutex, the stages of select and the links                             *)

\* The links only depend on the requests and on who is queued.
LEMMA LinkSame ==
    ASSUME LinkInv, UNCHANGED <<mode, waiters, req>>
    PROVE  LinkInv'
BY DEF LinkInv, Elements

\* A new request of a thread that is not queued disturbs no link.
LEMMA LinkSelect ==
    ASSUME TypeOK, LinkInv, UNCHANGED <<mode, waiters>>, NEW t \in Threads, mode[t] # "queued",
           \A u \in Threads : u # t => req'[u] = req[u]
    PROVE  LinkInv'
<1> SUFFICES ASSUME NEW o \in Objects
             PROVE  /\ \A u \in Threads : mode[u] = "queued" /\ o \in Elements(req'[u].objs)
                                            => u \in Elements(waiters[o])
                    /\ \A u \in Elements(waiters[o]) : mode[u] = "queued"
                    /\ \A i, j \in DOMAIN waiters[o] : waiters[o][i] = waiters[o][j] => i = j
  BY DEF LinkInv, Elements
<1> QED BY DEF LinkInv

\* Unlinking one thread keeps the links of the others.
LEMMA LinkUnqueue ==
    ASSUME TypeOK, LinkInv, NEW t \in Threads, Unqueue(t),
           mode' = [mode EXCEPT ![t] = "new"],
           \A u \in Threads : u # t => req'[u] = req[u]
    PROVE  LinkInv'
<1> SUFFICES ASSUME NEW o \in Objects
             PROVE  /\ \A u \in Threads : mode'[u] = "queued" /\ o \in Elements(req'[u].objs)
                                            => u \in Elements(waiters'[o])
                    /\ \A u \in Elements(waiters'[o]) : mode'[u] = "queued"
                    /\ \A i, j \in DOMAIN waiters'[o] : waiters'[o][i] = waiters'[o][j] => i = j
  BY DEF LinkInv, Elements
<1>1. waiters'[o] = Without(waiters[o], t) /\ waiters[o] \in Seq(Threads)
  BY DEF Unqueue, TypeOK
<1>2. \A u \in Elements(waiters[o]) : u \in Threads /\ mode[u] = "queued"
  BY <1>1 DEF LinkInv, Elements
<1>3. \A i, j \in DOMAIN waiters[o] : waiters[o][i] = waiters[o][j] => i = j
  BY DEF LinkInv
<1>4. /\ Elements(waiters'[o]) \subseteq Elements(waiters[o]) \ {t}
      /\ \A i, j \in DOMAIN waiters'[o] : waiters'[o][i] = waiters'[o][j] => i = j
  BY <1>1, <1>3, WithoutRemoves
<1>5. \A u \in Elements(waiters'[o]) : mode'[u] = "queued"
  BY <1>2, <1>4 DEF TypeOK
<1>6. ASSUME NEW u \in Threads, mode'[u] = "queued", o \in Elements(req'[u].objs)
      PROVE  u \in Elements(waiters'[o])
  <2>1. u # t /\ mode[u] = "queued" /\ o \in Elements(req[u].objs)
    BY <1>6 DEF TypeOK
  <2>2. u \in Elements(waiters[o])
    BY <2>1 DEF LinkInv
  <2> QED BY <1>1, <2>1, <2>2, WithoutKeeps
<1> QED BY <1>4, <1>5, <1>6

\* Linking a thread that was not queued to the objects of its request.
LEMMA LinkQueue ==
    ASSUME TypeOK, LinkInv, NEW t \in Threads, mode[t] # "queued", Queue(t),
           mode' = [mode EXCEPT ![t] = "queued"], req' = req
    PROVE  LinkInv'
<1> SUFFICES ASSUME NEW o \in Objects
             PROVE  /\ \A u \in Threads : mode'[u] = "queued" /\ o \in Elements(req[u].objs)
                                            => u \in Elements(waiters'[o])
                    /\ \A u \in Elements(waiters'[o]) : mode'[u] = "queued"
                    /\ \A i, j \in DOMAIN waiters'[o] : waiters'[o][i] = waiters'[o][j] => i = j
  BY DEF LinkInv, Elements
<1>1. waiters[o] \in Seq(Threads)
  BY DEF TypeOK
<1>2. \A u \in Elements(waiters[o]) : u \in Threads /\ mode[u] = "queued" /\ u # t
  BY <1>1 DEF LinkInv, Elements
<1>3. \A i, j \in DOMAIN waiters[o] : waiters[o][i] = waiters[o][j] => i = j
  BY DEF LinkInv
<1>4. CASE o \in Elements(req[t].objs)
  <2>1. waiters'[o] = Append(waiters[o], t)
    BY <1>4 DEF Queue
  <2>2. Elements(waiters'[o]) = Elements(waiters[o]) \cup {t}
    BY <1>1, <2>1, AppendElements
  <2>3. \A i, j \in DOMAIN waiters'[o] : waiters'[o][i] = waiters'[o][j] => i = j
    <3>1. DOMAIN waiters[o] = 1..Len(waiters[o]) /\ Len(waiters[o]) \in Nat
      BY <1>1
    <3>2. /\ DOMAIN waiters'[o] = 1..(Len(waiters[o]) + 1)
          /\ waiters'[o][Len(waiters[o]) + 1] = t
          /\ \A i \in 1..Len(waiters[o]) : waiters'[o][i] = waiters[o][i]
      BY <1>1, <2>1
    <3>3. \A i \in 1..Len(waiters[o]) : waiters[o][i] # t
      BY <1>2, <3>1 DEF Elements
    <3> QED BY <1>3, <3>1, <3>2, <3>3
  <2> QED BY <1>2, <2>2, <2>3 DEF LinkInv, TypeOK
<1>5. CASE o \notin Elements(req[t].objs)
  <2>1. waiters'[o] = waiters[o]
    BY <1>5 DEF Queue
  <2> QED BY <1>2, <1>3, <1>5, <2>1 DEF LinkInv, TypeOK
<1> QED BY <1>4, <1>5

\* Every step keeps the links right.
LEMMA LinkStep == TypeOK /\ LoopInv /\ LinkInv /\ [Next]_vars => LinkInv'
<1> SUFFICES ASSUME TypeOK, LoopInv, LinkInv, [Next]_vars
             PROVE  LinkInv'
  OBVIOUS
<1> USE DEF waitVars
<1>1. CASE Visit
  BY <1>1, LinkSame DEF Visit
<1>2. ASSUME NEW t \in Threads, Request(t)
      PROVE  LinkInv'
  <2>1. ASSUME NEW r \in Requests, Select(t, r)
        PROVE  LinkInv'
    <3>1. mode[t] # "queued" /\ \A u \in Threads : u # t => req'[u] = req[u]
      BY <2>1 DEF Select, Enter, LoopInv, TypeOK
    <3> QED BY <2>1, <3>1, LinkSelect DEF Select
  <2>2. CASE UNCHANGED waitVars
    BY <2>2, LinkSame
  <2> QED BY <1>2, <2>1, <2>2 DEF Request, SetEvent, ResetEvent, PulseEvent, ReleaseMutex,
             ReleaseSemaphore, CancelTimer, SetTimer, GetTimerInfo, CloseHandle,
             SuspendThread, ResumeThread, QueueApc, ExitThread
<1>3. ASSUME NEW t \in Threads, NEW S, Return(t, S)
      PROVE  LinkInv'
  <2>1. \A u \in Threads : u # t => req'[u] = req[u]
    BY <1>3 DEF Return, TypeOK
  <2>2. Unqueue(t) /\ mode' = [mode EXCEPT ![t] = "new"]
    BY <1>3 DEF Return
  <2> QED BY <2>1, <2>2, LinkUnqueue
<1>4. ASSUME NEW t \in Threads, Serve(t)
      PROVE  LinkInv'
  <2>1. CASE Park(t)
    <3>1. CASE mode[t] = "queued"
      <4>1. Unqueue(t) /\ mode' = [mode EXCEPT ![t] = "new"] /\ req' = req
        BY <2>1, <3>1 DEF Park, Unqueue
      <4> QED BY <4>1, LinkUnqueue
    <3>2. CASE mode[t] # "queued"
      BY <2>1, <3>2, LinkSame DEF Park
    <3> QED BY <3>1, <3>2
  <2>2. CASE SignalFirst(t)
    BY <1>3, <2>2, LinkSame DEF SignalFirst
  <2>3. CASE GoToSleep(t)
    <3>1. CASE mode[t] = "new" /\ CanQueue(t)
      <4>1. Queue(t) /\ mode' = [mode EXCEPT ![t] = "queued"] /\ req' = req
        BY <2>3, <3>1 DEF GoToSleep, Queue, TypeOK
      <4> QED BY <3>1, <4>1, LinkQueue
    <3>2. CASE mode[t] = "new" /\ ~CanQueue(t)
      <4>1. mode' = [mode EXCEPT ![t] = "legacy"] /\ UNCHANGED <<waiters, req>>
        BY <2>3, <3>2 DEF GoToSleep, TypeOK
      <4>2. \A u \in Threads : mode'[u] = "queued" <=> mode[u] = "queued"
        BY <3>2, <4>1 DEF TypeOK
      <4>3. \A o \in Objects : \A u \in Elements(waiters[o]) : u \in Threads
        BY DEF TypeOK, Elements
      <4> QED BY <4>1, <4>2, <4>3 DEF LinkInv, Elements
    <3>3. CASE mode[t] # "new"
      <4>1. mode' = mode /\ UNCHANGED <<waiters, req>>
        BY <2>3, <3>3 DEF GoToSleep, TypeOK
      <4> QED BY <4>1, LinkSame
    <3> QED BY <3>1, <3>2, <3>3
  <2>4. CASE EndCall(t) \/ EndPulse(t) \/ GoOn(t) \/ NoApc(t) \/ TimersDone(t)
             \/ WakeJoiners(t) \/ EndThread(t)
    BY <2>4, LinkSame DEF EndCall, EndPulse, GoOn, NoApc, TimersDone, WakeJoiners, EndThread
  <2>5. CASE (\E o \in Timers : FireTimer(t, o)) \/ (\E m \in Mutexes : AbandonMutex(t, m))
    BY <2>5, LinkSame DEF FireTimer, AbandonMutex
  <2>6. CASE Collect(t) \/ TakeAsync(t) \/ TakeApc(t) \/ Satisfied(t) \/ TimedOut(t)
    BY <1>3, <2>6 DEF Collect, TakeAsync, TakeApc, Satisfied, TimedOut
  <2> QED BY <1>4, <2>1, <2>2, <2>3, <2>4, <2>5, <2>6 DEF Serve
<1>5. ASSUME NEW t \in Threads, Reenter(t)
      PROVE  LinkInv'
  <2>1. CASE Unpark(t)
    BY <1>3, <2>1, LinkSame DEF Unpark
  <2>2. CASE Wake(t) \/ InitThread(t)
    BY <2>2, LinkSame DEF Wake, InitThread
  <2> QED BY <1>5, <2>1, <2>2 DEF Reenter
<1>6. CASE Environment
  BY <1>6, LinkSame DEF Environment, Tick, PollAsync
<1>7. CASE UNCHANGED vars
  BY <1>7, LinkSame DEF vars
<1> QED BY <1>1, <1>2, <1>4, <1>5, <1>6, <1>7 DEF Next

\* A thread moves to a stage, taking, keeping or dropping the mutex accordingly.
LEMMA LockMoves ==
    ASSUME TypeOK, LockInv, NEW t \in Threads, NEW stage \in Stages, lock \in {None, t},
           pc' = [pc EXCEPT ![t] = stage],
           lock' = IF stage \in Inside THEN t ELSE None
    PROVE  \A u \in Threads : pc'[u] \in Inside <=> lock' = u
<1>1. \A u \in Threads : u # None
  BY ObjectsAssumption DEF Objects
<1>2. \A u \in Threads : u # t => pc'[u] = pc[u] /\ pc[u] \notin Inside
  BY <1>1 DEF LockInv, TypeOK
<1>3. pc'[t] = stage
  BY DEF TypeOK
<1> QED BY <1>1, <1>2, <1>3

\* A list of waiters that a walk starts on holds queued threads.
LEMMA WalkQueued ==
    ASSUME LinkInv, NEW o \in Objects, StartWalk(o), mode' = mode
    PROVE  \A u \in Elements(walk') : mode'[u] = "queued"
BY DEF StartWalk, LinkInv

\* The signal of a short request or of signal-and-wait: a walk of queued threads,
\* or none.
LEMMA SignalWalk ==
    ASSUME TypeOK, LinkInv, NEW t, NEW o, NEW n, CanSignal(t, o, n), DoSignal(t, o, n),
           mode' = mode, walk = <<>>
    PROVE  \A u \in Elements(walk') : mode'[u] = "queued"
<1>1. o \in Objects
  BY DEF CanSignal, TypeOK
<1>2. CASE Wakes(o)
  BY <1>1, <1>2, WalkQueued DEF DoSignal
<1>3. CASE ~Wakes(o)
  BY <1>3 DEF DoSignal, Elements
<1> QED BY <1>2, <1>3

\* Every step keeps the mutex, the stages and the walk in step.
LEMMA LockStep == TypeOK /\ LockInv /\ LoopInv /\ LinkInv /\ [Next]_vars => LockInv'
<1> SUFFICES ASSUME TypeOK, LockInv, LoopInv, LinkInv, [Next]_vars
             PROVE  LockInv'
  OBVIOUS
<1> USE DEF waitVars
<1>0. Elements(<<>>) = {} /\ \A u \in Threads : u # None
  BY ObjectsAssumption DEF Objects, Elements
<1>1. CASE Visit
  <2>1. walk # <<>> /\ walk' = Tail(walk) /\ UNCHANGED <<lock, pc, mode, target>>
    BY <1>1 DEF Visit
  <2>2. Elements(walk') \subseteq Elements(walk)
    BY <2>1, HeadTail DEF TypeOK
  <2>3. lock # None
    BY <2>1 DEF LockInv
  <2>4. \A u \in Elements(walk') : mode'[u] = "queued"
    BY <2>1, <2>2 DEF LockInv
  <2> QED BY <2>1, <2>3, <2>4 DEF LockInv
\* a step of a short request or of select that moves one thread
<1>2. ASSUME NEW t \in Threads, NEW stage \in Stages, lock \in {None, t}, walk = <<>>,
             pc' = [pc EXCEPT ![t] = stage],
             lock' = IF stage \in Inside THEN t ELSE None,
             walk' = <<>>, stage = "pulse" => target' \in Events,
             target' = target \/ pc[t] = "pulse" \/ stage = "pulse"
      PROVE  LockInv'
  <2>1. \A u \in Threads : pc'[u] \in Inside <=> lock' = u
    BY <1>2, LockMoves
  <2>2. ASSUME NEW u \in Threads, pc'[u] = "pulse"
        PROVE  target' \in Events
    <3>1. u = t
      BY <1>0, <1>2, <2>1, <2>2 DEF Inside
    <3> QED BY <1>2, <2>2, <3>1 DEF TypeOK
  <2> QED BY <1>0, <1>2, <2>1, <2>2 DEF LockInv
\* a step that starts a walk with the mutex held
<1>3. ASSUME NEW t \in Threads, NEW stage \in Inside, lock \in {None, t},
             pc' = [pc EXCEPT ![t] = stage], lock' = t,
             \A u \in Elements(walk') : mode'[u] = "queued",
             stage = "pulse" => target' \in Events
      PROVE  LockInv'
  <2>1. stage \in Stages
    BY DEF Inside, Stages
  <2>2. \A u \in Threads : pc'[u] \in Inside <=> lock' = u
    BY <1>3, <2>1, LockMoves
  <2>3. ASSUME NEW u \in Threads, pc'[u] = "pulse"
        PROVE  target' \in Events
    <3>1. u = t
      BY <1>0, <1>3, <2>2, <2>3 DEF Inside
    <3> QED BY <1>3, <2>3, <3>1 DEF TypeOK
  <2> QED BY <1>0, <1>3, <2>2, <2>3 DEF LockInv
\* a step of a thread that holds the mutex only for this step
<1>4. ASSUME UNCHANGED <<lock, pc, walk, mode, target>>
      PROVE  LockInv'
  BY <1>4 DEF LockInv
<1>5. ASSUME NEW t \in Threads, NEW S, Return(t, S), lock \in {None, t}, walk = <<>>,
             UNCHANGED <<walk, target>>
      PROVE  LockInv'
  <2>1. pc' = [pc EXCEPT ![t] = "idle"] /\ lock' = None /\ "idle" \in Stages /\ "idle" \notin Inside
    BY <1>5 DEF Return, Leave, Stages, Inside
  <2> QED BY <1>2, <1>5, <2>1
<1>6. ASSUME NEW t \in Threads, Request(t)
      PROVE  LockInv'
  <2>1. walk = <<>> \/ lock # None
    BY DEF LockInv
  <2>2. ASSUME NEW r \in Requests, Select(t, r)
        PROVE  LockInv'
    BY <1>2, <2>1, <2>2 DEF Select, Enter, Stages, Inside
  <2>3. ASSUME NEW o, NEW n, Enter(t, "call"), CanSignal(t, o, n), DoSignal(t, o, n),
               UNCHANGED <<target, waitVars>>
        PROVE  LockInv'
    <3>1. \A u \in Elements(walk') : mode'[u] = "queued"
      BY <2>1, <2>3, SignalWalk DEF Enter
    <3> QED BY <1>3, <2>3, <3>1 DEF Enter, Inside
  <2>4. CASE \E e \in Events : SetEvent(t, e)
    BY <2>3, <2>4 DEF SetEvent
  <2>5. CASE \E e \in Events : ResetEvent(t, e)
    BY <1>4, <2>5 DEF ResetEvent
  <2>6. ASSUME NEW e \in Events, PulseEvent(t, e)
        PROVE  LockInv'
    <3>1. \A u \in Elements(walk') : mode'[u] = "queued"
      BY <2>6, WalkQueued DEF PulseEvent, Objects, Signals
    <3> QED BY <1>3, <2>6, <3>1 DEF PulseEvent, Enter, Inside
  <2>7. CASE \E m \in Mutexes : ReleaseMutex(t, m)
    BY <2>3, <2>7 DEF ReleaseMutex
  <2>8. CASE \E s \in Semaphores, n \in 1..SemMax : ReleaseSemaphore(t, s, n)
    BY <2>3, <2>8 DEF ReleaseSemaphore
  <2>9. CASE \E o \in Timers : CancelTimer(t, o) \/ \E p \in BOOLEAN : SetTimer(t, o, p)
    BY <1>4, <2>9 DEF CancelTimer, SetTimer
  <2>10. CASE GetTimerInfo(t)
    BY <1>2, <2>1, <2>10 DEF GetTimerInfo, Enter, Stages, Inside
  <2>11. CASE \E o \in Closable : CloseHandle(t, o)
    BY <1>4, <2>11 DEF CloseHandle
  <2>12. CASE \E u \in Threads : SuspendThread(t, u) \/ ResumeThread(t, u) \/ QueueApc(t, u)
    BY <1>4, <2>12 DEF SuspendThread, ResumeThread, QueueApc
  <2>13. CASE ExitThread(t)
    BY <1>2, <2>1, <2>13 DEF ExitThread, Enter, Stages, Inside
  <2> QED BY <1>6, <2>2, <2>4, <2>5, <2>6, <2>7, <2>8, <2>9, <2>10, <2>11, <2>12, <2>13
          DEF Request
<1>7. ASSUME NEW t \in Threads, Serve(t)
      PROVE  LockInv'
  <2>1. CASE EndCall(t)
    BY <1>2, <2>1 DEF EndCall, Leave, Stages, Inside
  <2>2. CASE EndPulse(t)
    BY <1>2, <2>2 DEF EndPulse, Leave, Stages, Inside
  <2>3. CASE Park(t)
    BY <1>2, <2>3 DEF Park, Stage, Goto, Stages, Inside
  <2>4. CASE Collect(t) \/ TakeAsync(t) \/ TakeApc(t) \/ Satisfied(t) \/ TimedOut(t)
    BY <1>5, <2>4 DEF Collect, TakeAsync, TakeApc, Satisfied, TimedOut, Stage
  <2>5. CASE SignalFirst(t)
    <3>1. CASE req[t].objs[1] \in open /\ CanSignal(t, req[t].signal, 1)
      <4>1. /\ DoSignal(t, req[t].signal, 1) /\ mode' = mode /\ walk = <<>>
            /\ lock = t /\ lock' = t /\ pc' = [pc EXCEPT ![t] = "apc"]
        BY <2>5, <3>1 DEF SignalFirst, Stage, Goto
      <4>2. \A u \in Elements(walk') : mode'[u] = "queued"
        BY <3>1, <4>1, SignalWalk
      <4> QED BY <1>3, <4>1, <4>2 DEF Inside
    <3>2. CASE ~(req[t].objs[1] \in open /\ CanSignal(t, req[t].signal, 1))
      BY <1>5, <2>5, <3>2 DEF SignalFirst, Stage
    <3> QED BY <3>1, <3>2
  <2>6. CASE GoOn(t) \/ NoApc(t) \/ TimersDone(t)
    BY <1>2, <2>6 DEF GoOn, NoApc, TimersDone, Stage, Goto, Stages, Inside
  <2>7. ASSUME NEW o \in Timers, FireTimer(t, o)
        PROVE  LockInv'
    <3>1. \A u \in Elements(walk') : mode'[u] = "queued"
      BY <2>7, WalkQueued DEF FireTimer, Objects, Signals
    <3>2. lock = t /\ UNCHANGED <<lock, pc, target>>
      BY <2>7 DEF FireTimer, Stage
    <3> QED BY <1>0, <3>1, <3>2 DEF LockInv
  <2>8. CASE GoToSleep(t)
    <3>1. CASE lock' = None /\ Goto(t, "asleep")
      BY <1>2, <2>8, <3>1 DEF GoToSleep, Stage, Goto, Stages, Inside
    <3>2. CASE Goto(t, "top") /\ UNCHANGED lock
      BY <1>2, <2>8, <3>2 DEF GoToSleep, Stage, Goto, Stages, Inside
    <3> QED BY <2>8, <3>1, <3>2 DEF GoToSleep
  <2>9. ASSUME NEW m \in Mutexes, AbandonMutex(t, m)
        PROVE  LockInv'
    <3>1. \A u \in Elements(walk') : mode'[u] = "queued"
      BY <2>9, WalkQueued DEF AbandonMutex, Objects
    <3>2. lock = t /\ UNCHANGED <<lock, pc, target>>
      BY <2>9 DEF AbandonMutex, Stage
    <3> QED BY <1>0, <3>1, <3>2 DEF LockInv
  <2>10. CASE WakeJoiners(t)
    <3>1. \A u \in Elements(walk') : mode'[u] = "queued"
      BY <2>10, WalkQueued DEF WakeJoiners, Objects
    <3> QED BY <1>3, <2>10, <3>1 DEF WakeJoiners, Stage, Goto, Inside
  <2>11. CASE EndThread(t)
    BY <1>2, <2>11 DEF EndThread, Stage, Goto, Stages, Inside
  <2> QED BY <1>7, <2>1, <2>2, <2>3, <2>4, <2>5, <2>6, <2>7, <2>8, <2>9, <2>10, <2>11
          DEF Serve
<1>8. ASSUME NEW t \in Threads, Reenter(t)
      PROVE  LockInv'
  <2>1. lock = None /\ walk = <<>> /\ walk' = <<>> /\ UNCHANGED target
    BY <1>8 DEF Reenter, Wake, Unpark, InitThread, LockInv
  <2>2. CASE Unpark(t)
    <3>1. CASE req[t].context
      BY <1>5, <2>1, <2>2, <3>1 DEF Unpark
    <3>2. CASE ~req[t].context
      BY <1>2, <2>1, <2>2, <3>2 DEF Unpark, Goto, Stages, Inside
    <3> QED BY <3>1, <3>2
  <2>3. CASE Wake(t)
    BY <1>2, <2>1, <2>3 DEF Wake, Goto, Stages, Inside
  <2>4. CASE InitThread(t)
    BY <1>2, <2>1, <2>4 DEF InitThread, Goto, Stages, Inside
  <2> QED BY <1>8, <2>2, <2>3, <2>4 DEF Reenter
<1>9. CASE Environment
  BY <1>4, <1>9 DEF Environment, Tick, PollAsync
<1>10. CASE UNCHANGED vars
  BY <1>4, <1>10 DEF vars
<1> QED BY <1>1, <1>6, <1>7, <1>8, <1>9, <1>10 DEF Next

\* What LoopInv says of one thread.
LoopAt(t) ==
    /\ pc[t] \in {"apc", "timers", "test"} => suspend[t] = 0
    /\ pc[t] \in {"timers", "test"} => ~MustLook(t)
    /\ pc[t] = "asleep" => mode[t] # "new"
    /\ mode[t] = "queued" => pc[t] \in {"top", "apc", "timers", "test", "asleep"}

\* A step of one thread, with the mutex free or its own, only matters to it.
LEMMA LoopOthers ==
    ASSUME TypeOK, LockInv, LoopInv, NEW t \in Threads, lock \in {None, t},
           \A u \in Threads : u # t => pc'[u] = pc[u] /\ mode'[u] = mode[u],
           LoopAt(t)'
    PROVE  LoopInv'
<1>1. \A u \in Threads : u # None
  BY ObjectsAssumption DEF Objects
<1>2. ASSUME NEW u \in Threads, u # t
      PROVE  LoopAt(u)'
  <2>1. pc'[u] = pc[u] /\ mode'[u] = mode[u] /\ pc[u] \notin Inside
    BY <1>1, <1>2 DEF LockInv
  <2> QED BY <1>2, <2>1 DEF LoopAt, LoopInv, Inside
<1>3. LoopInv' = \A u \in Threads : LoopAt(u)'
  BY DEF LoopInv, LoopAt
<1> QED BY <1>2, <1>3

\* Every step keeps what the stages of select rely on.
LEMMA LoopStep == TypeOK /\ LockInv /\ LoopInv /\ [Next]_vars => LoopInv'
<1> SUFFICES ASSUME TypeOK, LockInv, LoopInv, [Next]_vars
             PROVE  LoopInv'
  OBVIOUS
<1> USE DEF waitVars, threadVars
<1>1. ASSUME UNCHANGED <<pc, mode, suspend, apc, async, req>>
      PROVE  LoopInv'
  BY <1>1 DEF LoopInv, MustLook, ReadyFor
\* a step that leaves its thread outside the stages of select
<1>2. ASSUME NEW t \in Threads, lock \in {None, t}, UNCHANGED mode,
             NEW stage \in Stages \ {"apc", "timers", "test", "asleep"},
             pc' = [pc EXCEPT ![t] = stage], mode[t] = "queued" => stage = "top"
      PROVE  LoopInv'
  <2>1. LoopAt(t)'
    BY <1>2 DEF LoopAt, TypeOK
  <2> QED BY <1>2, <2>1, LoopOthers DEF TypeOK
<1>3. ASSUME NEW t \in Threads, lock \in {None, t}, NEW S, Return(t, S)
      PROVE  LoopInv'
  <2>1. LoopAt(t)'
    BY <1>3 DEF Return, Leave, LoopAt, TypeOK
  <2> QED BY <1>3, <2>1, LoopOthers DEF Return, Leave, TypeOK
\* a step with the mutex free that moves nobody
<1>4. ASSUME lock = None, UNCHANGED <<pc, mode>>
      PROVE  LoopInv'
  <2>1. \A u \in Threads : pc[u] \notin Inside
    BY <1>4, ObjectsAssumption DEF LockInv, Objects
  <2> QED BY <1>4, <2>1 DEF LoopInv, Inside
<1>5. CASE Visit
  BY <1>1, <1>5 DEF Visit
<1>6. ASSUME NEW t \in Threads, Request(t)
      PROVE  LoopInv'
  <2>1. \A st \in Stages : Enter(t, st) => /\ lock = None /\ mode[t] # "queued"
                                            /\ pc' = [pc EXCEPT ![t] = st]
    BY DEF Enter, LoopInv
  <2>2. CASE \E r \in Requests : Select(t, r)
    BY <1>2, <2>1, <2>2 DEF Select, Stages
  <2>3. CASE \E e \in Events : SetEvent(t, e) \/ PulseEvent(t, e)
    BY <1>2, <2>1, <2>3 DEF SetEvent, PulseEvent, Stages
  <2>4. CASE \E m \in Mutexes : ReleaseMutex(t, m)
    BY <1>2, <2>1, <2>4 DEF ReleaseMutex, Stages
  <2>5. CASE \E s \in Semaphores, n \in 1..SemMax : ReleaseSemaphore(t, s, n)
    BY <1>2, <2>1, <2>5 DEF ReleaseSemaphore, Stages
  <2>6. CASE GetTimerInfo(t) \/ ExitThread(t)
    BY <1>2, <2>1, <2>6 DEF GetTimerInfo, ExitThread, Stages
  <2>7. CASE \E e \in Events : ResetEvent(t, e)
    BY <1>4, <2>7 DEF ResetEvent, Brief
  <2>8. CASE \E o \in Timers : CancelTimer(t, o) \/ \E p \in BOOLEAN : SetTimer(t, o, p)
    BY <1>4, <2>8 DEF CancelTimer, SetTimer, Brief
  <2>9. CASE \E o \in Closable : CloseHandle(t, o)
    BY <1>4, <2>9 DEF CloseHandle, Brief
  <2>10. CASE \E u \in Threads : SuspendThread(t, u) \/ ResumeThread(t, u) \/ QueueApc(t, u)
    BY <1>4, <2>10 DEF SuspendThread, ResumeThread, QueueApc, Brief
  <2> QED BY <1>6, <2>2, <2>3, <2>4, <2>5, <2>6, <2>7, <2>8, <2>9, <2>10 DEF Request
<1>7. ASSUME NEW t \in Threads, Serve(t)
      PROVE  LoopInv'
  <2>1. CASE EndCall(t)
    <3>1. lock = t /\ pc[t] \in {"call", "info"} /\ UNCHANGED mode /\ Leave(t)
      BY <2>1 DEF EndCall
    <3> QED BY <1>2, <3>1 DEF Leave, LoopInv, Stages
  <2>2. CASE EndPulse(t)
    BY <1>2, <2>2 DEF EndPulse, Leave, LoopInv, Stages
  <2>3. CASE Park(t)
    <3>1. lock = t /\ pc' = [pc EXCEPT ![t] = "parked"]
      BY <2>3 DEF Park, Stage, Goto
    <3>2. mode'[t] # "queued" /\ \A u \in Threads : u # t => mode'[u] = mode[u]
      BY <2>3 DEF Park, TypeOK
    <3>3. LoopAt(t)'
      BY <3>1, <3>2 DEF LoopAt, TypeOK
    <3> QED BY <3>1, <3>2, <3>3, LoopOthers DEF TypeOK
  <2>4. CASE Collect(t) \/ TakeAsync(t) \/ TakeApc(t) \/ Satisfied(t) \/ TimedOut(t)
    BY <1>3, <2>4 DEF Collect, TakeAsync, TakeApc, Satisfied, TimedOut, Stage
  <2>5. ASSUME lock = t, suspend[t] = 0, pc' = [pc EXCEPT ![t] = "apc"],
               UNCHANGED <<mode, threadVars>>
        PROVE  LoopInv'
    <3>1. LoopAt(t)'
      BY <2>5 DEF LoopAt, TypeOK
    <3> QED BY <2>5, <3>1, LoopOthers DEF TypeOK
  <2>6. CASE SignalFirst(t)
    BY <1>3, <2>5, <2>6 DEF SignalFirst, Stage, Goto
  <2>7. CASE GoOn(t)
    BY <2>5, <2>7 DEF GoOn, Stage, Goto
  <2>8. ASSUME NEW stage \in {"timers", "test"}, lock = t, suspend[t] = 0, ~MustLook(t),
               pc' = [pc EXCEPT ![t] = stage], UNCHANGED <<waitVars, threadVars>>
        PROVE  LoopInv'
    <3>1. LoopAt(t)'
      BY <2>8 DEF LoopAt, TypeOK, MustLook, ReadyFor
    <3> QED BY <2>8, <3>1, LoopOthers DEF TypeOK
  <2>9. CASE NoApc(t)
    <3>1. suspend[t] = 0 /\ ~MustLook(t)
      BY <2>9 DEF NoApc, Stage, LoopInv, MustLook
    <3> QED BY <2>8, <2>9, <3>1 DEF NoApc, Stage, Goto
  <2>10. CASE TimersDone(t)
    <3>1. suspend[t] = 0 /\ ~MustLook(t)
      BY <2>10 DEF TimersDone, Stage, LoopInv
    <3> QED BY <2>8, <2>10, <3>1 DEF TimersDone, Stage, Goto
  <2>11. CASE (\E o \in Timers : FireTimer(t, o)) \/ (\E m \in Mutexes : AbandonMutex(t, m))
    BY <1>1, <2>11 DEF FireTimer, AbandonMutex
  <2>12. CASE GoToSleep(t)
    <3>1. lock = t /\ mode'[t] # "new" /\ \A u \in Threads : u # t => mode'[u] = mode[u]
      BY <2>12 DEF GoToSleep, Stage, TypeOK
    <3>2. pc' = [pc EXCEPT ![t] = "asleep"] \/ pc' = [pc EXCEPT ![t] = "top"]
      BY <2>12 DEF GoToSleep, Goto
    <3>3. LoopAt(t)'
      BY <3>1, <3>2 DEF LoopAt, TypeOK
    <3> QED BY <3>1, <3>2, <3>3, LoopOthers DEF TypeOK
  <2>13. CASE WakeJoiners(t)
    BY <1>2, <2>13 DEF WakeJoiners, Stage, Goto, LoopInv, Stages
  <2>14. CASE EndThread(t)
    BY <1>2, <2>14 DEF EndThread, Stage, Goto, LoopInv, Stages
  <2> QED BY <1>7, <2>1, <2>2, <2>3, <2>4, <2>6, <2>7, <2>9, <2>10, <2>11, <2>12, <2>13,
             <2>14 DEF Serve
<1>8. ASSUME NEW t \in Threads, Reenter(t)
      PROVE  LoopInv'
  <2>1. CASE Unpark(t)
    BY <1>2, <1>3, <2>1 DEF Unpark, Goto, Stages
  <2>2. CASE Wake(t)
    BY <1>2, <2>2 DEF Wake, Goto, Stages
  <2>3. CASE InitThread(t)
    BY <1>2, <2>3 DEF InitThread, Goto, LoopInv, Stages
  <2> QED BY <1>8, <2>1, <2>2, <2>3 DEF Reenter
<1>9. CASE Environment
  <2>1. CASE \E o \in Timers : Tick(o)
    BY <1>1, <2>1 DEF Tick
  <2>2. CASE \E u \in AsyncOwners, s \in {"ready", "stale"} : PollAsync(u, s)
    BY <1>4, <2>2 DEF PollAsync
  <2> QED BY <1>9, <2>1, <2>2 DEF Environment
<1>10. CASE UNCHANGED vars
  BY <1>1, <1>10 DEF vars
<1> QED BY <1>5, <1>6, <1>7, <1>8, <1>9, <1>10 DEF Next

\* The objects mutex, the stages of select and the links agree in every behaviour.
THEOREM StructureKept == Spec => [](TypeOK /\ LockInv /\ LoopInv /\ LinkInv)
<1>1. Init => TypeOK
  BY BoundsAssumption DEF Init, TypeOK, Stages, MutexType, NoRequest
<1>2. Init => LockInv /\ LoopInv /\ LinkInv
  <2> SUFFICES ASSUME Init
               PROVE  LockInv /\ LoopInv /\ LinkInv
    OBVIOUS
  <2>1. Elements(<<>>) = {} /\ DOMAIN <<>> = {} /\ \A t \in Threads : t # None
    BY ObjectsAssumption DEF Elements, Objects
  <2>2. LockInv
    BY <2>1 DEF Init, LockInv, Inside
  <2>3. LoopInv
    BY DEF Init, LoopInv
  <2>4. LinkInv
    BY <2>1 DEF Init, LinkInv
  <2> QED BY <2>2, <2>3, <2>4
<1> QED BY <1>1, <1>2, TypeStep, LockStep, LoopStep, LinkStep, PTL DEF Spec

-----------------------------------------------------------------------------
(* Hand-offs, mutexes and signals: the proofs of MutexOwnership,             *)
(* SignalsConserved and LeavesNothing, on top of the structure above.        *)
\* What HandInv says of one thread.
HandAt(t) ==
    /\ took[t] # {} => done[t]
    /\ done[t] => pc[t] \in {"top", "timers", "test", "asleep", "parked"}
    /\ mode[t] # "new" => pc[t] \in {"top", "apc", "timers", "test", "asleep", "parked"}
    /\ fresh[t] => pc[t] \in {"top", "parked"} /\ mode[t] = "new"
    /\ pc[t] = "apc" => t \notin Elements(walk)

\* A step of one thread, with the mutex free or its own, only matters to it: no
\* other thread is at "apc".
LEMMA HandOthers ==
    ASSUME TypeOK, LockInv, HandInv, NEW t \in Threads, lock \in {None, t},
           \A u \in Threads : u # t => /\ pc'[u] = pc[u] /\ mode'[u] = mode[u]
                                       /\ took'[u] = took[u] /\ done'[u] = done[u]
                                       /\ fresh'[u] = fresh[u],
           HandAt(t)'
    PROVE  HandInv'
<1>1. \A u \in Threads : u # None
  BY ObjectsAssumption DEF Objects
<1>2. ASSUME NEW u \in Threads, u # t
      PROVE  HandAt(u)'
  <2>1. pc[u] # "apc"
    BY <1>1, <1>2 DEF LockInv, Inside
  <2> QED BY <1>2, <2>1 DEF HandAt, HandInv
<1>3. HandInv' = \A u \in Threads : HandAt(u)'
  BY DEF HandInv, HandAt
<1> QED BY <1>2, <1>3

\* Every step keeps HandInv.
LEMMA HandStep ==
    TypeOK /\ LockInv /\ LoopInv /\ LinkInv /\ HandInv /\ [Next]_vars => HandInv'
<1> SUFFICES ASSUME TypeOK, LockInv, LoopInv, LinkInv, HandInv, [Next]_vars
             PROVE  HandInv'
  OBVIOUS
<1> USE DEF waitVars
<1>0. (\A x \in Threads : x # None) /\ Elements(<<>>) = {}
  BY ObjectsAssumption DEF Objects, Elements
<1>1. CASE Visit
  <2> DEFINE h == Head(walk)
  <2>0. /\ walk # <<>> /\ walk' = Tail(walk) /\ h \in Threads
        /\ Elements(walk) = {h} \cup Elements(walk')
        /\ UNCHANGED <<lock, pc, fresh, mode>>
    BY <1>1, HeadTail DEF Visit, TypeOK
  <2>1. mode[h] = "queued" /\ pc[h] \in {"top", "timers", "test", "asleep"}
    BY <2>0 DEF LockInv, LoopInv, HandInv
  <2>2. CASE UNCHANGED <<done, took>>
    BY <2>0, <2>2 DEF HandInv
  <2>3. CASE done' = [done EXCEPT ![h] = TRUE] /\ took' = [took EXCEPT ![h] = Takes(h)]
    <3>1. \A t \in Threads : HandAt(t)'
      BY <2>0, <2>1, <2>3 DEF HandInv, HandAt, TypeOK
    <3> QED BY <3>1 DEF HandInv, HandAt
  <2> QED BY <1>1, <2>2, <2>3 DEF Visit
<1>3. ASSUME NEW t \in Threads, NEW S, Return(t, S), lock \in {None, t}
      PROVE  HandInv'
  <2>1. HandAt(t)'
    BY <1>3 DEF Return, Leave, HandAt, TypeOK
  <2> QED BY <1>3, <2>1, HandOthers DEF Return, Leave, TypeOK
\* a step that moves nobody and leaves the walk empty or its thread elsewhere
<1>4. ASSUME UNCHANGED <<pc, mode, took, done, fresh>>,
             \A t \in Threads : pc[t] = "apc" => t \notin Elements(walk')
      PROVE  HandInv'
  BY <1>4 DEF HandInv
<1>5. ASSUME NEW t \in Threads, Request(t)
      PROVE  HandInv'
  <2>0. pc[t] = "idle" => ~done[t] /\ mode[t] = "new" /\ ~fresh[t] /\ took[t] = {}
    BY DEF HandInv
  <2>1. ASSUME NEW r \in Requests, Select(t, r)
        PROVE  HandInv'
    <3>1. /\ lock = None /\ pc[t] = "idle" /\ pc' = [pc EXCEPT ![t] = "top"]
          /\ UNCHANGED <<mode, took, done, walk>>
          /\ fresh' = [fresh EXCEPT ![t] = r.signal # None]
      BY <2>1 DEF Select, Enter
    <3>2. HandAt(t)'
      BY <2>0, <3>1 DEF HandAt, TypeOK
    <3> QED BY <3>1, <3>2, HandOthers DEF TypeOK
  <2>2. ASSUME NEW stage \in {"call", "pulse", "info", "ending"}, Enter(t, stage),
               UNCHANGED waitVars
        PROVE  HandInv'
    <3>1. /\ lock = None /\ pc' = [pc EXCEPT ![t] = stage] /\ stage # "apc"
          /\ ~done[t] /\ mode[t] = "new" /\ ~fresh[t]
      BY <2>0, <2>2 DEF Enter
    <3>2. HandAt(t)'
      BY <2>2, <3>1 DEF HandAt, HandInv, TypeOK
    <3> QED BY <2>2, <3>1, <3>2, HandOthers DEF TypeOK
  <2>3. ASSUME Brief(t), UNCHANGED <<lock, walk, pc, waitVars>>
        PROVE  HandInv'
    BY <1>4, <2>3 DEF HandInv
  <2>4. CASE \E e \in Events : SetEvent(t, e) \/ PulseEvent(t, e)
    BY <2>2, <2>4 DEF SetEvent, PulseEvent
  <2>5. CASE \E m \in Mutexes : ReleaseMutex(t, m)
    BY <2>2, <2>5 DEF ReleaseMutex
  <2>6. CASE \E s \in Semaphores, n \in 1..SemMax : ReleaseSemaphore(t, s, n)
    BY <2>2, <2>6 DEF ReleaseSemaphore
  <2>7. CASE GetTimerInfo(t) \/ ExitThread(t)
    BY <2>2, <2>7 DEF GetTimerInfo, ExitThread
  <2>8. CASE \E e \in Events : ResetEvent(t, e)
    BY <2>3, <2>8 DEF ResetEvent
  <2>9. CASE \E o \in Timers : CancelTimer(t, o) \/ \E p \in BOOLEAN : SetTimer(t, o, p)
    BY <2>3, <2>9 DEF CancelTimer, SetTimer
  <2>10. CASE \E o \in Closable : CloseHandle(t, o)
    BY <2>3, <2>10 DEF CloseHandle
  <2>11. CASE \E u \in Threads : SuspendThread(t, u) \/ ResumeThread(t, u) \/ QueueApc(t, u)
    BY <2>3, <2>11 DEF SuspendThread, ResumeThread, QueueApc
  <2> QED BY <1>5, <2>1, <2>4, <2>5, <2>6, <2>7, <2>8, <2>9, <2>10, <2>11 DEF Request
<1>6. ASSUME NEW t \in Threads, Serve(t)
      PROVE  HandInv'
  <2>1. CASE EndCall(t)
    <3>1. pc[t] \in {"call", "info"} /\ lock = t /\ Leave(t) /\ UNCHANGED waitVars
      BY <2>1 DEF EndCall
    <3>2. ~done[t] /\ mode[t] = "new" /\ ~fresh[t]
      BY <3>1 DEF HandInv
    <3>3. HandAt(t)'
      BY <3>1, <3>2 DEF Leave, HandAt, HandInv, TypeOK
    <3> QED BY <3>1, <3>3, HandOthers DEF Leave, TypeOK
  <2>2. CASE EndPulse(t)
    <3>1. HandAt(t)'
      BY <2>2 DEF EndPulse, Leave, HandAt, HandInv, TypeOK
    <3> QED BY <2>2, <3>1, HandOthers DEF EndPulse, Leave, TypeOK
  <2>3. CASE Park(t)
    <3>1. /\ lock = t /\ pc[t] = "top" /\ walk = <<>> /\ pc' = [pc EXCEPT ![t] = "parked"]
          /\ UNCHANGED <<walk, took, done, fresh>>
      BY <2>3 DEF Park, Stage, Goto
    <3>2. /\ mode'[t] = mode[t] \/ mode'[t] = "new"
          /\ \A u \in Threads : u # t => mode'[u] = mode[u]
      BY <2>3 DEF Park, TypeOK
    <3>3. HandAt(t)'
      BY <3>1, <3>2 DEF HandAt, HandInv, TypeOK
    <3> QED BY <3>1, <3>2, <3>3, HandOthers DEF TypeOK
  <2>4. CASE Collect(t) \/ TakeAsync(t) \/ TakeApc(t) \/ Satisfied(t) \/ TimedOut(t)
    BY <1>3, <2>4 DEF Collect, TakeAsync, TakeApc, Satisfied, TimedOut, Stage
  <2>5. CASE SignalFirst(t)
    <3>1. CASE req[t].objs[1] \in open /\ CanSignal(t, req[t].signal, 1)
      <4>1. /\ lock = t /\ pc[t] = "top" /\ walk = <<>> /\ ~done[t] /\ fresh[t]
            /\ DoSignal(t, req[t].signal, 1) /\ pc' = [pc EXCEPT ![t] = "apc"]
            /\ fresh' = [fresh EXCEPT ![t] = FALSE] /\ UNCHANGED <<mode, done, took>>
        BY <2>5, <3>1 DEF SignalFirst, Stage, Goto
      <4>2. \A u \in Elements(walk') : mode'[u] = "queued"
        BY <3>1, <4>1, SignalWalk
      <4>3. mode[t] = "new"
        BY <4>1 DEF HandInv
      <4>4. HandAt(t)'
        BY <4>1, <4>2, <4>3 DEF HandAt, HandInv, TypeOK
      <4> QED BY <4>1, <4>4, HandOthers DEF TypeOK
    <3>2. CASE ~(req[t].objs[1] \in open /\ CanSignal(t, req[t].signal, 1))
      BY <1>3, <2>5, <3>2 DEF SignalFirst, Stage
    <3> QED BY <3>1, <3>2
  <2>6. CASE GoOn(t)
    <3>1. /\ lock = t /\ pc[t] = "top" /\ walk' = <<>> /\ ~done[t] /\ ~fresh[t]
          /\ pc' = [pc EXCEPT ![t] = "apc"] /\ UNCHANGED <<mode, took, done, fresh>>
      BY <2>6 DEF GoOn, Stage, Goto
    <3>2. HandAt(t)'
      BY <1>0, <3>1 DEF HandAt, HandInv, TypeOK
    <3> QED BY <3>1, <3>2, HandOthers DEF TypeOK
  <2>7. CASE NoApc(t)
    <3>1. HandAt(t)'
      BY <2>7 DEF NoApc, Stage, Goto, HandAt, HandInv, TypeOK
    <3> QED BY <2>7, <3>1, HandOthers DEF NoApc, Stage, Goto, TypeOK
  <2>8. CASE TimersDone(t)
    <3>1. HandAt(t)'
      BY <2>8 DEF TimersDone, Stage, Goto, HandAt, HandInv, TypeOK
    <3> QED BY <2>8, <3>1, HandOthers DEF TimersDone, Stage, Goto, TypeOK
  <2>9. CASE \E o \in Timers : FireTimer(t, o)
    <3>1. \A u \in Threads : pc[u] # "apc"
      BY <1>0, <2>9 DEF FireTimer, Stage, LockInv, Inside
    <3> QED BY <1>4, <2>9, <3>1 DEF FireTimer
  <2>10. CASE \E m \in Mutexes : AbandonMutex(t, m)
    <3>1. \A u \in Threads : pc[u] # "apc"
      BY <1>0, <2>10 DEF AbandonMutex, Stage, LockInv, Inside
    <3> QED BY <1>4, <2>10, <3>1 DEF AbandonMutex
  <2>11. CASE GoToSleep(t)
    <3>1. /\ lock = t /\ pc[t] = "test" /\ walk = <<>> /\ ~done[t]
          /\ UNCHANGED <<walk, took, done, fresh>>
          /\ \A u \in Threads : u # t => mode'[u] = mode[u]
      BY <2>11 DEF GoToSleep, Stage, TypeOK
    <3>2. pc' = [pc EXCEPT ![t] = "asleep"] \/ pc' = [pc EXCEPT ![t] = "top"]
      BY <2>11 DEF GoToSleep, Goto
    <3>3. HandAt(t)'
      BY <3>1, <3>2 DEF HandAt, HandInv, TypeOK
    <3> QED BY <3>1, <3>2, <3>3, HandOthers DEF TypeOK
  <2>12. CASE WakeJoiners(t)
    <3>1. /\ lock = t /\ pc[t] = "ending" /\ pc' = [pc EXCEPT ![t] = "joining"]
          /\ UNCHANGED <<mode, took, done, fresh>>
      BY <2>12 DEF WakeJoiners, Stage, Goto
    <3>2. ~done[t] /\ mode[t] = "new" /\ ~fresh[t]
      BY <3>1 DEF HandInv
    <3>3. HandAt(t)'
      BY <3>1, <3>2 DEF HandAt, HandInv, TypeOK
    <3> QED BY <3>1, <3>3, HandOthers DEF TypeOK
  <2>13. CASE EndThread(t)
    <3>1. HandAt(t)'
      BY <2>13 DEF EndThread, Stage, Goto, HandAt, HandInv, TypeOK
    <3> QED BY <2>13, <3>1, HandOthers DEF EndThread, Stage, Goto, TypeOK
  <2> QED BY <1>6, <2>1, <2>2, <2>3, <2>4, <2>5, <2>6, <2>7, <2>8, <2>9, <2>10, <2>11,
             <2>12, <2>13 DEF Serve
<1>7. ASSUME NEW t \in Threads, Reenter(t)
      PROVE  HandInv'
  <2>1. CASE Unpark(t)
    <3>1. CASE req[t].context
      BY <1>3, <2>1, <3>1 DEF Unpark
    <3>2. CASE ~req[t].context
      <4>1. HandAt(t)'
        BY <2>1, <3>2 DEF Unpark, Goto, HandAt, HandInv, TypeOK
      <4> QED BY <2>1, <3>2, <4>1, HandOthers DEF Unpark, Goto, TypeOK
    <3> QED BY <3>1, <3>2
  <2>2. CASE Wake(t)
    <3>1. HandAt(t)'
      BY <2>2 DEF Wake, Goto, HandAt, HandInv, TypeOK
    <3> QED BY <2>2, <3>1, HandOthers DEF Wake, Goto, TypeOK
  <2>3. CASE InitThread(t)
    <3>1. HandAt(t)'
      BY <2>3 DEF InitThread, Goto, HandAt, HandInv, TypeOK
    <3> QED BY <2>3, <3>1, HandOthers DEF InitThread, Goto, TypeOK
  <2> QED BY <1>7, <2>1, <2>2, <2>3 DEF Reenter
<1>8. CASE Environment
  BY <1>4, <1>8 DEF Environment, Tick, PollAsync, HandInv
<1>9. CASE UNCHANGED vars
  BY <1>4, <1>9 DEF vars, HandInv
<1> QED BY <1>1, <1>5, <1>6, <1>7, <1>8, <1>9 DEF Next

-----------------------------------------------------------------------------
(* Mutexes                                                                   *)

\* The books on one mutex balance for one thread.
Balanced(m, t) ==
    held[t][m] + (IF m \in took[t] THEN 1 ELSE 0)
        = IF mutex[m].owner = t THEN mutex[m].count ELSE 0

\* A mutex is free exactly when it has no owner, and an abandoned one is free.
WellFormed(m) ==
    /\ mutex[m].count = 0 <=> mutex[m].owner = None
    /\ mutex[m].abandoned => mutex[m].count = 0

\* The mutexes a satisfied wait takes are free or its own.
LEMMA TakesMutex ==
    ASSUME TypeOK, NEW t \in Threads, NEW m \in Mutexes, m \in Takes(t)
    PROVE  MutexSignaled(m, t)
BY TakesReady, ObjectsAssumption DEF Ready, IsSignaled, Signals

\* Every step keeps the books of every mutex balanced.
LEMMA OwnStep ==
    TypeOK /\ LockInv /\ HandInv /\ MutexOwnership /\ [Next]_vars => MutexOwnership'
<1> SUFFICES ASSUME TypeOK, LockInv, HandInv, MutexOwnership, [Next]_vars,
                    NEW m \in Mutexes
             PROVE  (\A t \in Threads : Balanced(m, t)') /\ WellFormed(m)'
  BY DEF MutexOwnership, Balanced, WellFormed
<1> USE DEF waitVars
<1>0. /\ WellFormed(m) /\ \A t \in Threads : Balanced(m, t)
      /\ \A t \in Threads : t # None
      /\ mutex[m] \in MutexType /\ \A t \in Threads : held[t][m] \in Int
  BY ObjectsAssumption DEF MutexOwnership, Balanced, WellFormed, Objects, TypeOK
<1>1. ASSUME UNCHANGED <<mutex, held, took>>
      PROVE  (\A t \in Threads : Balanced(m, t)') /\ WellFormed(m)'
  BY <1>0, <1>1 DEF Balanced, WellFormed
<1>2. CASE Visit
  <2>0. PICK h \in Threads : h = Head(walk)
    BY <1>2, HeadTail DEF Visit, TypeOK
  <2>1. CASE UNCHANGED <<objVars, took>>
    BY <1>1, <1>2, <2>1 DEF Visit, objVars, ghostVars
  <2>2. CASE /\ ~done[h] /\ Consume(h, Takes(h)) /\ took' = [took EXCEPT ![h] = Takes(h)]
    <3>1. took[h] = {} /\ held' = held
      BY <1>2, <2>0, <2>2 DEF HandInv, Visit, ghostVars
    <3>2. CASE m \in Takes(h)
      <4>1. mutex'[m] = Acquire(mutex[m], h)
        BY <2>2, <3>2 DEF Consume
      <4>2. /\ mutex'[m].owner = h /\ mutex'[m].count \in Nat \ {0} /\ mutex'[m].abandoned = FALSE
            /\ mutex'[m].count = (IF mutex[m].owner = h THEN mutex[m].count ELSE 0) + 1
            /\ \A u \in Threads : u # h => mutex[m].owner # u \/ mutex[m].count = 0
        <5>1. MutexSignaled(m, h)
          BY <2>0, <3>2, TakesMutex
        <5> QED BY <1>0, <4>1, <5>1 DEF Acquire, MutexSignaled, WellFormed, MutexType
      <4>3. Balanced(m, h)'
        BY <1>0, <2>0, <2>2, <3>1, <3>2, <4>2 DEF Balanced, MutexType, TypeOK
      <4>4. ASSUME NEW u \in Threads, u # h
            PROVE  Balanced(m, u)'
        BY <1>0, <2>0, <2>2, <3>1, <4>2, <4>4 DEF Balanced, MutexType, TypeOK
      <4>5. WellFormed(m)'
        BY <1>0, <2>0, <4>2 DEF WellFormed
      <4> QED BY <4>3, <4>4, <4>5
    <3>3. CASE m \notin Takes(h)
      <4>1. mutex'[m] = mutex[m] /\ \A u \in Threads : m \in took'[u] <=> m \in took[u]
        BY <2>2, <3>1, <3>3 DEF Consume, TypeOK
      <4> QED BY <1>0, <3>1, <4>1 DEF Balanced, WellFormed
    <3> QED BY <3>2, <3>3
  <2> QED BY <1>2, <2>0, <2>1, <2>2 DEF Visit
\* signal_object: the owner gives one acquisition back
<1>3. ASSUME NEW t \in Threads, NEW o, NEW n, CanSignal(t, o, n), DoSignal(t, o, n),
             took' = took, ~done[t]
      PROVE  (\A u \in Threads : Balanced(m, u)') /\ WellFormed(m)'
  <2>1. took[t] = {}
    BY <1>3 DEF HandInv
  <2>2. CASE m = o
    <3>1. mutex[m].owner = t /\ mutex[m].count > 0 /\ mutex'[m] = Release(mutex[m])
      BY <1>3, <2>2, ObjectsAssumption DEF CanSignal, DoSignal
    <3>2. held'[t][m] = held[t][m] - 1 /\ \A u \in Threads : u # t => held'[u] = held[u]
      BY <1>3, <2>2 DEF DoSignal, TypeOK
    <3>3. Balanced(m, t)'
      BY <1>0, <1>3, <2>1, <3>1, <3>2 DEF Balanced, Release, MutexType
    <3>4. ASSUME NEW u \in Threads, u # t
          PROVE  Balanced(m, u)'
      BY <1>0, <1>3, <3>1, <3>2, <3>4 DEF Balanced, Release, MutexType
    <3>5. WellFormed(m)'
      BY <1>0, <3>1 DEF WellFormed, Release, MutexType
    <3> QED BY <3>3, <3>4, <3>5
  <2>3. CASE m # o
    <3>1. mutex'[m] = mutex[m] /\ \A u \in Threads : held'[u][m] = held[u][m]
      BY <1>3, <2>3 DEF DoSignal, TypeOK
    <3> QED BY <1>0, <1>3, <3>1 DEF Balanced, WellFormed
  <2> QED BY <2>2, <2>3
\* the reply tells the client what was taken for it
<1>4. ASSUME NEW t \in Threads, Return(t, took[t]), mutex' = mutex
      PROVE  (\A u \in Threads : Balanced(m, u)') /\ WellFormed(m)'
  <2>1. /\ held'[t][m] = held[t][m] + (IF m \in took[t] THEN 1 ELSE 0) /\ took'[t] = {}
        /\ \A u \in Threads : u # t => held'[u] = held[u] /\ took'[u] = took[u]
    BY <1>0, <1>4 DEF Return, TypeOK
  <2> QED BY <1>0, <1>4, <2>1 DEF Balanced, WellFormed
<1>5. ASSUME NEW t \in Threads, Return(t, {}), mutex' = mutex, ~done[t]
      PROVE  (\A u \in Threads : Balanced(m, u)') /\ WellFormed(m)'
  BY <1>4, <1>5 DEF HandInv
<1>6. ASSUME NEW t \in Threads, Request(t)
      PROVE  (\A u \in Threads : Balanced(m, u)') /\ WellFormed(m)'
  <2>0. pc[t] = "idle" => ~done[t]
    BY DEF HandInv
  <2>1. CASE \E r \in Requests : Select(t, r)
    BY <1>1, <2>1 DEF Select, objVars, ghostVars
  <2>2. CASE \E e \in Events : SetEvent(t, e)
    BY <1>3, <2>0, <2>2 DEF SetEvent, Enter
  <2>3. CASE \E x \in Mutexes : ReleaseMutex(t, x)
    BY <1>3, <2>0, <2>3 DEF ReleaseMutex, Enter
  <2>4. CASE \E s \in Semaphores, n \in 1..SemMax : ReleaseSemaphore(t, s, n)
    BY <1>3, <2>0, <2>4 DEF ReleaseSemaphore, Enter
  <2>5. CASE GetTimerInfo(t) \/ ExitThread(t)
    BY <1>1, <2>5 DEF GetTimerInfo, ExitThread, objVars, ghostVars
  <2>6. CASE \E e \in Events : ResetEvent(t, e) \/ PulseEvent(t, e)
    BY <1>1, <2>6 DEF ResetEvent, PulseEvent
  <2>7. CASE \E o \in Timers : CancelTimer(t, o) \/ \E p \in BOOLEAN : SetTimer(t, o, p)
    BY <1>1, <2>7 DEF CancelTimer, SetTimer
  <2>8. CASE \E o \in Closable : CloseHandle(t, o)
    BY <1>1, <2>8 DEF CloseHandle, objVars, ghostVars
  <2>9. CASE \E u \in Threads : SuspendThread(t, u) \/ ResumeThread(t, u) \/ QueueApc(t, u)
    BY <1>1, <2>9 DEF SuspendThread, ResumeThread, QueueApc, objVars, ghostVars
  <2> QED BY <1>6, <2>1, <2>2, <2>3, <2>4, <2>5, <2>6, <2>7, <2>8, <2>9 DEF Request
<1>7. ASSUME NEW t \in Threads, Serve(t)
      PROVE  (\A u \in Threads : Balanced(m, u)') /\ WellFormed(m)'
  <2>1. CASE EndCall(t) \/ Park(t) \/ GoOn(t) \/ NoApc(t) \/ TimersDone(t) \/ GoToSleep(t)
             \/ WakeJoiners(t) \/ EndThread(t)
    BY <1>1, <2>1 DEF EndCall, Park, GoOn, NoApc, TimersDone, GoToSleep, WakeJoiners,
       EndThread, objVars, ghostVars
  <2>2. CASE EndPulse(t) \/ \E o \in Timers : FireTimer(t, o)
    BY <1>1, <2>2 DEF EndPulse, FireTimer
  <2>3. CASE Collect(t)
    BY <1>4, <2>3 DEF Collect, objVars
  <2>4. CASE TakeAsync(t)
    <3>1. ~done[t]
      BY <2>4 DEF TakeAsync, Stage, HandInv
    <3> QED BY <1>5, <2>4, <3>1 DEF TakeAsync, objVars
  <2>5. CASE TakeApc(t)
    <3>1. ~done[t]
      BY <2>5 DEF TakeApc, Stage, HandInv
    <3> QED BY <1>5, <2>5, <3>1 DEF TakeApc, objVars
  <2>6. CASE TimedOut(t)
    BY <1>5, <2>6 DEF TimedOut, objVars
  <2>7. CASE SignalFirst(t)
    <3>1. CASE req[t].objs[1] \in open /\ CanSignal(t, req[t].signal, 1)
      BY <1>3, <2>7, <3>1 DEF SignalFirst
    <3>2. CASE ~(req[t].objs[1] \in open /\ CanSignal(t, req[t].signal, 1))
      BY <1>5, <2>7, <3>2 DEF SignalFirst, objVars
    <3> QED BY <3>1, <3>2
  <2>8. CASE Satisfied(t)
    <3>1. CASE done[t]
      BY <1>4, <2>8, <3>1 DEF Satisfied, objVars
    <3>2. CASE ~done[t]
      <4>1. Consume(t, Takes(t)) /\ Return(t, Takes(t)) /\ took[t] = {}
        BY <2>8, <3>2 DEF Satisfied, HandInv
      <4>2. /\ held'[t][m] = held[t][m] + (IF m \in Takes(t) THEN 1 ELSE 0) /\ took'[t] = {}
            /\ \A u \in Threads : u # t => held'[u] = held[u] /\ took'[u] = took[u]
        BY <1>0, <4>1 DEF Return, TypeOK
      <4>3. CASE m \in Takes(t)
        <5>1. mutex'[m] = Acquire(mutex[m], t)
          BY <4>1, <4>3 DEF Consume
        <5>2. /\ mutex'[m].owner = t /\ mutex'[m].count \in Nat \ {0} /\ mutex'[m].abandoned = FALSE
              /\ mutex'[m].count = (IF mutex[m].owner = t THEN mutex[m].count ELSE 0) + 1
              /\ \A u \in Threads : u # t => mutex[m].owner # u \/ mutex[m].count = 0
          <6>1. MutexSignaled(m, t)
            BY <4>3, TakesMutex
          <6> QED BY <1>0, <5>1, <6>1 DEF Acquire, MutexSignaled, WellFormed, MutexType
        <5>3. Balanced(m, t)'
          BY <1>0, <4>1, <4>2, <4>3, <5>2 DEF Balanced, MutexType
        <5>4. ASSUME NEW u \in Threads, u # t
              PROVE  Balanced(m, u)'
          BY <1>0, <4>2, <5>2, <5>4 DEF Balanced, MutexType
        <5>5. WellFormed(m)'
          BY <1>0, <5>2 DEF WellFormed
        <5> QED BY <5>3, <5>4, <5>5
      <4>4. CASE m \notin Takes(t)
        <5>1. mutex'[m] = mutex[m]
          BY <4>1, <4>4 DEF Consume
        <5> QED BY <1>0, <4>1, <4>2, <4>4, <5>1 DEF Balanced, WellFormed
      <4> QED BY <4>3, <4>4
    <3> QED BY <3>1, <3>2
  <2>9. ASSUME NEW x \in Mutexes, AbandonMutex(t, x)
        PROVE  (\A u \in Threads : Balanced(m, u)') /\ WellFormed(m)'
    <3>1. took[t] = {} /\ took' = took
      BY <2>9 DEF AbandonMutex, Stage, HandInv
    <3>2. CASE m = x
      <4>1. mutex'[m] = Abandoned /\ mutex[m].owner = t
        BY <2>9, <3>2 DEF AbandonMutex, OwnedOpen, TypeOK
      <4>2. held'[t][m] = 0 /\ \A u \in Threads : u # t => held'[u] = held[u]
        BY <2>9, <3>2 DEF AbandonMutex, TypeOK
      <4> QED BY <1>0, <3>1, <4>1, <4>2 DEF Balanced, WellFormed, Abandoned
    <3>3. CASE m # x
      <4>1. mutex'[m] = mutex[m] /\ \A u \in Threads : held'[u][m] = held[u][m]
        BY <2>9, <3>3 DEF AbandonMutex, TypeOK
      <4> QED BY <1>0, <3>1, <4>1 DEF Balanced, WellFormed
    <3> QED BY <3>2, <3>3
  <2> QED BY <1>7, <2>1, <2>2, <2>3, <2>4, <2>5, <2>6, <2>7, <2>8, <2>9 DEF Serve
<1>8. ASSUME NEW t \in Threads, Reenter(t)
      PROVE  (\A u \in Threads : Balanced(m, u)') /\ WellFormed(m)'
  <2>1. CASE Unpark(t)
    BY <1>1, <1>4, <2>1 DEF Unpark, objVars, ghostVars
  <2>2. CASE Wake(t) \/ InitThread(t)
    BY <1>1, <2>2 DEF Wake, InitThread, objVars, ghostVars
  <2> QED BY <1>8, <2>1, <2>2 DEF Reenter
<1>9. CASE Environment
  BY <1>1, <1>9 DEF Environment, Tick, PollAsync, objVars, ghostVars
<1>10. CASE UNCHANGED vars
  BY <1>1, <1>10 DEF vars, objVars, ghostVars
<1> QED BY <1>2, <1>6, <1>7, <1>8, <1>9, <1>10 DEF Next

\* What the clients know they hold, with what hand-offs have still to tell them, is
\* each mutex's recursion count: a mutex has at most one holder, and no hand-off is
\* lost or told twice.
THEOREM MutexOwned == Spec => []MutexOwnership
<1>1. Init => HandInv
  BY DEF Init, HandInv
<1>2. Init => MutexOwnership
  BY ObjectsAssumption DEF Init, MutexOwnership, Objects
<1> QED BY <1>1, <1>2, StructureKept, HandStep, OwnStep, PTL DEF Spec

\* Mutual exclusion, as the clients see it: no two of them have been told that they
\* hold a mutex that neither has given back.
THEOREM MutualExclusion ==
    Spec => [](\A m \in Mutexes, t, u \in Threads : held[t][m] > 0 /\ held[u][m] > 0 => t = u)
<1>1. TypeOK /\ MutexOwnership
        => \A m \in Mutexes, t, u \in Threads : held[t][m] > 0 /\ held[u][m] > 0 => t = u
  <2> SUFFICES ASSUME TypeOK, MutexOwnership, NEW m \in Mutexes, NEW t \in Threads,
                      NEW u \in Threads, held[t][m] > 0, held[u][m] > 0
               PROVE  t = u
    OBVIOUS
  <2>1. \A v \in Threads : held[v][m] \in Int
    BY DEF TypeOK
  <2>2. \A v \in Threads : held[v][m] > 0 => mutex[m].owner = v
    BY <2>1 DEF MutexOwnership
  <2> QED BY <2>2
<1> QED BY <1>1, TypeCorrect, MutexOwned, PTL

-----------------------------------------------------------------------------
(* Signals                                                                   *)

\* The waits that have a signal of c in hand.
Taken(c) == {t \in Threads : c \in took[t]}

\* The books on one counted object balance.
Conserved(c) == Available(c) + Cardinality(Taken(c)) = credit[c]

\* A counted object has a flag or a count, and only so many waits have a signal.
LEMMA CountedType ==
    ASSUME TypeOK, NEW c \in Counted
    PROVE  /\ c \in Semaphores \/ (c \in Signals /\ c \notin Semaphores /\ c \notin Manual)
           /\ c \in Objects /\ c \notin Mutexes /\ c \notin Threads
           /\ c \in Semaphores => c \notin Signals
           /\ Available(c) \in Nat /\ credit[c] \in Int
           /\ IsFiniteSet(Taken(c)) /\ Cardinality(Taken(c)) \in Nat
<1>1. /\ c \in Semaphores \/ (c \in Signals /\ c \notin Semaphores /\ c \notin Manual)
      /\ c \in Objects /\ c \notin Mutexes /\ c \notin Threads
      /\ c \in Semaphores => c \notin Signals
  BY ObjectsAssumption DEF Counted, Signals, Objects
<1>2. Available(c) \in Nat /\ credit[c] \in Int
  BY <1>1, BoundsAssumption DEF Available, TypeOK
<1>3. IsFiniteSet(Taken(c)) /\ Cardinality(Taken(c)) \in Nat
  <2>1. Taken(c) \subseteq Threads
    BY DEF Taken
  <2> QED BY <2>1, FiniteAssumption, FS_Subset, FS_CardinalityType
<1> QED BY <1>1, <1>2, <1>3

\* A wait that takes a signal of c, in its books.
LEMMA TakenMore ==
    ASSUME TypeOK, NEW c \in Counted, NEW h \in Threads, c \notin took[h], c \in took'[h],
           \A u \in Threads : u # h => took'[u] = took[u]
    PROVE  Cardinality(Taken(c)') = Cardinality(Taken(c)) + 1
<1>1. Taken(c)' = Taken(c) \cup {h} /\ h \notin Taken(c)
  BY DEF Taken
<1> QED BY <1>1, CountedType, FS_AddElement

\* A wait whose signal of c is told to its client.
LEMMA TakenLess ==
    ASSUME TypeOK, NEW c \in Counted, NEW h \in Threads, c \in took[h], c \notin took'[h],
           \A u \in Threads : u # h => took'[u] = took[u]
    PROVE  Cardinality(Taken(c)') = Cardinality(Taken(c)) - 1
<1>1. Taken(c)' = Taken(c) \ {h} /\ h \in Taken(c)
  BY DEF Taken
<1> QED BY <1>1, CountedType, FS_RemoveElement

LEMMA TakenAlike ==
    ASSUME NEW c, \A u \in Threads : c \in took'[u] <=> c \in took[u]
    PROVE  Taken(c)' = Taken(c)
BY DEF Taken

\* What a wait consumes was there, and one of it is gone.
LEMMA ConsumeCounted ==
    ASSUME TypeOK, NEW c \in Counted, NEW t \in Threads, Consume(t, Takes(t))
    PROVE  Available(c)' = IF c \in Takes(t) THEN Available(c) - 1 ELSE Available(c)
<1>1. CASE c \in Takes(t)
  <2>1. IsSignaled(c, t)
    BY <1>1, TakesReady DEF Ready
  <2>2. CASE c \in Semaphores
    BY <1>1, <2>2 DEF Consume, Available
  <2>3. CASE c \notin Semaphores
    <3>1. c \in Signals /\ c \notin Manual /\ signaled[c]
      BY <2>1, <2>3, CountedType DEF IsSignaled
    <3>2. ~signaled'[c]
      BY <1>1, <3>1 DEF Consume
    <3> QED BY <1>1, <2>3, <3>1, <3>2 DEF Available
  <2> QED BY <2>2, <2>3
<1>2. CASE c \notin Takes(t)
  <2>1. c \in Semaphores => count'[c] = count[c]
    BY <1>2 DEF Consume
  <2>2. c \in Signals => signaled'[c] = signaled[c]
    BY <1>2 DEF Consume, TypeOK
  <2> QED BY <1>2, <2>1, <2>2, CountedType DEF Available
<1> QED BY <1>1, <1>2

\* Every step keeps the books of every counted object balanced.
LEMMA ConserveStep ==
    TypeOK /\ LockInv /\ HandInv /\ SignalsConserved /\ [Next]_vars => SignalsConserved'
<1> SUFFICES ASSUME TypeOK, LockInv, HandInv, SignalsConserved, [Next]_vars, NEW c \in Counted
             PROVE  Conserved(c)'
  BY DEF SignalsConserved, Conserved, Taken
<1> USE DEF waitVars
<1> DEFINE N == Cardinality(Taken(c))
<1>0. /\ Conserved(c) /\ Available(c) \in Nat /\ N \in Nat /\ credit[c] \in Int
  BY CountedType DEF SignalsConserved, Conserved, Taken
<1>1. ASSUME UNCHANGED <<signaled, count, took, credit>>
      PROVE  Conserved(c)'
  BY <1>0, <1>1 DEF Conserved, Available, Taken
\* one wait takes what it waits for
<1>2. CASE Visit
  <2>0. PICK h \in Threads : h = Head(walk)
    BY <1>2, HeadTail DEF Visit, TypeOK
  <2>1. CASE UNCHANGED <<objVars, took>>
    BY <1>1, <1>2, <2>1 DEF Visit, objVars, ghostVars
  <2>2. CASE ~done[h] /\ Consume(h, Takes(h)) /\ took' = [took EXCEPT ![h] = Takes(h)]
    <3>1. took[h] = {} /\ credit' = credit
      BY <1>2, <2>2 DEF HandInv, Visit, ghostVars
    <3>2. took'[h] = Takes(h) /\ \A u \in Threads : u # h => took'[u] = took[u]
      BY <2>2 DEF TypeOK
    <3>3. CASE c \in Takes(h)
      <4>1. Available(c)' = Available(c) - 1
        BY <2>2, <3>3, ConsumeCounted
      <4>2. Cardinality(Taken(c)') = N + 1
        BY <3>1, <3>2, <3>3, TakenMore
      <4> QED BY <1>0, <3>1, <4>1, <4>2 DEF Conserved
    <3>4. CASE c \notin Takes(h)
      <4>1. Available(c)' = Available(c)
        BY <2>2, <3>4, ConsumeCounted
      <4>2. Taken(c)' = Taken(c)
        BY <3>1, <3>2, <3>4, TakenAlike
      <4> QED BY <1>0, <3>1, <4>1, <4>2 DEF Conserved
    <3> QED BY <3>3, <3>4
  <2> QED BY <1>2, <2>0, <2>1, <2>2 DEF Visit
\* a signal is given: an event's if it was not up already, n of a semaphore's
<1>3. ASSUME NEW t, NEW o, NEW n \in Nat, CanSignal(t, o, n), DoSignal(t, o, n), took' = took,
             o \in Events => n = 1
      PROVE  Conserved(c)'
  <2>1. Taken(c)' = Taken(c)
    BY <1>3 DEF Taken
  <2>2. CASE c # o
    <3>1. Available(c)' = Available(c) /\ credit'[c] = credit[c]
      <4>1. c \in Semaphores => count'[c] = count[c]
        BY <1>3, <2>2 DEF DoSignal
      <4>2. c \in Signals => signaled'[c] = signaled[c]
        BY <1>3, <2>2 DEF DoSignal, TypeOK
      <4>3. credit'[c] = credit[c]
        BY <1>3, <2>2 DEF DoSignal
      <4> QED BY <4>1, <4>2, <4>3, CountedType DEF Available
    <3> QED BY <1>0, <2>1, <3>1 DEF Conserved
  <2>3. CASE c = o /\ c \in Semaphores
    <3>1. count'[c] = count[c] + n /\ credit'[c] = credit[c] + n
      BY <1>3, <2>3 DEF DoSignal, Wakes
    <3>2. Available(c)' = Available(c) + n
      BY <2>3, <3>1 DEF Available
    <3> QED BY <1>0, <1>3, <2>1, <3>1, <3>2 DEF Conserved
  <2>4. CASE c = o /\ c \notin Semaphores
    <3>1. c \in Events /\ c \in Signals /\ n = 1
      BY <1>3, <2>4, CountedType DEF CanSignal
    <3>2. signaled'[c]
      BY <1>3, <2>4, <3>1 DEF DoSignal
    <3>3. Wakes(c) <=> ~signaled[c]
      BY <2>4, <3>1, CountedType DEF Wakes
    <3>4. credit'[c] = IF signaled[c] THEN credit[c] ELSE credit[c] + 1
      BY <1>3, <2>4, <3>1, <3>3 DEF DoSignal
    <3>5. Available(c)' = 1 /\ Available(c) = IF signaled[c] THEN 1 ELSE 0
      BY <2>4, <3>2 DEF Available
    <3>6. CASE signaled[c]
      BY <1>0, <2>1, <3>4, <3>5, <3>6 DEF Conserved
    <3>7. CASE ~signaled[c]
      BY <1>0, <2>1, <3>4, <3>5, <3>7 DEF Conserved
    <3> QED BY <3>6, <3>7
  <2> QED BY <2>2, <2>3, <2>4
\* a flag goes up without a client's request, or comes down
<1>4. ASSUME NEW o \in Signals, signaled' = [signaled EXCEPT ![o] = TRUE], UNCHANGED <<count, took>>,
             credit' = [x \in Counted |-> IF x = o /\ ~signaled[x] THEN credit[x] + 1 ELSE credit[x]]
      PROVE  Conserved(c)'
  <2>1. Taken(c)' = Taken(c)
    BY <1>4 DEF Taken
  <2>2. c \in Semaphores => c # o
    BY CountedType
  <2>3. c \in Signals => signaled'[c] = (c = o \/ signaled[c])
    BY <1>4 DEF TypeOK
  <2>4. credit'[c] = IF c = o /\ ~signaled[c] THEN credit[c] + 1 ELSE credit[c]
    BY <1>4
  <2>5. CASE c = o /\ ~signaled[c]
    <3>1. Available(c)' = 1 /\ Available(c) = 0 /\ credit'[c] = credit[c] + 1
      BY <1>4, <2>2, <2>3, <2>4, <2>5 DEF Available
    <3> QED BY <1>0, <2>1, <3>1 DEF Conserved
  <2>6. CASE ~(c = o /\ ~signaled[c])
    <3>1. Available(c)' = Available(c) /\ credit'[c] = credit[c]
      BY <1>4, <2>2, <2>3, <2>4, <2>6, CountedType DEF Available
    <3> QED BY <1>0, <2>1, <3>1 DEF Conserved
  <2> QED BY <2>5, <2>6
<1>5. ASSUME NEW o \in Signals, Clear(o), UNCHANGED <<count, took>>
      PROVE  Conserved(c)'
  <2>1. Taken(c)' = Taken(c)
    BY <1>5 DEF Taken
  <2>2. c \in Semaphores => c # o
    BY CountedType
  <2>3. c \in Signals => signaled'[c] = (c # o /\ signaled[c])
    BY <1>5 DEF Clear, TypeOK
  <2>4. credit'[c] = IF c = o /\ signaled[c] THEN credit[c] - 1 ELSE credit[c]
    BY <1>5 DEF Clear
  <2>5. CASE c = o /\ signaled[c]
    <3>1. Available(c)' = 0 /\ Available(c) = 1 /\ credit'[c] = credit[c] - 1
      BY <1>5, <2>2, <2>3, <2>4, <2>5 DEF Available
    <3> QED BY <1>0, <2>1, <3>1 DEF Conserved
  <2>6. CASE ~(c = o /\ signaled[c])
    <3>1. Available(c)' = Available(c) /\ credit'[c] = credit[c]
      BY <1>5, <2>2, <2>3, <2>4, <2>6, CountedType DEF Available
    <3> QED BY <1>0, <2>1, <3>1 DEF Conserved
  <2> QED BY <2>5, <2>6
\* the reply tells the client what was taken for it
<1>6. ASSUME NEW t \in Threads, Return(t, took[t]), UNCHANGED objVars
      PROVE  Conserved(c)'
  <2>1. /\ took'[t] = {} /\ \A u \in Threads : u # t => took'[u] = took[u]
        /\ credit'[c] = IF c \in took[t] THEN credit[c] - 1 ELSE credit[c]
    BY <1>6 DEF Return, TypeOK
  <2>2. Available(c)' = Available(c)
    BY <1>6 DEF Available, objVars
  <2>3. CASE c \in took[t]
    <3>1. Cardinality(Taken(c)') = N - 1
      BY <2>1, <2>3, TakenLess
    <3>2. credit'[c] = credit[c] - 1
      BY <2>1, <2>3
    <3> QED BY <1>0, <2>2, <3>1, <3>2 DEF Conserved
  <2>4. CASE c \notin took[t]
    <3>1. Taken(c)' = Taken(c)
      BY <2>1, <2>4, TakenAlike
    <3> QED BY <1>0, <2>1, <2>2, <2>4, <3>1 DEF Conserved
  <2> QED BY <2>3, <2>4
<1>7. ASSUME NEW t \in Threads, Return(t, {}), UNCHANGED objVars, ~done[t]
      PROVE  Conserved(c)'
  BY <1>6, <1>7 DEF HandInv
<1>8. ASSUME NEW t \in Threads, Request(t)
      PROVE  Conserved(c)'
  <2>0. 1 \in Nat /\ \A x \in Mutexes \cup Semaphores : x \notin Events
    BY ObjectsAssumption
  <2>1. CASE \E r \in Requests : Select(t, r)
    BY <1>1, <2>1 DEF Select, objVars, ghostVars
  <2>2. CASE \E e \in Events : SetEvent(t, e)
    BY <1>3, <2>0, <2>2 DEF SetEvent
  <2>3. CASE \E x \in Mutexes : ReleaseMutex(t, x)
    BY <1>3, <2>0, <2>3 DEF ReleaseMutex
  <2>4. ASSUME NEW s \in Semaphores, NEW n \in 1..SemMax, ReleaseSemaphore(t, s, n)
        PROVE  Conserved(c)'
    BY <1>3, <2>0, <2>4, BoundsAssumption DEF ReleaseSemaphore
  <2>5. CASE GetTimerInfo(t) \/ ExitThread(t)
    BY <1>1, <2>5 DEF GetTimerInfo, ExitThread, objVars, ghostVars
  <2>6. CASE \E e \in Events : ResetEvent(t, e)
    BY <1>5, <2>6 DEF ResetEvent, Signals
  <2>7. CASE \E e \in Events : PulseEvent(t, e)
    BY <1>4, <2>7 DEF PulseEvent, Signals
  <2>8. CASE \E o \in Timers : CancelTimer(t, o) \/ \E p \in BOOLEAN : SetTimer(t, o, p)
    BY <1>5, <2>8 DEF CancelTimer, SetTimer, Signals
  <2>9. CASE \E o \in Closable : CloseHandle(t, o)
    BY <1>1, <2>9 DEF CloseHandle, objVars, ghostVars
  <2>10. CASE \E u \in Threads : SuspendThread(t, u) \/ ResumeThread(t, u) \/ QueueApc(t, u)
    BY <1>1, <2>10 DEF SuspendThread, ResumeThread, QueueApc, objVars, ghostVars
  <2> QED BY <1>8, <2>1, <2>2, <2>3, <2>4, <2>5, <2>6, <2>7, <2>8, <2>9, <2>10 DEF Request
<1>9. ASSUME NEW t \in Threads, Serve(t)
      PROVE  Conserved(c)'
  <2>1. CASE EndCall(t) \/ Park(t) \/ GoOn(t) \/ NoApc(t) \/ TimersDone(t) \/ GoToSleep(t)
             \/ WakeJoiners(t) \/ EndThread(t) \/ \E m \in Mutexes : AbandonMutex(t, m)
    BY <1>1, <2>1 DEF EndCall, Park, GoOn, NoApc, TimersDone, GoToSleep, WakeJoiners,
       EndThread, AbandonMutex, objVars, ghostVars
  <2>2. CASE EndPulse(t)
    BY <1>5, <2>2 DEF EndPulse, LockInv, Signals
  <2>3. CASE \E o \in Timers : FireTimer(t, o)
    BY <1>4, <2>3 DEF FireTimer, Signals
  <2>4. CASE Collect(t)
    BY <1>6, <2>4 DEF Collect
  <2>5. CASE TakeAsync(t)
    <3>1. ~done[t]
      BY <2>5 DEF TakeAsync, Stage, HandInv
    <3> QED BY <1>7, <2>5, <3>1 DEF TakeAsync
  <2>6. CASE TakeApc(t)
    <3>1. ~done[t]
      BY <2>6 DEF TakeApc, Stage, HandInv
    <3> QED BY <1>7, <2>6, <3>1 DEF TakeApc
  <2>7. CASE TimedOut(t)
    BY <1>7, <2>7 DEF TimedOut
  <2>8. CASE SignalFirst(t)
    <3>1. CASE req[t].objs[1] \in open /\ CanSignal(t, req[t].signal, 1)
      BY <1>3, <2>8, <3>1 DEF SignalFirst
    <3>2. CASE ~(req[t].objs[1] \in open /\ CanSignal(t, req[t].signal, 1))
      BY <1>7, <2>8, <3>2 DEF SignalFirst
    <3> QED BY <3>1, <3>2
  <2>9. CASE Satisfied(t)
    <3>1. CASE done[t]
      BY <1>6, <2>9, <3>1 DEF Satisfied
    <3>2. CASE ~done[t]
      <4>1. Consume(t, Takes(t)) /\ Return(t, Takes(t)) /\ took[t] = {}
        BY <2>9, <3>2 DEF Satisfied, HandInv
      <4>2. /\ took'[t] = {} /\ \A u \in Threads : u # t => took'[u] = took[u]
            /\ credit'[c] = IF c \in Takes(t) THEN credit[c] - 1 ELSE credit[c]
        BY <4>1 DEF Return, TypeOK
      <4>3. Taken(c)' = Taken(c)
        BY <4>1, <4>2, TakenAlike
      <4>4. Available(c)' = IF c \in Takes(t) THEN Available(c) - 1 ELSE Available(c)
        BY <4>1, ConsumeCounted
      <4> QED BY <1>0, <4>2, <4>3, <4>4 DEF Conserved
    <3> QED BY <3>1, <3>2
  <2> QED BY <1>9, <2>1, <2>2, <2>3, <2>4, <2>5, <2>6, <2>7, <2>8, <2>9 DEF Serve
<1>10. ASSUME NEW t \in Threads, Reenter(t)
       PROVE  Conserved(c)'
  <2>1. CASE Unpark(t)
    BY <1>1, <1>6, <2>1 DEF Unpark, objVars, ghostVars
  <2>2. CASE Wake(t) \/ InitThread(t)
    BY <1>1, <2>2 DEF Wake, InitThread, objVars, ghostVars
  <2> QED BY <1>10, <2>1, <2>2 DEF Reenter
<1>11. CASE Environment
  BY <1>1, <1>11 DEF Environment, Tick, PollAsync, objVars, ghostVars
<1>12. CASE UNCHANGED vars
  BY <1>1, <1>12 DEF vars, objVars, ghostVars
<1> QED BY <1>2, <1>8, <1>9, <1>10, <1>11, <1>12 DEF Next

\* Every signal given to a semaphore, an auto-reset event or an auto-reset timer is
\* still there, in hand of exactly one wait, or told to one client (or cleared).
THEOREM NoSignalLost == Spec => []SignalsConserved
<1>1. Init => HandInv
  BY DEF Init, HandInv
<1>2. Init => SignalsConserved
  <2> SUFFICES ASSUME Init, NEW c \in Counted
               PROVE  Available(c) + Cardinality({t \in Threads : c \in took[t]}) = credit[c]
    BY DEF SignalsConserved
  <2>1. {t \in Threads : c \in took[t]} = {}
    BY DEF Init
  <2>2. Cardinality({t \in Threads : c \in took[t]}) = 0
    BY <2>1, FS_EmptySet
  <2>3. c \in Semaphores \/ (c \in Signals /\ c \notin Semaphores)
    BY DEF Counted
  <2>4. Available(c) = credit[c] /\ credit[c] \in Nat
    BY <2>3, BoundsAssumption DEF Init, Available
  <2> QED BY <2>2, <2>4
<1> QED BY <1>1, <1>2, StructureKept, HandStep, ConserveStep, PTL DEF Spec

-----------------------------------------------------------------------------
(* What a thread leaves behind                                               *)

\* Unlinking one thread leaves the other links where they are.
LEMMA ExactUnqueue ==
    ASSUME TypeOK, LinkInv, ExactInv, NEW t \in Threads, Unqueue(t),
           \A u \in Threads : u # t => req'[u] = req[u]
    PROVE  ExactInv'
<1> SUFFICES ASSUME NEW o \in Objects, NEW u \in Elements(waiters'[o])
             PROVE  o \in Elements(req'[u].objs)
  BY DEF ExactInv, Elements
<1>1. waiters'[o] = Without(waiters[o], t) /\ waiters[o] \in Seq(Threads)
  BY DEF Unqueue, TypeOK
<1>2. u \in Elements(waiters[o]) /\ u # t
  BY <1>1, WithoutRemoves DEF LinkInv
<1>3. u \in Threads
  BY <1>1, <1>2 DEF Elements
<1> QED BY <1>2, <1>3 DEF ExactInv

\* Every step keeps the links exact.
LEMMA ExactStep == TypeOK /\ LoopInv /\ LinkInv /\ HandInv /\ ExactInv /\ [Next]_vars => ExactInv'
<1> SUFFICES ASSUME TypeOK, LoopInv, LinkInv, HandInv, ExactInv, [Next]_vars
             PROVE  ExactInv'
  OBVIOUS
<1> USE DEF waitVars
<1>1. ASSUME UNCHANGED <<waiters, req>>
      PROVE  ExactInv'
  BY <1>1 DEF ExactInv, Elements
<1>2. ASSUME NEW t \in Threads, NEW S, Return(t, S)
      PROVE  ExactInv'
  BY <1>2, ExactUnqueue DEF Return, TypeOK
<1>3. CASE Visit
  BY <1>1, <1>3 DEF Visit
<1>4. ASSUME NEW t \in Threads, Request(t)
      PROVE  ExactInv'
  <2>1. ASSUME NEW r \in Requests, Select(t, r)
        PROVE  ExactInv'
    <3>1. /\ mode[t] = "new" /\ waiters' = waiters
          /\ \A u \in Threads : u # t => req'[u] = req[u]
      BY <2>1 DEF Select, Enter, HandInv, TypeOK
    <3>2. \A o \in Objects : \A u \in Elements(waiters[o]) : u \in Threads /\ u # t
      <4>1. \A o \in Objects : waiters[o] \in Seq(Threads)
        BY DEF TypeOK
      <4>2. \A o \in Objects : \A u \in Elements(waiters[o]) : u \in Threads
        BY <4>1 DEF Elements
      <4> QED BY <3>1, <4>2 DEF LinkInv
    <3> QED BY <3>1, <3>2 DEF ExactInv, Elements
  <2>2. CASE UNCHANGED waitVars
    BY <1>1, <2>2
  <2>3. UNCHANGED waitVars \/ \E r \in Requests : Select(t, r)
    BY <1>4 DEF Request, SetEvent, ResetEvent, PulseEvent, ReleaseMutex, ReleaseSemaphore,
       CancelTimer, SetTimer, GetTimerInfo, CloseHandle, SuspendThread, ResumeThread,
       QueueApc, ExitThread
  <2> QED BY <2>1, <2>2, <2>3
<1>5. ASSUME NEW t \in Threads, Serve(t)
      PROVE  ExactInv'
  <2>1. CASE Park(t)
    BY <1>1, <2>1, ExactUnqueue DEF Park
  <2>2. CASE Collect(t) \/ TakeAsync(t) \/ TakeApc(t) \/ Satisfied(t) \/ TimedOut(t)
    BY <1>2, <2>2 DEF Collect, TakeAsync, TakeApc, Satisfied, TimedOut
  <2>3. CASE SignalFirst(t)
    BY <1>1, <1>2, <2>3 DEF SignalFirst
  <2>4. CASE GoToSleep(t)
    <3>1. CASE Queue(t)
      <4> SUFFICES ASSUME NEW o \in Objects, NEW u \in Elements(waiters'[o])
                   PROVE  o \in Elements(req[u].objs)
        BY <2>4 DEF GoToSleep, ExactInv, Elements
      <4>1. waiters[o] \in Seq(Threads)
        BY DEF TypeOK
      <4>2. CASE o \in Elements(req[t].objs)
        <5>1. u \in Elements(waiters[o]) \cup {t}
          BY <3>1, <4>1, <4>2, AppendElements DEF Queue
        <5> QED BY <4>2, <5>1 DEF ExactInv
      <4>3. CASE o \notin Elements(req[t].objs)
        BY <3>1, <4>3 DEF Queue, ExactInv
      <4> QED BY <4>2, <4>3
    <3>2. CASE UNCHANGED waiters
      BY <1>1, <2>4, <3>2 DEF GoToSleep
    <3> QED BY <2>4, <3>1, <3>2 DEF GoToSleep
  <2>5. CASE \/ EndCall(t) \/ EndPulse(t) \/ GoOn(t) \/ NoApc(t) \/ TimersDone(t)
             \/ WakeJoiners(t) \/ EndThread(t) \/ (\E o \in Timers : FireTimer(t, o))
             \/ \E m \in Mutexes : AbandonMutex(t, m)
    BY <1>1, <2>5 DEF EndCall, EndPulse, GoOn, NoApc, TimersDone, WakeJoiners, EndThread,
       FireTimer, AbandonMutex
  <2> QED BY <1>5, <2>1, <2>2, <2>3, <2>4, <2>5 DEF Serve
<1>6. ASSUME NEW t \in Threads, Reenter(t)
      PROVE  ExactInv'
  BY <1>1, <1>2, <1>6 DEF Reenter, Wake, Unpark, InitThread
<1>7. CASE Environment
  BY <1>1, <1>7 DEF Environment, Tick, PollAsync
<1>8. CASE UNCHANGED vars
  BY <1>1, <1>8 DEF vars
<1> QED BY <1>3, <1>4, <1>5, <1>6, <1>7, <1>8 DEF Next

\* Only a wait acquires a mutex, for the thread whose wait it is.
LEMMA OnlyWaitsAcquire ==
    ASSUME TypeOK, LockInv, LoopInv, [Next]_vars, NEW t \in Threads, NEW m \in Mutexes,
           pc[t] \notin {"top", "apc", "timers", "test", "asleep"},
           mutex'[m].count > 0, mutex'[m].owner = t
    PROVE  mutex[m].count > 0 /\ mutex[m].owner = t
<1> USE DEF waitVars
<1>0. mutex[m].count \in Nat /\ t # None
  BY ObjectsAssumption DEF TypeOK, MutexType, Objects
<1>1. ASSUME NEW u \in Threads, NEW S, u # t, Consume(u, S)
      PROVE  mutex[m].count > 0 /\ mutex[m].owner = t
  BY <1>1 DEF Consume, Acquire
<1>2. ASSUME NEW u, NEW o, NEW n, DoSignal(u, o, n)
      PROVE  mutex[m].count > 0 /\ mutex[m].owner = t
  BY <1>0, <1>2 DEF DoSignal, Release
<1>3. CASE mutex' = mutex
  BY <1>3
<1>4. CASE Visit
  <2>1. PICK h \in Threads : h = Head(walk) /\ h \in Elements(walk)
    BY <1>4, HeadTail DEF Visit, TypeOK
  <2>2. h # t
    BY <2>1 DEF LockInv, LoopInv
  <2>3. CASE Consume(h, Takes(h))
    BY <1>1, <2>2, <2>3
  <2> QED BY <1>3, <1>4, <2>1, <2>3 DEF Visit, objVars
<1>5. ASSUME NEW u \in Threads, Request(u)
      PROVE  mutex[m].count > 0 /\ mutex[m].owner = t
  <2>1. CASE mutex' = mutex
    BY <1>3, <2>1
  <2>2. mutex' = mutex \/ \E o, n : DoSignal(u, o, n)
    BY <1>5 DEF Request, Select, SetEvent, ResetEvent, PulseEvent, ReleaseMutex,
       ReleaseSemaphore, CancelTimer, SetTimer, GetTimerInfo, CloseHandle, SuspendThread,
       ResumeThread, QueueApc, ExitThread, objVars
  <2> QED BY <1>2, <2>1, <2>2
<1>6. ASSUME NEW u \in Threads, Serve(u)
      PROVE  mutex[m].count > 0 /\ mutex[m].owner = t
  <2>1. CASE Satisfied(u)
    <3>1. u # t
      BY <2>1 DEF Satisfied, Stage
    <3> QED BY <1>1, <1>3, <2>1, <3>1 DEF Satisfied, objVars
  <2>2. CASE SignalFirst(u)
    BY <1>2, <1>3, <2>2 DEF SignalFirst, objVars
  <2>3. CASE \E x \in Mutexes : AbandonMutex(u, x)
    BY <1>0, <2>3 DEF AbandonMutex, Abandoned, TypeOK
  <2>4. CASE \/ EndCall(u) \/ EndPulse(u) \/ Park(u) \/ Collect(u) \/ GoOn(u) \/ TakeAsync(u)
             \/ TakeApc(u) \/ NoApc(u) \/ TimersDone(u) \/ TimedOut(u) \/ GoToSleep(u)
             \/ WakeJoiners(u) \/ EndThread(u) \/ \E o \in Timers : FireTimer(u, o)
    BY <1>3, <2>4 DEF EndCall, EndPulse, Park, Collect, GoOn, TakeAsync, TakeApc, NoApc,
       TimersDone, TimedOut, GoToSleep, WakeJoiners, EndThread, FireTimer, objVars
  <2> QED BY <1>6, <2>1, <2>2, <2>3, <2>4 DEF Serve
<1>7. ASSUME NEW u \in Threads, Reenter(u)
      PROVE  mutex[m].count > 0 /\ mutex[m].owner = t
  BY <1>3, <1>7 DEF Reenter, Wake, Unpark, InitThread, objVars
<1>8. CASE Environment
  BY <1>3, <1>8 DEF Environment, Tick, PollAsync, objVars
<1>9. CASE UNCHANGED vars
  BY <1>3, <1>9 DEF vars, objVars
<1> QED BY <1>4, <1>5, <1>6, <1>7, <1>8, <1>9 DEF Next

\* A thread comes to its end through WakeJoiners, which finds no mutex left.
LEMMA EndStep == TypeOK /\ LockInv /\ LoopInv /\ EndInv /\ [Next]_vars => EndInv'
<1> SUFFICES ASSUME TypeOK, LockInv, LoopInv, EndInv, [Next]_vars, NEW t \in Threads,
                    pc'[t] \in {"joining", "ended"}, NEW m \in OwnedOpen(t)'
             PROVE  FALSE
  BY DEF EndInv
<1> USE DEF waitVars
<1>1. open' \subseteq open
  <2>1. ASSUME NEW u \in Threads, Request(u)
        PROVE  open' \subseteq open
    BY <2>1 DEF Request, Select, SetEvent, ResetEvent, PulseEvent, ReleaseMutex,
       ReleaseSemaphore, CancelTimer, SetTimer, GetTimerInfo, CloseHandle, SuspendThread,
       ResumeThread, QueueApc, ExitThread
  <2>2. ASSUME NEW u \in Threads, Serve(u)
        PROVE  open' = open
    BY <2>2 DEF Serve, EndCall, EndPulse, Park, Collect, SignalFirst, GoOn, TakeAsync, TakeApc,
       NoApc, FireTimer, TimersDone, Satisfied, TimedOut, GoToSleep, AbandonMutex, WakeJoiners,
       EndThread
  <2>3. ASSUME NEW u \in Threads, Reenter(u)
        PROVE  open' = open
    BY <2>3 DEF Reenter, Wake, Unpark, InitThread
  <2> QED BY <2>1, <2>2, <2>3 DEF Next, Visit, Environment, Tick, PollAsync, vars
<1>2. /\ m \in Mutexes /\ m \in open /\ mutex'[m].count > 0 /\ mutex'[m].owner = t
  BY <1>1 DEF OwnedOpen
<1>3. \/ pc[t] \in {"joining", "ended"}
      \/ WakeJoiners(t)
  <2>1. ASSUME NEW u \in Threads, Request(u)
        PROVE  pc'[t] = pc[t]
    BY <2>1, ZenonT(30) DEF Request, Select, SetEvent, ResetEvent, PulseEvent, ReleaseMutex,
       ReleaseSemaphore, CancelTimer, SetTimer, GetTimerInfo, CloseHandle, SuspendThread,
       ResumeThread, QueueApc, ExitThread, Enter, TypeOK
  <2>2. ASSUME NEW u \in Threads, Serve(u)
        PROVE  pc[t] \in {"joining", "ended"} \/ WakeJoiners(t)
    <3>1. CASE Collect(u) \/ TakeAsync(u) \/ TakeApc(u) \/ Satisfied(u) \/ TimedOut(u)
      BY <3>1 DEF Collect, TakeAsync, TakeApc, Satisfied, TimedOut, Return, Leave, TypeOK
    <3>2. CASE EndCall(u) \/ EndPulse(u) \/ Park(u) \/ GoOn(u) \/ NoApc(u) \/ TimersDone(u)
      BY <3>2 DEF EndCall, EndPulse, Park, GoOn, NoApc, TimersDone, Leave, Goto, TypeOK
    <3>3. CASE SignalFirst(u) \/ GoToSleep(u)
      BY <3>3 DEF SignalFirst, GoToSleep, Return, Leave, Goto, TypeOK
    <3>4. CASE (\E o \in Timers : FireTimer(u, o)) \/ \E x \in Mutexes : AbandonMutex(u, x)
      BY <3>4 DEF FireTimer, AbandonMutex
    <3>5. CASE WakeJoiners(u)
      BY <3>5 DEF WakeJoiners, Goto, TypeOK
    <3>6. CASE EndThread(u)
      BY <3>6 DEF EndThread, Stage, Goto, TypeOK
    <3> QED BY <2>2, <3>1, <3>2, <3>3, <3>4, <3>5, <3>6 DEF Serve
  <2>3. ASSUME NEW u \in Threads, Reenter(u)
        PROVE  pc'[t] = pc[t]
    BY <2>3 DEF Reenter, Wake, Unpark, InitThread, Return, Leave, Goto, TypeOK
  <2> QED BY <2>1, <2>2, <2>3 DEF Next, Visit, Environment, Tick, PollAsync, vars
<1>4. pc[t] \notin {"top", "apc", "timers", "test", "asleep"}
  BY <1>3 DEF WakeJoiners, Stage
<1>5. m \in OwnedOpen(t)
  BY <1>2, <1>4, OnlyWaitsAcquire DEF OwnedOpen
<1> QED BY <1>3, <1>5 DEF EndInv, WakeJoiners

\* Whoever leaves, leaves nothing behind: no mutex with a handle is owned by a thread
\* that has ended, and no link is left in a list once its select has returned.
THEOREM NothingLeft == Spec => []LeavesNothing
<1>1. Init => HandInv
  BY DEF Init, HandInv
<1>2. Init => ExactInv
  BY DEF Init, ExactInv, Elements
<1>3. Init => EndInv
  BY DEF Init, EndInv
<1>4. EndInv => NoOrphanedMutex
  BY DEF EndInv, NoOrphanedMutex
<1>5. TypeOK /\ LinkInv /\ ExactInv => LinksMatchQueue
  <2> SUFFICES ASSUME TypeOK, LinkInv, ExactInv, NEW o \in Objects, NEW t \in Threads
               PROVE  Cardinality({i \in DOMAIN waiters[o] : waiters[o][i] = t})
                        = IF mode[t] = "queued" /\ o \in Elements(req[t].objs) THEN 1 ELSE 0
    BY DEF LinksMatchQueue
  <2>1. CASE mode[t] = "queued" /\ o \in Elements(req[t].objs)
    <3>1. PICK i \in DOMAIN waiters[o] : waiters[o][i] = t
      BY <2>1 DEF LinkInv, Elements
    <3>2. {j \in DOMAIN waiters[o] : waiters[o][j] = t} = {i}
      BY <3>1 DEF LinkInv
    <3>3. Cardinality({i}) = 1
      BY FS_Singleton
    <3> QED BY <2>1, <3>2, <3>3
  <2>2. CASE ~(mode[t] = "queued" /\ o \in Elements(req[t].objs))
    <3>1. t \notin Elements(waiters[o])
      BY <2>2 DEF LinkInv, ExactInv
    <3>2. {j \in DOMAIN waiters[o] : waiters[o][j] = t} = {}
      BY <3>1 DEF Elements
    <3>3. Cardinality({}) = 0
      BY FS_EmptySet
    <3> QED BY <2>2, <3>2, <3>3
  <2> QED BY <2>1, <2>2
<1>6. LeavesNothing <=> NoOrphanedMutex /\ LinksMatchQueue
  BY DEF LeavesNothing
<1> QED BY <1>1, <1>2, <1>3, <1>4, <1>5, <1>6, StructureKept, HandStep, ExactStep, EndStep,
           PTL DEF Spec

-----------------------------------------------------------------------------
(* No wait sleeps through what it waits for, and none is overtaken: the      *)
(* proofs of NoLostWakeup, SuspendedStaysInside and NoOvertaking.            *)
\* What WakeInv says of a sleeper that has not been woken.
WakeAt(u) == ~done[u] /\ (~ToCome(u) => TimesOut(u) /\ ~MustLook(u))

\* While nobody walks a list or ends, nothing is still to come.
LEMMA NothingToCome ==
    ASSUME TypeOK, walk = <<>>, lock \in Threads => pc[lock] # "ending", NEW u
    PROVE  ~ToCome(u)
BY DEF JoinsEnding, ToCome, Elements

\* A wait that times out still does if none of its objects was closed or became
\* signaled for it.
LEMMA TimesOutKept ==
    ASSUME TypeOK, NEW u \in Threads, TimesOut(u), req'[u] = req[u],
           \A o \in Elements(req[u].objs) :
              (o \in open => o \in open') /\ (IsSignaled(o, u)' => IsSignaled(o, u))
    PROVE  TimesOut(u)'
<1>1. \A i \in DOMAIN req[u].objs : req[u].objs[i] \in Elements(req[u].objs)
  BY DEF Elements
<1>2. \A i \in DOMAIN req[u].objs : NotReady(req[u].objs[i], u) => NotReady(req[u].objs[i], u)'
  BY <1>1 DEF NotReady
<1>3. CASE req[u].all
  <2>1. PICK i \in DOMAIN req[u].objs : /\ NotReady(req[u].objs[i], u)
                                         /\ \A j \in 1..(i - 1) : req[u].objs[j] \in open
    BY <1>3 DEF TimesOut
  <2>2. req[u].objs \in Seq(Objects)
    BY RequestTyped
  <2>3. \A j \in 1..(i - 1) : j \in DOMAIN req[u].objs
    BY <2>2
  <2>4. \A j \in 1..(i - 1) : req[u].objs[j] \in open'
    BY <1>1, <2>1, <2>3
  <2> QED BY <1>2, <1>3, <2>1, <2>4 DEF TimesOut, NotReady
<1>4. CASE ~req[u].all
  BY <1>2, <1>4 DEF TimesOut, NotReady
<1> QED BY <1>3, <1>4

\* A sleeper stays covered by a step that disturbs nothing it depends on, or after
\* which somebody still comes to it.
LEMMA WakeOne ==
    ASSUME TypeOK, WakeInv, NEW u \in Threads, Unwoken(u),
           req'[u] = req[u], done'[u] = done[u],
           ToCome(u) => ToCome(u)',
           MustLook(u)' => MustLook(u),
           \/ ToCome(u)'
           \/ \A o \in Elements(req[u].objs) :
                 (o \in open => o \in open') /\ (IsSignaled(o, u)' => IsSignaled(o, u))
    PROVE  WakeAt(u)'
<1>1. ~done[u] /\ (~ToCome(u) => TimesOut(u) /\ ~MustLook(u))
  BY DEF WakeInv
<1>2. CASE ToCome(u)'
  BY <1>1, <1>2 DEF WakeAt
<1>3. CASE ~ToCome(u)'
  BY <1>1, <1>3, TimesOutKept DEF WakeAt
<1> QED BY <1>2, <1>3

\* What one thread consumes is not signaled for another by that.
LEMMA ConsumeMonotone ==
    ASSUME TypeOK, NEW t \in Threads, NEW u \in Threads, t # u, NEW S, Consume(t, S),
           NEW o \in Objects, IsSignaled(o, u)', o \in Threads => (Terminated(o)' => Terminated(o))
    PROVE  IsSignaled(o, u)
<1>1. CASE o \in Signals
  BY <1>1, ObjectsAssumption DEF IsSignaled, Consume, Signals
<1>2. CASE o \in Mutexes
  <2>1. MutexSignaled(o, u)'
    BY <1>2, ObjectsAssumption DEF IsSignaled, Signals
  <2>2. CASE o \in S
    <3>1. mutex'[o].owner = t /\ mutex'[o].count # 0
      BY <1>2, <2>2 DEF Consume, Acquire, TypeOK, MutexType
    <3> QED BY <2>1, <3>1 DEF MutexSignaled
  <2>3. CASE o \notin S
    BY <1>2, <2>1, <2>3 DEF Consume, MutexSignaled, IsSignaled
  <2> QED BY <2>2, <2>3
<1>3. CASE o \in Semaphores
  BY <1>3, ObjectsAssumption DEF IsSignaled, Consume, Signals, TypeOK
<1>4. CASE o \in Threads
  BY <1>4, ObjectsAssumption DEF IsSignaled, Signals
<1> QED BY <1>1, <1>2, <1>3, <1>4 DEF Objects

\* The walk that a signal starts comes to every sleeper that names the object, and
\* the sleepers in no list were woken.
LEMMA WakeWalk ==
    ASSUME TypeOK, LoopInv, LinkInv, WakeInv, NEW u \in Threads, Unwoken(u), ~notified'[u],
           NEW o \in Objects, StartWalk(o), walk = <<>>,
           req'[u] = req[u], done'[u] = done[u], open' = open,
           ToCome(u) => ToCome(u)' \/ o \in Elements(req[u].objs),
           MustLook(u)' => MustLook(u),
           \A x \in Objects : x # o => (IsSignaled(x, u)' => IsSignaled(x, u))
    PROVE  WakeAt(u)'
<1>1. mode[u] = "queued"
  BY DEF Unwoken, LoopInv, StartWalk, Notify, LegacySleepers, Sleepers, Queued, TypeOK
<1>2. CASE o \in Elements(req[u].objs)
  <2>1. u \in Elements(waiters[o])
    BY <1>1, <1>2 DEF LinkInv
  <2>2. ToCome(u)'
    BY <2>1 DEF StartWalk, JoinsEnding, ToCome
  <2> QED BY <2>2, WakeOne
<1>3. CASE o \notin Elements(req[u].objs)
  <2>1. \A x \in Elements(req[u].objs) : x \in Objects /\ x # o
    BY <1>3, RequestTyped DEF Elements
  <2> QED BY <1>3, <2>1, WakeOne
<1> QED BY <1>2, <1>3

\* The same for signal_object and its like, which wake nobody when they change
\* nothing a waiter can see.
LEMMA WakeSignal ==
    ASSUME TypeOK, LoopInv, LinkInv, WakeInv, NEW u \in Threads, Unwoken(u), ~notified'[u],
           NEW t \in Threads, NEW o, NEW n \in 1..SemMax, CanSignal(t, o, n), DoSignal(t, o, n),
           walk = <<>>, ~ToCome(u),
           req'[u] = req[u], done'[u] = done[u], open' = open, MustLook(u)' => MustLook(u),
           \A x \in Threads : Terminated(x)' => Terminated(x)
    PROVE  WakeAt(u)'
<1>0. o \in Objects
  BY DEF CanSignal, TypeOK
<1>1. \A x \in Objects : x # o => (IsSignaled(x, u)' => IsSignaled(x, u))
  BY DEF DoSignal, IsSignaled, MutexSignaled
<1>2. CASE Wakes(o)
  BY <1>0, <1>1, <1>2, WakeWalk DEF DoSignal
<1>3. CASE ~Wakes(o)
  <2>1. CASE o \in Events
    <3>1. signaled[o]
      BY <1>3, <2>1 DEF Wakes
    <3>2. IsSignaled(o, u)
      BY <2>1, <3>1 DEF IsSignaled, Signals
    <3>3. \A x \in Elements(req[u].objs) : x \in Objects
      BY RequestTyped DEF Elements
    <3> QED BY <1>1, <3>2, <3>3, WakeOne
  <2>2. CASE o \in Mutexes
    <3>1. mutex[o].count \in Nat /\ mutex[o].count > 0 /\ mutex[o].count # 1
      BY <1>3, <2>2, ObjectsAssumption DEF Wakes, CanSignal, TypeOK, MutexType
    <3>2. mutex'[o] = Release(mutex[o])
      BY <2>2 DEF DoSignal
    <3>3. mutex'[o].owner = mutex[o].owner /\ mutex'[o].count # 0
      BY <3>1, <3>2 DEF Release
    <3>4. IsSignaled(o, u)' => IsSignaled(o, u)
      BY <2>2, <3>3, ObjectsAssumption DEF IsSignaled, MutexSignaled, Signals
    <3>5. \A x \in Elements(req[u].objs) : x \in Objects
      BY RequestTyped DEF Elements
    <3> QED BY <1>1, <3>4, <3>5, WakeOne
  <2>3. o \in Events \/ o \in Mutexes
    BY <1>3 DEF CanSignal, Wakes
  <2> QED BY <2>1, <2>2, <2>3
<1> QED BY <1>2, <1>3

\* A step that moves one thread to a stage where it neither sleeps nor ends.
Moves(t, stage) ==
    /\ lock \in {None, t} /\ walk = <<>> /\ pc[t] # "ending"
    /\ pc' = [pc EXCEPT ![t] = stage] /\ open' = open
    /\ stage \in Stages \ {"asleep", "ending", "joining", "ended"}

\* Such a step ends no thread, and the sleepers it leaves are others, to whom
\* nobody was to come.
LEMMA MovesOthers ==
    ASSUME TypeOK, NEW t \in Threads, NEW stage, Moves(t, stage)
    PROVE  /\ \A x \in Threads : Terminated(x)' => Terminated(x)
           /\ \A u \in Threads : pc'[u] = "asleep" => u # t /\ pc[u] = "asleep" /\ ~ToCome(u)
<1>1. \A x \in Threads : Terminated(x)' => Terminated(x)
  BY DEF Moves, Terminated, TypeOK
<1>2. \A u \in Threads : pc'[u] = "asleep" => u # t /\ pc[u] = "asleep"
  BY DEF Moves, TypeOK
<1>3. \A u \in Threads : ~ToCome(u)
  BY NothingToCome, ObjectsAssumption DEF Moves, Objects
<1> QED BY <1>1, <1>2, <1>3

\* Objects that did not change are signaled as before.
LEMMA SeesSame ==
    ASSUME UNCHANGED objVars, \A x \in Threads : Terminated(x)' => Terminated(x), NEW u
    PROVE  \A x \in Objects : IsSignaled(x, u)' => IsSignaled(x, u)
BY DEF objVars, IsSignaled, MutexSignaled

\* Clearing a flag lets nobody go on.
LEMMA SeesLess ==
    ASSUME TypeOK, NEW o, Clear(o), UNCHANGED <<mutex, count>>,
           \A x \in Threads : Terminated(x)' => Terminated(x), NEW u
    PROVE  \A x \in Objects : IsSignaled(x, u)' => IsSignaled(x, u)
<1>1. \A x \in Signals : signaled'[x] => signaled[x]
  BY DEF Clear, TypeOK
<1> QED BY <1>1 DEF IsSignaled, MutexSignaled

\* A step of one thread that shows no sleeper anything new.
LEMMA WakeMove ==
    ASSUME TypeOK, WakeInv, NEW t \in Threads, NEW stage, Moves(t, stage),
           NEW u \in Threads, Unwoken(u)',
           u # t => /\ notified[u] => notified'[u]
                    /\ req'[u] = req[u] /\ done'[u] = done[u]
                    /\ MustLook(u)' => MustLook(u)
                    /\ \A x \in Objects : IsSignaled(x, u)' => IsSignaled(x, u)
    PROVE  WakeAt(u)'
<1>1. u # t /\ Unwoken(u) /\ ~ToCome(u)
  BY MovesOthers DEF Unwoken
<1>2. \A x \in Elements(req[u].objs) : x \in Objects
  BY RequestTyped DEF Elements
<1> QED BY <1>1, <1>2, WakeOne DEF Moves

\* A step of one thread that leaves objects, requests and threads alone.
LEMMA WakeStage ==
    ASSUME TypeOK, WakeInv, NEW t \in Threads, NEW stage, Moves(t, stage),
           NEW u \in Threads, Unwoken(u)',
           UNCHANGED <<objVars, notified, done, threadVars>>,
           u # t => req'[u] = req[u]
    PROVE  WakeAt(u)'
<1>1. \A x \in Objects : IsSignaled(x, u)' => IsSignaled(x, u)
  BY MovesOthers, SeesSame
<1>2. u # t => (MustLook(u)' => MustLook(u))
  BY DEF threadVars, MustLook, ReadyFor
<1> QED BY <1>1, <1>2, WakeMove

\* The reply to a select concerns its own thread only.
LEMMA WakeReturn ==
    ASSUME TypeOK, WakeInv, NEW t \in Threads, NEW S, Return(t, S), NEW u \in Threads,
           Unwoken(u)', lock \in {None, t}, walk = <<>>, pc[t] # "ending", open' = open,
           u # t => /\ MustLook(u)' => MustLook(u)
                    /\ \A x \in Objects : IsSignaled(x, u)' => IsSignaled(x, u)
    PROVE  WakeAt(u)'
<1>1. Moves(t, "idle")
  BY DEF Moves, Return, Leave, Stages
<1>2. u # t => notified'[u] = notified[u] /\ req'[u] = req[u] /\ done'[u] = done[u]
  BY DEF Return, TypeOK
<1> QED BY <1>1, <1>2, WakeMove

\* After a change that wakes everybody nobody is left unwoken.
LEMMA AllWoken ==
    ASSUME TypeOK, LoopInv, SignalChanged, NEW u \in Threads, pc[u] = "asleep"
    PROVE  notified'[u]
BY DEF SignalChanged, Notify, LegacySleepers, Sleepers, Queued, LoopInv, TypeOK

\* Every step keeps WakeInv.
LEMMA WakeStep ==
    TypeOK /\ LockInv /\ LoopInv /\ LinkInv /\ WakeInv /\ [Next]_vars => WakeInv'
<1> SUFFICES ASSUME TypeOK, LockInv, LoopInv, LinkInv, WakeInv, [Next]_vars,
                    NEW u \in Threads, Unwoken(u)'
             PROVE  WakeAt(u)'
  BY DEF WakeInv, WakeAt
<1> USE DEF waitVars
<1>0. \A x \in Threads : x # None
  BY ObjectsAssumption DEF Objects
<1>1. CASE Visit
  <2> DEFINE h == Head(walk)
  <2>0. /\ walk # <<>> /\ walk' = Tail(walk) /\ h \in Threads
        /\ Elements(walk) = {h} \cup Elements(walk')
        /\ UNCHANGED <<lock, pc, req, open, threadVars>>
    BY <1>1, HeadTail DEF Visit, TypeOK
  <2>1. Unwoken(u)
    <3>1. UNCHANGED notified \/ Notify({h})
      BY <1>1 DEF Visit
    <3> QED BY <2>0, <3>1 DEF Unwoken, Notify
  <2>2. ~done[u]
    BY <2>1 DEF WakeInv
  <2>3. \A x \in Threads : Terminated(x)' => Terminated(x)
    BY <2>0 DEF Terminated
  <2>4. MustLook(u)' => MustLook(u)
    BY <2>0 DEF threadVars, MustLook, ReadyFor
  <2>5. CASE u = h
    <3>1. UNCHANGED <<objVars, done>> /\ TimesOut(u) /\ ~MustLook(u)
      <4>1. CASE done[h] \/ (~MustLook(h) /\ TimesOut(h))
        BY <1>1, <2>2, <2>5, <4>1 DEF Visit
      <4>2. CASE ~(done[h] \/ (~MustLook(h) /\ TimesOut(h)))
        <5>1. Notify({h})
          BY <1>1, <4>2 DEF Visit
        <5> QED BY <2>5, <5>1 DEF Notify, Unwoken
      <4> QED BY <4>1, <4>2
    <3>2. \A x \in Objects : IsSignaled(x, u)' => IsSignaled(x, u)
      BY <2>3, <3>1, SeesSame
    <3>3. \A x \in Elements(req[u].objs) : x \in Objects
      BY RequestTyped DEF Elements
    <3>4. TimesOut(u)'
      BY <2>0, <3>1, <3>2, <3>3, TimesOutKept
    <3> QED BY <2>2, <2>4, <3>1, <3>4 DEF WakeAt
  <2>6. CASE u # h
    <3>1. ToCome(u) => ToCome(u)'
      BY <2>0, <2>6 DEF JoinsEnding, ToCome
    <3>2. done'[u] = done[u]
      BY <1>1, <2>6 DEF Visit, TypeOK
    <3>3. \A x \in Objects : IsSignaled(x, u)' => IsSignaled(x, u)
      <4>1. CASE UNCHANGED objVars
        BY <2>3, <4>1, SeesSame
      <4>2. CASE Consume(h, Takes(h))
        BY <2>0, <2>3, <2>6, <4>2, ConsumeMonotone
      <4> QED BY <1>1, <4>1, <4>2 DEF Visit
    <3>4. \A x \in Elements(req[u].objs) : x \in Objects
      BY RequestTyped DEF Elements
    <3> QED BY <2>0, <2>1, <2>4, <3>1, <3>2, <3>3, <3>4, WakeOne
  <2> QED BY <2>5, <2>6
<1>2. ASSUME NEW t \in Threads, Request(t)
      PROVE  WakeAt(u)'
  <2>0. lock = None => walk = <<>>
    BY DEF LockInv
  <2>1. ASSUME NEW r \in Requests, Select(t, r)
        PROVE  WakeAt(u)'
    <3>1. Moves(t, "top")
      BY <2>0, <2>1 DEF Select, Enter, Moves, Stages
    <3>2. u # t => req'[u] = req[u]
      BY <2>1 DEF Select, TypeOK
    <3> QED BY <2>1, <3>1, <3>2, WakeStage DEF Select
  <2>2. ASSUME NEW o, NEW n \in 1..SemMax, Enter(t, "call"), CanSignal(t, o, n),
               DoSignal(t, o, n), UNCHANGED <<target, open, timerVars, waitVars, threadVars>>
        PROVE  WakeAt(u)'
    <3>1. Moves(t, "call")
      BY <2>0, <2>2 DEF Enter, Moves, Stages
    <3>2. /\ \A x \in Threads : Terminated(x)' => Terminated(x)
          /\ pc[u] = "asleep" /\ ~ToCome(u)
      BY <3>1, MovesOthers DEF Unwoken
    <3>3. ~notified[u] /\ ~notified'[u]
      BY <2>2 DEF Unwoken, DoSignal, StartWalk, Notify
    <3>4. MustLook(u)' => MustLook(u)
      BY <2>2 DEF MustLook, ReadyFor, threadVars
    <3> QED BY <2>0, <2>2, <3>2, <3>3, <3>4, WakeSignal DEF Unwoken, Enter
  <2>3. 1 \in 1..SemMax
    BY BoundsAssumption
  <2>4. CASE \E e \in Events : SetEvent(t, e)
    BY <2>2, <2>3, <2>4 DEF SetEvent
  <2>5. CASE \E m \in Mutexes : ReleaseMutex(t, m)
    BY <2>2, <2>3, <2>5 DEF ReleaseMutex
  <2>6. CASE \E s \in Semaphores, n \in 1..SemMax : ReleaseSemaphore(t, s, n)
    BY <2>2, <2>6 DEF ReleaseSemaphore
  <2>7. ASSUME NEW o \in Signals, Brief(t), Clear(o), UNCHANGED <<mutex, count>>,
               UNCHANGED <<lock, walk, open, waitVars, pc, threadVars>>,
               notified[u] => notified'[u]
        PROVE  WakeAt(u)'
    <3>1. Moves(t, "idle")
      BY <2>0, <2>7 DEF Brief, Moves, Stages, TypeOK
    <3>2. \A x \in Objects : IsSignaled(x, u)' => IsSignaled(x, u)
      BY <2>7, <3>1, MovesOthers, SeesLess
    <3>3. MustLook(u)' => MustLook(u)
      BY <2>7 DEF MustLook, ReadyFor, threadVars
    <3> QED BY <2>7, <3>1, <3>2, <3>3, WakeMove
  <2>8. CASE \E e \in Events : ResetEvent(t, e)
    BY <2>7, <2>8 DEF ResetEvent, Signals
  <2>9. CASE \E o \in Timers : CancelTimer(t, o) \/ \E p \in BOOLEAN : SetTimer(t, o, p)
    <3>1. PICK o \in Timers : CancelTimer(t, o) \/ \E p \in BOOLEAN : SetTimer(t, o, p)
      BY <2>9
    <3>2. notified[u] => notified'[u]
      BY <3>1 DEF CancelTimer, SetTimer, NotifyOnly, Notify
    <3> QED BY <2>7, <3>1, <3>2 DEF CancelTimer, SetTimer, Signals
  <2>10. ASSUME NEW e \in Events, PulseEvent(t, e)
         PROVE  WakeAt(u)'
    <3>1. Moves(t, "pulse")
      BY <2>0, <2>10 DEF PulseEvent, Enter, Moves, Stages
    <3>2. /\ \A x \in Threads : Terminated(x)' => Terminated(x)
          /\ pc[u] = "asleep" /\ ~ToCome(u)
      BY <3>1, MovesOthers DEF Unwoken
    <3>3. Unwoken(u) /\ ~notified'[u]
      BY <2>10, <3>2 DEF Unwoken, PulseEvent, StartWalk, Notify
    <3>4. MustLook(u)' => MustLook(u)
      BY <2>10 DEF PulseEvent, MustLook, ReadyFor, threadVars
    <3>5. \A x \in Objects : x # e => (IsSignaled(x, u)' => IsSignaled(x, u))
      <4>1. \A x \in Signals : x # e => signaled'[x] = signaled[x]
        BY <2>10 DEF PulseEvent, TypeOK
      <4> QED BY <2>10, <3>2, <4>1 DEF PulseEvent, IsSignaled, MutexSignaled
    <3> QED BY <2>0, <2>10, <3>2, <3>3, <3>4, <3>5, WakeWalk
            DEF PulseEvent, Enter, Objects, Signals
  <2>11. CASE GetTimerInfo(t)
    <3>1. Moves(t, "info")
      BY <2>0, <2>11 DEF GetTimerInfo, Enter, Moves, Stages
    <3> QED BY <2>11, <3>1, WakeStage DEF GetTimerInfo
  <2>12. ASSUME NEW o \in Closable, CloseHandle(t, o)
         PROVE  WakeAt(u)'
    <3>1. Unwoken(u) /\ ~ToCome(u) /\ UNCHANGED <<pc, req, done, objVars, threadVars>>
      <4>1. pc[u] = "asleep" /\ ~notified[u]
        BY <2>12 DEF CloseHandle, NotifyOnly, Notify, Unwoken
      <4>2. ~ToCome(u)
        BY <1>0, <2>0, <2>12, NothingToCome DEF CloseHandle, Brief
      <4> QED BY <2>12, <4>1, <4>2 DEF CloseHandle, Unwoken
    <3>2. mode[u] = "queued" /\ ~done[u] /\ u \notin Elements(waiters[o])
      BY <2>12, <3>1 DEF Unwoken, LoopInv, WakeInv, CloseHandle, NotifyOnly, Notify,
                         LegacySleepers, Sleepers, Queued, TypeOK
    <3>3. o \notin Elements(req[u].objs)
      BY <2>12, <3>2, ObjectsAssumption DEF LinkInv
    <3>4. \A x \in Objects : IsSignaled(x, u)' => IsSignaled(x, u)
      BY <3>1, SeesSame DEF Terminated
    <3>5. MustLook(u)' => MustLook(u)
      BY <3>1 DEF MustLook, ReadyFor, threadVars
    <3>6. \A x \in Elements(req[u].objs) : x \in Objects /\ x # o
      BY <3>3, RequestTyped DEF Elements
    <3> QED BY <2>12, <3>1, <3>4, <3>5, <3>6, WakeOne DEF CloseHandle
  <2>13. CASE \E v \in Threads : SuspendThread(t, v) \/ ResumeThread(t, v)
    BY <2>13, AllWoken DEF SuspendThread, ResumeThread, Unwoken
  <2>14. ASSUME NEW v \in Threads, QueueApc(t, v)
         PROVE  WakeAt(u)'
    <3>1. Moves(t, "idle")
      BY <2>0, <2>14 DEF QueueApc, Brief, Moves, Stages, TypeOK
    <3>2. ~notified[u] /\ mode[u] = "queued" /\ ~(u = v /\ req[u].alertable)
      BY <2>14 DEF QueueApc, Notify, LegacySleepers, Sleepers, Queued, Unwoken, LoopInv, TypeOK
    <3>3. MustLook(u)' => MustLook(u)
      BY <2>14, <3>2 DEF QueueApc, MustLook, ReadyFor, TypeOK
    <3>4. \A x \in Objects : IsSignaled(x, u)' => IsSignaled(x, u)
      BY <2>14, <3>1, MovesOthers, SeesSame DEF QueueApc
    <3> QED BY <2>14, <3>1, <3>2, <3>3, <3>4, WakeMove DEF QueueApc
  <2>15. CASE ExitThread(t)
    <3>1. lock' = t /\ pc' = [pc EXCEPT ![t] = "ending"] /\ UNCHANGED <<objVars, open, req, done, notified, walk>>
      BY <2>15 DEF ExitThread, Enter
    <3>2. Unwoken(u) /\ ~ToCome(u)
      <4>1. pc[u] = "asleep" /\ ~notified[u]
        BY <3>1 DEF Unwoken, TypeOK
      <4>2. ~ToCome(u)
        BY <1>0, <2>0, <2>15, NothingToCome DEF ExitThread, Enter
      <4> QED BY <4>1, <4>2 DEF Unwoken
    <3>3. MustLook(u)' => MustLook(u)
      BY <2>15 DEF ExitThread, MustLook, ReadyFor, TypeOK
    <3>4. CASE t \in Elements(req[u].objs)
      <4>1. ToCome(u)'
        BY <3>1, <3>4 DEF JoinsEnding, ToCome, TypeOK
      <4> QED BY <3>1, <3>2, <3>3, <4>1, WakeOne
    <3>5. CASE t \notin Elements(req[u].objs)
      <4>1. \A x \in Elements(req[u].objs) : IsSignaled(x, u)' => IsSignaled(x, u)
        BY <3>1, <3>5 DEF IsSignaled, MutexSignaled, Terminated, TypeOK, objVars
      <4> QED BY <3>1, <3>2, <3>3, <4>1, WakeOne
    <3> QED BY <3>4, <3>5
  <2> QED BY <1>2, <2>1, <2>4, <2>5, <2>6, <2>8, <2>9, <2>10, <2>11, <2>12, <2>13, <2>14,
             <2>15 DEF Request
<1>3. ASSUME NEW t \in Threads, Serve(t)
      PROVE  WakeAt(u)'
  <2>1. CASE EndCall(t)
    <3>1. Moves(t, "idle")
      BY <2>1 DEF EndCall, Leave, Moves, Stages
    <3> QED BY <2>1, <3>1, WakeStage DEF EndCall
  <2>2. CASE EndPulse(t)
    <3>1. Moves(t, "idle")
      BY <2>2 DEF EndPulse, Leave, Moves, Stages
    <3>2. \A x \in Objects : IsSignaled(x, u)' => IsSignaled(x, u)
      BY <2>2, <3>1, MovesOthers, SeesLess DEF EndPulse
    <3>3. MustLook(u)' => MustLook(u)
      BY <2>2 DEF EndPulse, MustLook, ReadyFor, threadVars
    <3> QED BY <2>2, <3>1, <3>2, <3>3, WakeMove DEF EndPulse
  <2>3. CASE Park(t)
    BY <2>3, AllWoken DEF Park, Goto, Unwoken, TypeOK
  <2>4. CASE EndThread(t)
    BY <2>4, AllWoken DEF EndThread, Goto, Unwoken, TypeOK
  <2>5. ASSUME NEW S, Return(t, S), lock = t, walk = <<>>, pc[t] # "ending", open' = open,
               UNCHANGED <<objVars, suspend>>, apc' = apc \/ u # t => apc'[u] = apc[u],
               \A x \in Threads : async'[x] = async[x] \/ async'[x] = "none"
        PROVE  WakeAt(u)'
    <3>1. Moves(t, "idle")
      BY <2>5 DEF Return, Leave, Moves, Stages
    <3>2. \A x \in Objects : IsSignaled(x, u)' => IsSignaled(x, u)
      BY <2>5, <3>1, MovesOthers, SeesSame
    <3>3. u # t => (MustLook(u)' => MustLook(u))
      BY <2>5 DEF MustLook, ReadyFor, Return, TypeOK
    <3> QED BY <2>5, <3>2, <3>3, WakeReturn
  <2>6. CASE Collect(t)
    BY <2>5, <2>6 DEF Collect, Stage, threadVars
  <2>7. CASE TakeAsync(t)
    <3>1. \A x \in Threads : async'[x] = async[x] \/ async'[x] = "none"
      BY <2>7 DEF TakeAsync, TypeOK
    <3> QED BY <2>5, <2>7, <3>1 DEF TakeAsync, Stage
  <2>8. CASE TakeApc(t)
    <3>1. u # t => apc'[u] = apc[u]
      BY <2>8 DEF TakeApc, TypeOK
    <3> QED BY <2>5, <2>8, <3>1 DEF TakeApc, Stage
  <2>9. CASE TimedOut(t)
    BY <2>5, <2>9 DEF TimedOut, Stage, threadVars
  <2>10. CASE SignalFirst(t)
    <3>1. CASE req[t].objs[1] \in open /\ CanSignal(t, req[t].signal, 1)
      <4>1. /\ DoSignal(t, req[t].signal, 1) /\ UNCHANGED <<req, done, threadVars, open>>
            /\ pc' = [pc EXCEPT ![t] = "apc"] /\ lock = t /\ walk = <<>> /\ pc[t] = "top"
        BY <2>10, <3>1 DEF SignalFirst, Stage, Goto
      <4>2. Moves(t, "apc")
        BY <4>1 DEF Moves, Stages
      <4>3. /\ \A x \in Threads : Terminated(x)' => Terminated(x)
            /\ pc[u] = "asleep" /\ ~ToCome(u)
        BY <4>2, MovesOthers DEF Unwoken
      <4>4. Unwoken(u) /\ ~notified'[u]
        BY <4>1, <4>3 DEF Unwoken, DoSignal, StartWalk, Notify
      <4>5. MustLook(u)' => MustLook(u)
        BY <4>1 DEF MustLook, ReadyFor, threadVars
      <4>6. 1 \in 1..SemMax
        BY BoundsAssumption
      <4> QED BY <3>1, <4>1, <4>3, <4>4, <4>5, <4>6, WakeSignal
    <3>2. CASE ~(req[t].objs[1] \in open /\ CanSignal(t, req[t].signal, 1))
      BY <2>5, <2>10, <3>2 DEF SignalFirst, Stage, threadVars
    <3> QED BY <3>1, <3>2
  <2>11. CASE GoOn(t)
    <3>1. Moves(t, "apc")
      BY <2>11 DEF GoOn, Stage, Goto, Moves, Stages
    <3> QED BY <2>11, <3>1, WakeStage DEF GoOn
  <2>12. CASE NoApc(t)
    <3>1. Moves(t, "timers")
      BY <2>12 DEF NoApc, Stage, Goto, Moves, Stages
    <3> QED BY <2>12, <3>1, WakeStage DEF NoApc
  <2>13. CASE TimersDone(t)
    <3>1. Moves(t, "test")
      BY <2>13 DEF TimersDone, Stage, Goto, Moves, Stages
    <3> QED BY <2>13, <3>1, WakeStage DEF TimersDone
  <2>14. ASSUME NEW o \in Timers, FireTimer(t, o)
         PROVE  WakeAt(u)'
    <3>1. /\ lock = t /\ walk = <<>> /\ pc[t] # "ending" /\ StartWalk(o)
          /\ UNCHANGED <<pc, open, req, done, mutex, count, threadVars>>
      BY <2>14 DEF FireTimer, Stage
    <3>2. Unwoken(u) /\ ~notified'[u]
      BY <3>1 DEF Unwoken, StartWalk, Notify
    <3>3. ~ToCome(u)
      BY <3>1, NothingToCome
    <3>4. MustLook(u)' => MustLook(u)
      BY <3>1 DEF MustLook, ReadyFor, threadVars
    <3>5. \A x \in Objects : x # o => (IsSignaled(x, u)' => IsSignaled(x, u))
      <4>1. \A x \in Signals : x # o => signaled'[x] = signaled[x]
        BY <2>14 DEF FireTimer, TypeOK
      <4> QED BY <3>1, <4>1 DEF IsSignaled, MutexSignaled, Terminated
    <3> QED BY <3>1, <3>2, <3>3, <3>4, <3>5, WakeWalk DEF Objects, Signals
  <2>15. CASE Satisfied(t)
    <3>1. CASE done[t]
      BY <2>5, <2>15, <3>1 DEF Satisfied, Stage, threadVars
    <3>2. CASE ~done[t]
      <4>1. /\ Consume(t, Takes(t)) /\ Return(t, Takes(t)) /\ lock = t /\ walk = <<>>
            /\ pc[t] = "test" /\ UNCHANGED <<open, threadVars>>
        BY <2>15, <3>2 DEF Satisfied, Stage
      <4>2. Moves(t, "idle")
        BY <4>1 DEF Return, Leave, Moves, Stages
      <4>3. u # t => \A x \in Objects : IsSignaled(x, u)' => IsSignaled(x, u)
        BY <4>1, <4>2, MovesOthers, ConsumeMonotone
      <4>4. u # t => (MustLook(u)' => MustLook(u))
        BY <4>1 DEF MustLook, ReadyFor, Return, TypeOK, threadVars
      <4> QED BY <4>1, <4>3, <4>4, WakeReturn
    <3> QED BY <3>1, <3>2
  <2>16. CASE GoToSleep(t)
    <3>0. /\ Stage(t, "test") /\ ~done[t] /\ TimesOut(t)
          /\ UNCHANGED <<walk, open, objVars, req, done, threadVars>>
      BY <2>16 DEF GoToSleep
    <3>1. CASE Goto(t, "top") /\ UNCHANGED <<lock, notified>>
      <4>1. Moves(t, "top")
        BY <3>0, <3>1 DEF Stage, Goto, Moves, Stages
      <4> QED BY <3>0, <3>1, <4>1, WakeStage
    <3>2. CASE /\ lock' = None /\ Goto(t, "asleep")
               /\ notified' = [notified EXCEPT ![t] = FALSE]
      <4>1. \A x \in Threads : Terminated(x)' => Terminated(x)
        BY <3>2 DEF Goto, Terminated, TypeOK
      <4>2. \A x \in Objects : IsSignaled(x, u)' => IsSignaled(x, u)
        BY <3>0, <4>1, SeesSame
      <4>3. \A x \in Elements(req[u].objs) : x \in Objects
        BY RequestTyped DEF Elements
      <4>4. MustLook(u)' => MustLook(u)
        BY <3>0 DEF MustLook, ReadyFor, threadVars
      <4>5. CASE u = t
        <5>1. ~MustLook(u)
          BY <3>0, <4>5 DEF LoopInv, Stage
        <5>2. TimesOut(u)'
          BY <3>0, <4>2, <4>3, <4>5, TimesOutKept
        <5> QED BY <3>0, <4>4, <4>5, <5>1, <5>2 DEF WakeAt
      <4>6. CASE u # t
        <5>1. Unwoken(u)
          BY <3>2, <4>6 DEF Goto, Unwoken, TypeOK
        <5>2. ~ToCome(u)
          BY <3>0, NothingToCome DEF Stage
        <5> QED BY <3>0, <4>2, <4>3, <4>4, <5>1, <5>2, WakeOne
      <4> QED BY <4>5, <4>6
    <3> QED BY <2>16, <3>1, <3>2 DEF GoToSleep
  <2>17. ASSUME NEW m \in Mutexes, AbandonMutex(t, m)
         PROVE  WakeAt(u)'
    <3>1. /\ lock = t /\ walk = <<>> /\ StartWalk(m)
          /\ UNCHANGED <<lock, pc, open, req, done, signaled, count, threadVars>>
      BY <2>17 DEF AbandonMutex, Stage
    <3>2. Unwoken(u) /\ ~notified'[u]
      BY <3>1 DEF Unwoken, StartWalk, Notify
    <3>3. ToCome(u) => ToCome(u)'
      BY <3>1 DEF JoinsEnding, ToCome, Elements
    <3>4. MustLook(u)' => MustLook(u)
      BY <3>1 DEF MustLook, ReadyFor, threadVars
    <3>5. \A x \in Objects : x # m => (IsSignaled(x, u)' => IsSignaled(x, u))
      <4>1. \A x \in Mutexes : x # m => mutex'[x] = mutex[x]
        BY <2>17 DEF AbandonMutex, TypeOK
      <4> QED BY <3>1, <4>1 DEF IsSignaled, MutexSignaled, Terminated
    <3> QED BY <3>1, <3>2, <3>3, <3>4, <3>5, WakeWalk DEF Objects
  <2>18. CASE WakeJoiners(t)
    <3>1. /\ lock = t /\ walk = <<>> /\ StartWalk(t) /\ pc[t] = "ending"
          /\ pc' = [pc EXCEPT ![t] = "joining"]
          /\ UNCHANGED <<lock, open, req, done, objVars, threadVars>>
      BY <2>18 DEF WakeJoiners, Stage, Goto
    <3>2. Unwoken(u) /\ ~notified'[u]
      BY <3>1 DEF Unwoken, StartWalk, Notify, TypeOK
    <3>3. ToCome(u) => t \in Elements(req[u].objs)
      BY <3>1 DEF JoinsEnding, ToCome, Elements
    <3>4. MustLook(u)' => MustLook(u)
      BY <3>1 DEF MustLook, ReadyFor, threadVars
    <3>5. \A x \in Threads : Terminated(x)' => Terminated(x)
      BY <3>1 DEF Terminated, TypeOK
    <3>6. \A x \in Objects : IsSignaled(x, u)' => IsSignaled(x, u)
      BY <3>1, <3>5, SeesSame
    <3> QED BY <3>1, <3>2, <3>3, <3>4, <3>6, WakeWalk DEF Objects
  <2> QED BY <1>3, <2>1, <2>2, <2>3, <2>4, <2>6, <2>7, <2>8, <2>9, <2>10, <2>11, <2>12,
             <2>13, <2>14, <2>15, <2>16, <2>17, <2>18 DEF Serve
<1>4. ASSUME NEW t \in Threads, Reenter(t)
      PROVE  WakeAt(u)'
  <2>0. lock = None /\ walk = <<>>
    BY <1>4 DEF Reenter, Wake, Unpark, InitThread, LockInv
  <2>1. CASE Wake(t)
    <3>1. Moves(t, "top")
      BY <2>0, <2>1 DEF Wake, Goto, Moves, Stages
    <3> QED BY <2>1, <3>1, WakeStage DEF Wake
  <2>2. CASE InitThread(t)
    <3>1. Moves(t, "idle")
      BY <2>0, <2>2 DEF InitThread, Goto, Moves, Stages
    <3> QED BY <2>2, <3>1, WakeStage DEF InitThread
  <2>3. CASE Unpark(t)
    <3>1. CASE req[t].context
      <4>1. Return(t, took[t]) /\ pc[t] = "parked" /\ UNCHANGED <<open, objVars, threadVars>>
        BY <2>3, <3>1 DEF Unpark
      <4>2. Moves(t, "idle")
        BY <2>0, <4>1 DEF Return, Leave, Moves, Stages
      <4>3. \A x \in Objects : IsSignaled(x, u)' => IsSignaled(x, u)
        BY <4>1, <4>2, MovesOthers, SeesSame
      <4>4. u # t => (MustLook(u)' => MustLook(u))
        BY <4>1 DEF MustLook, ReadyFor, Return, TypeOK, threadVars
      <4> QED BY <2>0, <4>1, <4>3, <4>4, WakeReturn
    <3>2. CASE ~req[t].context
      <4>1. Moves(t, "top")
        BY <2>0, <2>3, <3>2 DEF Unpark, Goto, Moves, Stages
      <4> QED BY <2>3, <3>2, <4>1, WakeStage DEF Unpark
    <3> QED BY <3>1, <3>2
  <2> QED BY <1>4, <2>1, <2>2, <2>3 DEF Reenter
<1>5. ASSUME UNCHANGED <<lock, walk, open, objVars, waitVars, notified, pc, threadVars>>
      PROVE  WakeAt(u)'
  <2>1. Unwoken(u) /\ (ToCome(u) => ToCome(u)')
    BY <1>5 DEF Unwoken, JoinsEnding, ToCome
  <2>2. \A x \in Objects : IsSignaled(x, u)' => IsSignaled(x, u)
    BY <1>5, SeesSame DEF Terminated
  <2>3. MustLook(u)' => MustLook(u)
    BY <1>5 DEF MustLook, ReadyFor, threadVars
  <2>4. \A x \in Elements(req[u].objs) : x \in Objects
    BY RequestTyped DEF Elements
  <2> QED BY <1>5, <2>1, <2>2, <2>3, <2>4, WakeOne
<1>6. CASE Environment
  <2>1. CASE \E o \in Timers : Tick(o)
    BY <1>5, <2>1 DEF Tick
  <2>2. ASSUME NEW v \in AsyncOwners, NEW s \in {"ready", "stale"}, PollAsync(v, s)
        PROVE  WakeAt(u)'
    <3>1. /\ lock = None /\ walk = <<>>
          /\ UNCHANGED <<pc, req, done, open, objVars, suspend, apc>>
      BY <2>2 DEF PollAsync, LockInv
    <3>2. Unwoken(u) /\ mode[u] = "queued"
      BY <2>2 DEF PollAsync, Notify, LegacySleepers, Sleepers, Queued, Unwoken, LoopInv, TypeOK
    <3>3. ~ToCome(u) /\ ~done[u]
      BY <1>0, <3>1, <3>2, NothingToCome DEF WakeInv
    <3>4. ~ReadyFor(async', u)
      BY <2>2, <3>2, <3>3 DEF PollAsync, Notify, Queued, Unwoken
    <3>5. MustLook(u)' => MustLook(u)
      BY <3>1, <3>4 DEF MustLook, ReadyFor
    <3>6. \A x \in Objects : IsSignaled(x, u)' => IsSignaled(x, u)
      BY <3>1, SeesSame DEF Terminated
    <3>7. \A x \in Elements(req[u].objs) : x \in Objects
      BY RequestTyped DEF Elements
    <3> QED BY <3>1, <3>2, <3>3, <3>5, <3>6, <3>7, WakeOne
  <2> QED BY <1>6, <2>1, <2>2 DEF Environment
<1>7. CASE UNCHANGED vars
  BY <1>5, <1>7 DEF vars
<1> QED BY <1>1, <1>2, <1>3, <1>4, <1>6, <1>7 DEF Next

\* Whenever the objects mutex is free, no select sleeps unwoken through something it
\* waits for: the rechecks of horizon_sync_sleep_locked are only a safety net.
THEOREM NoWakeupLost == Spec => []NoLostWakeup
<1>1. Init => WakeInv
  BY DEF Init, WakeInv, Unwoken
<1>2. TypeOK /\ LockInv /\ WakeInv => NoLostWakeup
  <2> SUFFICES ASSUME TypeOK, LockInv, WakeInv, lock = None, NEW t \in Threads, Unwoken(t)
               PROVE  ~done[t] /\ TimesOut(t) /\ ~MustLook(t)
    BY DEF NoLostWakeup
  <2>1. walk = <<>> /\ lock \notin Threads
    BY ObjectsAssumption DEF LockInv, Objects
  <2>2. ~ToCome(t)
    BY <2>1, NothingToCome
  <2> QED BY <2>2 DEF WakeInv
<1> QED BY <1>1, <1>2, StructureKept, WakeStep, PTL DEF Spec

\* A suspended thread does not come back from select: every way out of the loop is
\* behind the suspend check at its top.
THEOREM SuspensionHolds == Spec => SuspendedStaysInside
<1>1. TypeOK /\ LoopInv /\ [Next]_vars
        => [\A t \in Threads : InSelect(t) /\ ~InSelect(t)' => suspend[t] = 0]_vars
  <2> SUFFICES ASSUME TypeOK, LoopInv, Next, NEW t \in Threads, InSelect(t), ~InSelect(t)'
               PROVE  suspend[t] = 0
    OBVIOUS
  <2>1. pc'[t] # pc[t]
    BY DEF InSelect
  <2>2. PICK u \in Threads : Request(u) \/ Serve(u) \/ Reenter(u)
    BY <2>1 DEF Next, Visit, Environment, Tick, PollAsync
  <2>3. CASE Request(u)
    BY <2>1, <2>3 DEF Request, Select, SetEvent, ResetEvent, PulseEvent, ReleaseMutex,
       ReleaseSemaphore, CancelTimer, SetTimer, GetTimerInfo, CloseHandle, SuspendThread,
       ResumeThread, QueueApc, ExitThread, Enter, InSelect, TypeOK
  <2>4. CASE Serve(u)
    <3>1. CASE EndCall(u) \/ EndPulse(u) \/ WakeJoiners(u) \/ EndThread(u)
      BY <2>1, <3>1 DEF EndCall, EndPulse, WakeJoiners, EndThread, Stage, Leave, Goto,
         InSelect, TypeOK
    <3>2. CASE (\E o \in Timers : FireTimer(u, o)) \/ (\E m \in Mutexes : AbandonMutex(u, m))
      BY <2>1, <3>2 DEF FireTimer, AbandonMutex
    <3>3. CASE Park(u) \/ GoOn(u) \/ NoApc(u) \/ TimersDone(u)
      BY <3>3 DEF Park, GoOn, NoApc, TimersDone, Goto, InSelect, TypeOK
    <3>4. CASE GoToSleep(u)
      BY <3>4 DEF GoToSleep, Goto, InSelect, TypeOK
    <3>5. CASE Collect(u) \/ SignalFirst(u)
      BY <2>1, <3>5 DEF Collect, SignalFirst, Return, Leave, Goto, TypeOK
    <3>6. CASE TakeAsync(u) \/ TakeApc(u) \/ Satisfied(u) \/ TimedOut(u)
      BY <2>1, <3>6 DEF TakeAsync, TakeApc, Satisfied, TimedOut, Stage, Return, Leave,
         LoopInv, TypeOK
    <3> QED BY <2>4, <3>1, <3>2, <3>3, <3>4, <3>5, <3>6 DEF Serve
  <2>5. CASE Reenter(u)
    BY <2>1, <2>5 DEF Reenter, Wake, Unpark, InitThread, Return, Leave, Goto, InSelect, TypeOK
  <2> QED BY <2>2, <2>3, <2>4, <2>5
<1> QED BY <1>1, StructureKept, PTL DEF Spec, SuspendedStaysInside

-----------------------------------------------------------------------------
(* The order of the waiters                                                  *)

\* One is ahead of another only in a list that holds both.
LEMMA AheadElements ==
    ASSUME NEW s, NEW x, NEW y, Ahead(s, x, y)
    PROVE  x \in Elements(s) /\ y \in Elements(s)
BY DEF Ahead, Elements

\* The walk keeps the order of what it has still to visit.
LEMMA AheadTail ==
    ASSUME NEW s \in Seq(Threads), s # <<>>, NEW x, NEW y, Ahead(Tail(s), x, y)
    PROVE  Ahead(s, x, y)
<1>1. PICK i, j \in DOMAIN Tail(s) : i < j /\ Tail(s)[i] = x /\ Tail(s)[j] = y
  BY DEF Ahead
<1>2. Len(s) \in Nat \ {0} /\ DOMAIN s = 1..Len(s) /\ DOMAIN Tail(s) = 1..(Len(s) - 1)
  OBVIOUS
<1>3. s[i + 1] = x /\ s[j + 1] = y
  BY <1>1, <1>2
<1>4. i + 1 \in DOMAIN s /\ j + 1 \in DOMAIN s /\ i + 1 < j + 1
  BY <1>1, <1>2
<1> QED BY <1>3, <1>4 DEF Ahead

\* A list without one of its links keeps the order of the others.
LEMMA AheadWithout ==
    ASSUME NEW s \in Seq(Threads), NEW t, NEW x, NEW y, Ahead(Without(s, t), x, y)
    PROVE  Ahead(s, x, y)
<1>1. CASE t \in Elements(s)
  <2> DEFINE k == CHOOSE n \in DOMAIN s : s[n] = t
             f == [n \in 1..(Len(s) - 1) |-> IF n < k THEN s[n] ELSE s[n + 1]]
  <2>1. k \in DOMAIN s
    BY <1>1 DEF Elements
  <2>2. Without(s, t) = f
    BY <1>1 DEF Without
  <2>3. Len(s) \in Nat /\ DOMAIN s = 1..Len(s)
    OBVIOUS
  <2> HIDE DEF k
  <2>4. PICK i, j \in 1..(Len(s) - 1) : i < j /\ f[i] = x /\ f[j] = y
    BY <2>2 DEF Ahead
  <2> DEFINE at(n) == IF n < k THEN n ELSE n + 1
  <2>5. s[at(i)] = x /\ s[at(j)] = y
    BY <2>4
  <2>6. at(i) \in DOMAIN s /\ at(j) \in DOMAIN s /\ at(i) < at(j)
    BY <2>1, <2>3, <2>4
  <2> HIDE DEF at
  <2> QED BY <2>5, <2>6 DEF Ahead
<1>2. CASE t \notin Elements(s)
  BY <1>2 DEF Without
<1> QED BY <1>1, <1>2

\* A new link is behind the others.
LEMMA AheadAppend ==
    ASSUME NEW s \in Seq(Threads), NEW t \in Threads, t \notin Elements(s),
           NEW x, NEW y, Ahead(Append(s, t), x, y)
    PROVE  x # t /\ (y # t => Ahead(s, x, y))
<1>1. PICK i, j \in DOMAIN Append(s, t) : i < j /\ Append(s, t)[i] = x /\ Append(s, t)[j] = y
  BY DEF Ahead
<1>2. /\ Len(s) \in Nat /\ DOMAIN s = 1..Len(s) /\ DOMAIN Append(s, t) = 1..(Len(s) + 1)
      /\ Append(s, t)[Len(s) + 1] = t /\ \A n \in 1..Len(s) : Append(s, t)[n] = s[n]
  OBVIOUS
<1>3. i \in DOMAIN s /\ s[i] = x
  BY <1>1, <1>2
<1>4. x # t
  BY <1>3 DEF Elements
<1>5. y # t => j \in DOMAIN s /\ s[j] = y
  BY <1>1, <1>2
<1> QED BY <1>1, <1>3, <1>4, <1>5 DEF Ahead

\* Lists that hold no new order hold no new disagreement.
LEMMA LineLess ==
    ASSUME LineInv,
           \A o \in Objects, x, y \in Threads : Ahead(waiters'[o], x, y) => Ahead(waiters[o], x, y),
           \/ \A x, y \in Threads : Ahead(walk', x, y) => Ahead(walk, x, y)
           \/ \E p \in Objects : walk' = waiters[p]
    PROVE  LineInv'
<1> SUFFICES ASSUME NEW o \in Objects
             PROVE  /\ \A p \in Objects : SameOrder(waiters'[o], waiters'[p])
                    /\ SameOrder(walk', waiters'[o])
  BY DEF LineInv, SameOrder, Ahead
<1>1. \A p \in Objects : SameOrder(waiters'[o], waiters'[p])
  BY DEF LineInv, SameOrder
<1>2. SameOrder(walk', waiters'[o])
  BY DEF LineInv, SameOrder
<1> QED BY <1>1, <1>2

\* The lists stay as they are, and a walk starts or does not.
LEMMA LineWalk ==
    ASSUME LineInv, waiters' = waiters,
           walk' = walk \/ \E p \in Objects : walk' = waiters[p]
    PROVE  LineInv'
BY LineLess

LEMMA LineUnqueue ==
    ASSUME TypeOK, LineInv, NEW t \in Threads, Unqueue(t), walk' = walk
    PROVE  LineInv'
<1>1. ASSUME NEW o \in Objects, NEW x, NEW y, Ahead(waiters'[o], x, y)
      PROVE  Ahead(waiters[o], x, y)
  <2>1. waiters'[o] = Without(waiters[o], t) /\ waiters[o] \in Seq(Threads)
    BY DEF Unqueue, TypeOK
  <2> QED BY <1>1, <2>1, AheadWithout
<1> QED BY <1>1, LineLess

\* A wait goes to the end of all its lists at once.
LEMMA LineQueue ==
    ASSUME TypeOK, LinkInv, LineInv, NEW t \in Threads, mode[t] # "queued", Queue(t),
           walk = <<>>, walk' = walk
    PROVE  LineInv'
<1>1. ASSUME NEW o \in Objects, NEW x, NEW y, Ahead(waiters'[o], x, y)
      PROVE  x # t /\ (y # t => Ahead(waiters[o], x, y))
  <2>1. waiters[o] \in Seq(Threads) /\ t \notin Elements(waiters[o])
    BY DEF TypeOK, LinkInv
  <2>2. CASE waiters'[o] = Append(waiters[o], t)
    BY <1>1, <2>1, <2>2, AheadAppend
  <2>3. CASE waiters'[o] = waiters[o]
    BY <1>1, <2>1, <2>3, AheadElements
  <2> QED BY <2>2, <2>3 DEF Queue
<1> SUFFICES ASSUME NEW o \in Objects
             PROVE  /\ \A p \in Objects : SameOrder(waiters'[o], waiters'[p])
                    /\ SameOrder(walk', waiters'[o])
  BY DEF LineInv, SameOrder, Ahead
<1>2. ASSUME NEW p \in Objects, NEW x \in Threads, NEW y \in Threads,
             Ahead(waiters'[o], x, y), Ahead(waiters'[p], y, x)
      PROVE  FALSE
  <2>1. Ahead(waiters[o], x, y) /\ Ahead(waiters[p], y, x)
    BY <1>1, <1>2
  <2> QED BY <2>1 DEF LineInv, SameOrder
<1>3. SameOrder(walk', waiters'[o])
  BY DEF SameOrder, Ahead
<1> QED BY <1>2, <1>3 DEF SameOrder

\* Every step keeps the lists in one order.
LEMMA LineStep == TypeOK /\ LinkInv /\ LineInv /\ [Next]_vars => LineInv'
<1> SUFFICES ASSUME TypeOK, LinkInv, LineInv, [Next]_vars
             PROVE  LineInv'
  OBVIOUS
<1> USE DEF waitVars
<1>1. ASSUME UNCHANGED <<waiters, walk>>
      PROVE  LineInv'
  BY <1>1, LineWalk
<1>2. ASSUME NEW o \in Objects, StartWalk(o), UNCHANGED waiters
      PROVE  LineInv'
  BY <1>2, LineWalk DEF StartWalk
<1>3. ASSUME NEW t, NEW o, NEW n, CanSignal(t, o, n), DoSignal(t, o, n), UNCHANGED waiters
      PROVE  LineInv'
  <2>1. o \in Objects
    BY <1>3 DEF CanSignal, TypeOK
  <2> QED BY <1>1, <1>2, <1>3, <2>1 DEF DoSignal
<1>4. ASSUME NEW t \in Threads, NEW S, Return(t, S), UNCHANGED walk
      PROVE  LineInv'
  BY <1>4, LineUnqueue DEF Return
<1>5. CASE Visit
  <2>1. walk \in Seq(Threads) /\ walk # <<>> /\ walk' = Tail(walk) /\ waiters' = waiters
    BY <1>5 DEF Visit, TypeOK
  <2>2. \A x, y : Ahead(walk', x, y) => Ahead(walk, x, y)
    BY <2>1, AheadTail
  <2> QED BY <2>1, <2>2, LineLess
<1>6. ASSUME NEW t \in Threads, Request(t)
      PROVE  LineInv'
  <2>1. CASE \E e \in Events : SetEvent(t, e)
    BY <1>3, <2>1 DEF SetEvent
  <2>2. CASE \E m \in Mutexes : ReleaseMutex(t, m)
    BY <1>3, <2>2 DEF ReleaseMutex
  <2>3. CASE \E s \in Semaphores, n \in 1..SemMax : ReleaseSemaphore(t, s, n)
    BY <1>3, <2>3 DEF ReleaseSemaphore
  <2>4. CASE \E e \in Events : PulseEvent(t, e)
    BY <1>2, <2>4 DEF PulseEvent, Objects, Signals
  <2>5. CASE \E r \in Requests : Select(t, r)
    BY <1>1, <2>5 DEF Select
  <2>6. CASE \/ GetTimerInfo(t) \/ ExitThread(t) \/ (\E e \in Events : ResetEvent(t, e))
             \/ (\E o \in Timers : CancelTimer(t, o) \/ \E p \in BOOLEAN : SetTimer(t, o, p))
             \/ (\E o \in Closable : CloseHandle(t, o))
             \/ (\E u \in Threads : SuspendThread(t, u) \/ ResumeThread(t, u) \/ QueueApc(t, u))
    BY <1>1, <2>6 DEF GetTimerInfo, ExitThread, ResetEvent, CancelTimer, SetTimer, CloseHandle,
       SuspendThread, ResumeThread, QueueApc
  <2> QED BY <1>6, <2>1, <2>2, <2>3, <2>4, <2>5, <2>6 DEF Request
<1>7. ASSUME NEW t \in Threads, Serve(t)
      PROVE  LineInv'
  <2>1. CASE EndCall(t) \/ EndPulse(t) \/ GoOn(t) \/ NoApc(t) \/ TimersDone(t) \/ EndThread(t)
    BY <1>1, <2>1 DEF EndCall, EndPulse, GoOn, NoApc, TimersDone, EndThread
  <2>2. CASE Collect(t) \/ TakeAsync(t) \/ TakeApc(t) \/ Satisfied(t) \/ TimedOut(t)
    BY <1>4, <2>2 DEF Collect, TakeAsync, TakeApc, Satisfied, TimedOut
  <2>3. CASE Park(t)
    BY <1>1, <2>3, LineUnqueue DEF Park
  <2>4. CASE SignalFirst(t)
    BY <1>3, <1>4, <2>4 DEF SignalFirst
  <2>5. CASE GoToSleep(t)
    <3>1. /\ walk = <<>> /\ walk' = walk
          /\ (Queue(t) /\ mode[t] # "queued") \/ UNCHANGED waiters
      BY <2>5 DEF GoToSleep, Stage
    <3> QED BY <1>1, <3>1, LineQueue
  <2>6. CASE \E o \in Timers : FireTimer(t, o)
    BY <1>2, <2>6 DEF FireTimer, Objects, Signals
  <2>7. CASE \E m \in Mutexes : AbandonMutex(t, m)
    BY <1>2, <2>7 DEF AbandonMutex, Objects
  <2>8. CASE WakeJoiners(t)
    BY <1>2, <2>8 DEF WakeJoiners, Objects
  <2> QED BY <1>7, <2>1, <2>2, <2>3, <2>4, <2>5, <2>6, <2>7, <2>8 DEF Serve
<1>8. ASSUME NEW t \in Threads, Reenter(t)
      PROVE  LineInv'
  BY <1>1, <1>4, <1>8 DEF Reenter, Wake, Unpark, InitThread
<1>9. CASE Environment
  BY <1>1, <1>9 DEF Environment, Tick, PollAsync
<1>10. CASE UNCHANGED vars
  BY <1>1, <1>10 DEF vars
<1> QED BY <1>5, <1>6, <1>7, <1>8, <1>9, <1>10 DEF Next

\* Every step keeps QuietInv: a queued wait that is not asleep has the mutex, so
\* what it waits for can only come from the timers it fires itself.
LEMMA QuietStep ==
    TypeOK /\ LockInv /\ LoopInv /\ LinkInv /\ HandInv /\ WakeInv /\ QuietInv /\ [Next]_vars
        => QuietInv'
<1> SUFFICES ASSUME TypeOK, LockInv, LoopInv, LinkInv, HandInv, WakeInv, QuietInv, [Next]_vars,
                    NEW u \in Threads, mode'[u] = "queued", pc'[u] # "asleep",
                    ~notified'[u], ~done'[u], u \notin Elements(walk')
             PROVE  TimesOut(u)'
  BY DEF QuietInv, Queued
<1> USE DEF waitVars
<1>0. u # None
  BY ObjectsAssumption DEF Objects
<1>1. lock' = u
  <2>1. LockInv' /\ LoopInv'
    BY LockStep, LoopStep
  <2> QED BY <2>1 DEF LockInv, LoopInv, Inside
<1>2. \A x \in Elements(req[u].objs) : x \in Objects
  BY RequestTyped DEF Elements
<1>3. ASSUME TimesOut(u), UNCHANGED <<req, open, objVars>>,
             \A x \in Threads : Terminated(x)' => Terminated(x)
      PROVE  TimesOut(u)'
  BY <1>2, <1>3, SeesSame, TimesOutKept
\* a stage of its own loop
<1>4. ASSUME lock = u, pc[u] # "asleep", UNCHANGED <<req, open, objVars, mode, notified, done, walk>>,
             NEW stage \in {"apc", "timers", "test"}, pc' = [pc EXCEPT ![u] = stage]
      PROVE  TimesOut(u)'
  <2>1. TimesOut(u)
    BY <1>4 DEF QuietInv, Queued
  <2>2. \A x \in Threads : Terminated(x)' => Terminated(x)
    BY <1>4 DEF Terminated, TypeOK
  <2> QED BY <1>3, <1>4, <2>1, <2>2
<1>5. CASE Visit
  <2> DEFINE h == Head(walk)
  <2>0. /\ walk # <<>> /\ walk' = Tail(walk) /\ h \in Threads
        /\ Elements(walk) = {h} \cup Elements(walk')
        /\ UNCHANGED <<lock, pc, req, mode, open, threadVars>>
    BY <1>5, HeadTail DEF Visit, TypeOK
  <2>1. \A x \in Threads : Terminated(x)' => Terminated(x)
    BY <2>0 DEF Terminated
  <2>2. CASE u = h
    <3>1. CASE done[h] \/ (~MustLook(h) /\ TimesOut(h))
      <4>1. UNCHANGED <<objVars, done>> /\ TimesOut(u)
        BY <1>5, <2>2, <3>1 DEF Visit
      <4> QED BY <1>3, <2>0, <2>1, <4>1
    <3>2. CASE ~(done[h] \/ (~MustLook(h) /\ TimesOut(h)))
      <4>1. Notify({h})
        BY <1>5, <3>2 DEF Visit
      <4> QED BY <2>2, <4>1 DEF Notify
    <3> QED BY <3>1, <3>2
  <2>3. CASE u # h
    <3>1. done'[u] = done[u] /\ (notified[u] => notified'[u])
      BY <1>5, <2>3 DEF Visit, Notify, TypeOK
    <3>2. TimesOut(u)
      BY <2>0, <2>3, <3>1 DEF QuietInv, Queued
    <3>3. \A x \in Objects : IsSignaled(x, u)' => IsSignaled(x, u)
      <4>1. CASE UNCHANGED objVars
        BY <2>1, <4>1, SeesSame
      <4>2. CASE Consume(h, Takes(h))
        BY <2>0, <2>1, <2>3, <4>2, ConsumeMonotone
      <4> QED BY <1>5, <4>1, <4>2 DEF Visit
    <3> QED BY <1>2, <2>0, <3>2, <3>3, TimesOutKept
  <2> QED BY <2>2, <2>3
<1>6. ASSUME NEW t \in Threads, Request(t)
      PROVE  FALSE
  <2>1. pc[t] = "idle" /\ mode' = mode /\ lock' \in {None, t}
    BY <1>6 DEF Request, Select, SetEvent, ResetEvent, PulseEvent, ReleaseMutex,
       ReleaseSemaphore, CancelTimer, SetTimer, GetTimerInfo, CloseHandle, SuspendThread,
       ResumeThread, QueueApc, ExitThread, Enter, Brief, LockInv
  <2> QED BY <1>0, <1>1, <2>1 DEF LoopInv
<1>7. ASSUME NEW t \in Threads, Serve(t)
      PROVE  TimesOut(u)'
  <2>1. CASE \/ EndCall(t) \/ EndPulse(t) \/ Park(t) \/ EndThread(t) \/ Collect(t)
             \/ TakeAsync(t) \/ TakeApc(t) \/ Satisfied(t) \/ TimedOut(t)
    BY <1>0, <1>1, <2>1 DEF EndCall, EndPulse, Park, EndThread, Collect, TakeAsync, TakeApc,
       Satisfied, TimedOut, Return, Leave
  <2>2. CASE SignalFirst(t)
    <3>1. CASE req[t].objs[1] \in open /\ CanSignal(t, req[t].signal, 1)
      BY <1>1, <2>2, <3>1 DEF SignalFirst, Stage, HandInv
    <3>2. CASE ~(req[t].objs[1] \in open /\ CanSignal(t, req[t].signal, 1))
      BY <1>0, <1>1, <2>2, <3>2 DEF SignalFirst, Return, Leave
    <3> QED BY <3>1, <3>2
  <2>3. CASE GoOn(t)
    BY <1>1, <1>4, <2>3 DEF GoOn, Stage, Goto
  <2>4. CASE NoApc(t)
    BY <1>1, <1>4, <2>4 DEF NoApc, Stage, Goto
  <2>5. CASE TimersDone(t)
    BY <1>1, <1>4, <2>5 DEF TimersDone, Stage, Goto
  <2>6. CASE GoToSleep(t)
    <3>1. /\ t = u /\ TimesOut(u) /\ UNCHANGED <<req, open, objVars>>
          /\ pc' = [pc EXCEPT ![t] = "top"]
      BY <1>0, <1>1, <2>6 DEF GoToSleep, Goto, Stage
    <3>2. \A x \in Threads : Terminated(x)' => Terminated(x)
      BY <3>1 DEF Terminated, TypeOK
    <3> QED BY <1>3, <3>1, <3>2
  <2>7. ASSUME NEW o \in Timers, FireTimer(t, o)
        PROVE  TimesOut(u)'
    <3>1. /\ lock = u /\ walk = <<>> /\ walk' = waiters[o] /\ pc[u] # "asleep"
          /\ UNCHANGED <<pc, open, req, mode, done, mutex, count>>
          /\ notified[u] => notified'[u]
      BY <1>1, <2>7 DEF FireTimer, Stage, StartWalk, Notify
    <3>2. o \notin Elements(req[u].objs)
      BY <3>1 DEF LinkInv, Objects, Signals
    <3>3. TimesOut(u)
      BY <3>1 DEF QuietInv, Queued, Elements
    <3>4. \A x \in Elements(req[u].objs) : IsSignaled(x, u)' => IsSignaled(x, u)
      <4>1. \A x \in Signals : x # o => signaled'[x] = signaled[x]
        BY <2>7 DEF FireTimer, TypeOK
      <4> QED BY <3>1, <3>2, <4>1 DEF IsSignaled, MutexSignaled, Terminated
    <3> QED BY <3>1, <3>3, <3>4, TimesOutKept
  <2>8. CASE WakeJoiners(t) \/ \E m \in Mutexes : AbandonMutex(t, m)
    BY <1>1, <2>8 DEF WakeJoiners, AbandonMutex, Stage, LoopInv
  <2> QED BY <1>7, <2>1, <2>2, <2>3, <2>4, <2>5, <2>6, <2>7, <2>8 DEF Serve
<1>8. ASSUME NEW t \in Threads, Reenter(t)
      PROVE  TimesOut(u)'
  <2>1. CASE Wake(t)
    <3>1. /\ t = u /\ lock = None /\ pc[u] = "asleep" /\ pc' = [pc EXCEPT ![t] = "top"]
          /\ UNCHANGED <<req, open, objVars, notified, done>>
      BY <1>1, <2>1 DEF Wake, Goto
    <3>2. TimesOut(u)
      <4>1. ~ToCome(u)
        BY <3>1, NothingToCome, ObjectsAssumption DEF LockInv, Objects
      <4> QED BY <3>1, <4>1 DEF WakeInv, Unwoken
    <3>3. \A x \in Threads : Terminated(x)' => Terminated(x)
      BY <3>1 DEF Terminated, TypeOK
    <3> QED BY <1>3, <3>1, <3>2, <3>3
  <2>2. CASE Unpark(t)
    BY <1>0, <1>1, <2>2 DEF Unpark, Return, Leave, LoopInv
  <2>3. CASE InitThread(t)
    BY <1>0, <1>1, <2>3 DEF InitThread
  <2> QED BY <1>8, <2>1, <2>2, <2>3 DEF Reenter
<1>9. ASSUME UNCHANGED <<req, open, objVars, mode, notified, done, walk, pc>>
      PROVE  TimesOut(u)'
  <2>1. TimesOut(u)
    BY <1>9 DEF QuietInv, Queued
  <2> QED BY <1>3, <1>9, <2>1 DEF Terminated
<1>10. CASE Environment
  BY <1>0, <1>1, <1>9, <1>10 DEF Environment, Tick, PollAsync
<1>11. CASE UNCHANGED vars
  BY <1>9, <1>11 DEF vars
<1> QED BY <1>5, <1>6, <1>7, <1>8, <1>10, <1>11 DEF Next

\* Only a hand-off puts something new into took.
LEMMA OnlyVisitHands ==
    ASSUME TypeOK, Next, NEW t \in Threads, NEW o, o \in took'[t], o \notin took[t]
    PROVE  Visit /\ t = Head(walk) /\ o \in Takes(t)
<1> USE DEF waitVars
<1>1. ASSUME NEW u \in Threads, NEW S, Return(u, S)
      PROVE  FALSE
  BY <1>1 DEF Return, TypeOK
<1>2. ASSUME NEW u \in Threads, Request(u)
      PROVE  FALSE
  BY <1>2 DEF Request, Select, SetEvent, ResetEvent, PulseEvent, ReleaseMutex,
     ReleaseSemaphore, CancelTimer, SetTimer, GetTimerInfo, CloseHandle, SuspendThread,
     ResumeThread, QueueApc, ExitThread
<1>3. ASSUME NEW u \in Threads, Serve(u)
      PROVE  FALSE
  BY <1>1, <1>3 DEF Serve, EndCall, EndPulse, Park, Collect, SignalFirst, GoOn, TakeAsync, TakeApc,
     NoApc, FireTimer, TimersDone, Satisfied, TimedOut, GoToSleep, AbandonMutex, WakeJoiners,
     EndThread
<1>4. ASSUME NEW u \in Threads, Reenter(u)
      PROVE  FALSE
  BY <1>1, <1>4 DEF Reenter, Wake, Unpark, InitThread
<1>5. Visit
  BY <1>2, <1>3, <1>4 DEF Next, Environment, Tick, PollAsync
<1> QED BY <1>5 DEF Visit, TypeOK

\* Waiters are served in the order of their lists, whoever hands the signal over and
\* whoever takes it on its own.
THEOREM ServedInOrder == Spec => NoOvertaking
<1> DEFINE Inv == TypeOK /\ LockInv /\ LoopInv /\ LinkInv /\ HandInv /\ WakeInv /\ LineInv /\ QuietInv
<1>1. Inv /\ [Next]_vars
        => [\A t \in Threads, o \in Objects : Gets(t, o) =>
              \A u \in Before(waiters[o], t) :
                 notified[u] \/ done[u] \/ TimesOut(u) \/ MustLook(u) \/ JoinsEnding(u)]_vars
  <2> SUFFICES ASSUME Inv, Next, NEW t \in Threads, NEW o \in Objects, Gets(t, o),
                      NEW u \in Before(waiters[o], t), ~notified[u], ~done[u], ~TimesOut(u),
                      ~JoinsEnding(u)
               PROVE  FALSE
    OBVIOUS
  <2>1. waiters[o] \in Seq(Threads)
    BY DEF TypeOK
  <2>2. PICK j \in DOMAIN waiters[o] : waiters[o][j] = u /\ \A k \in 1..j : waiters[o][k] # t
    BY DEF Before
  <2>3. u \in Threads /\ u # t /\ mode[u] = "queued"
    <3>1. u \in Threads /\ u \in Elements(waiters[o])
      BY <2>1, <2>2 DEF Elements
    <3>2. j \in 1..j
      BY <2>1, <2>2
    <3> QED BY <2>2, <3>1, <3>2 DEF LinkInv
  <2>4. u \in Elements(walk)
    BY <2>3 DEF QuietInv, Queued, WakeInv, Unwoken, ToCome
  <2>5. walk # <<>> /\ Visit
    <3>1. walk # <<>>
      BY <2>4 DEF Elements
    <3>2. CASE o \in took'[t] /\ o \notin took[t]
      BY <3>1, <3>2, OnlyVisitHands
    <3>3. CASE pc[t] = "test" /\ pc'[t] = "idle"
      <4>1. lock = t /\ t # None
        BY <3>3, ObjectsAssumption DEF LockInv, Inside, Objects
      <4>2. ASSUME NEW v \in Threads, Request(v)
            PROVE  FALSE
        BY <4>1, <4>2 DEF Request, Select, SetEvent, ResetEvent, PulseEvent, ReleaseMutex,
           ReleaseSemaphore, CancelTimer, SetTimer, GetTimerInfo, CloseHandle, SuspendThread,
           ResumeThread, QueueApc, ExitThread, Enter, Brief
      <4>3. ASSUME NEW v \in Threads, Serve(v)
            PROVE  FALSE
        BY <3>1, <4>3 DEF Serve, EndCall, EndPulse, Park, Collect, SignalFirst, GoOn, TakeAsync,
           TakeApc, NoApc, FireTimer, TimersDone, Satisfied, TimedOut, GoToSleep, AbandonMutex,
           WakeJoiners, EndThread, Stage
      <4>4. ASSUME NEW v \in Threads, Reenter(v)
            PROVE  FALSE
        BY <4>1, <4>4 DEF Reenter, Wake, Unpark, InitThread
      <4>5. ~Environment
        BY <3>3 DEF Environment, Tick, PollAsync
      <4> QED BY <3>1, <4>2, <4>3, <4>4, <4>5 DEF Next
    <3> QED BY <3>2, <3>3 DEF Gets
  <2>6. t = Head(walk) /\ o \in Takes(t)
    BY <2>5, OnlyVisitHands DEF Gets, Visit
  \* t is ahead of u in the walk, and u ahead of t in the list
  <2>7. walk \in Seq(Threads) /\ Elements(walk) = {t} \cup Elements(Tail(walk))
    BY <2>5, <2>6, HeadTail DEF TypeOK
  <2>8. Ahead(walk, t, u)
    <3>1. Len(walk) \in Nat \ {0} /\ DOMAIN walk = 1..Len(walk) /\ walk[1] = t
      BY <2>5, <2>6, <2>7
    <3>2. PICK i \in DOMAIN walk : walk[i] = u
      BY <2>4 DEF Elements
    <3>3. 1 \in DOMAIN walk /\ 1 < i
      BY <2>3, <3>1, <3>2
    <3> QED BY <3>1, <3>2, <3>3 DEF Ahead
  <2>9. Ahead(waiters[o], u, t)
    <3>1. t \in Elements(waiters[o])
      <4>1. o \in Elements(req[t].objs) /\ t \in Elements(walk)
        BY <2>6, <2>7, TakesReady
      <4> QED BY <4>1 DEF LinkInv, LockInv
    <3>2. PICK k \in DOMAIN waiters[o] : waiters[o][k] = t
      BY <3>1 DEF Elements
    <3>3. j \in Nat /\ k \in Nat /\ k >= 1
      BY <2>1
    <3>4. ~(k <= j)
      BY <2>2, <3>2, <3>3
    <3> QED BY <2>2, <3>2, <3>3, <3>4 DEF Ahead
  <2> QED BY <2>3, <2>8, <2>9 DEF LineInv, SameOrder
<1>2. Init => HandInv /\ WakeInv
  BY DEF Init, HandInv, WakeInv, Unwoken
<1>3. Init => LineInv /\ QuietInv
  BY DEF Init, LineInv, SameOrder, Ahead, QuietInv, Queued
<1> QED BY <1>1, <1>2, <1>3, StructureKept, HandStep, WakeStep, LineStep, QuietStep, PTL
        DEF Spec, NoOvertaking

=============================================================================
