---------------------------- MODULE HorizonSync ----------------------------
(***************************************************************************)
(* The waitable objects of the in-process server and the select request    *)
(* (dlls/ntdll/unix/horizon.c, horizon_threads.h): events, mutexes,        *)
(* semaphores, waitable timers and threads; queued ("direct") waits with   *)
(* hand-off, polling ("legacy") waits, wait-all, signal-and-wait,          *)
(* alertable waits, suspension and thread exit.                            *)
(*                                                                         *)
(* Everything runs under horizon_server_objects_mutex.  The variable lock  *)
(* is that mutex; a handler that walks a list of waiters while it holds    *)
(* the mutex takes one step per waiter, and no other thread moves in       *)
(* between.  pc[t] says where thread t is:                                 *)
(*   gate     in init_thread, held back by CREATE_SUSPENDED                *)
(*   idle     in client code, no request outstanding                       *)
(*   call     in a short request whose waiter walk is going on             *)
(*   info     in get_timer_info, firing the timers that are due            *)
(*   pulse    in event_op PULSE_EVENT, before the event is cleared         *)
(*   top, apc, timers, test   the stages of select's loop body             *)
(*   asleep   in select, on its own condition variable (mode "queued") or  *)
(*            on the one all legacy waits share                            *)
(*   parked   in select, suspended                                         *)
(*   ending, joining, ended   in horizon_server_end_thread_locked          *)
(***************************************************************************)
EXTENDS Integers, Sequences, FiniteSets

CONSTANTS
    Threads, Events, Mutexes, Semaphores, Timers, \* the objects, by handle
    Manual,        \* the events and timers created with manual reset
    Gated,         \* the threads created with CREATE_SUSPENDED
    SemInit, SemMax,                   \* create_semaphore's initial and max
    Requests,      \* the select requests the clients make
    Closable,      \* the objects whose handle a client closes
    AsyncOwners,   \* the threads that start overlapped operations
    MaxSuspend,    \* HORIZON_THREAD_MAX_SUSPEND
    MaxApc,        \* bound: user APCs queued for a thread
    MaxDepth,      \* bound: recursive acquisitions of a mutex
    None

Signals == Events \cup Timers             \* objects with a signaled flag
Objects == Threads \cup Signals \cup Mutexes \cup Semaphores

\* Objects whose signal one wait uses up.
Counted == Semaphores \cup (Signals \ Manual)

NoRequest == [objs |-> <<>>, all |-> FALSE, signal |-> None,
              alertable |-> FALSE, timeout |-> "zero", direct |-> FALSE,
              context |-> FALSE]

\* A select request: the handles in order, SELECT_WAIT or SELECT_WAIT_ALL, the
\* handle SIGNAL_AND_WAIT signals, SELECT_ALERTABLE, the kind of deadline,
\* whether it came through horizon_server_sync_call, and whether it carries
\* the caller's registers (wait_suspend, which names no handle).
RequestType == [objs : Seq(Objects), all : BOOLEAN, signal : Objects \cup {None},
                alertable : BOOLEAN, timeout : {"zero", "finite", "never"},
                direct : BOOLEAN, context : BOOLEAN]

ASSUME ObjectsAssumption ==
    /\ \A S \in {Events, Mutexes, Semaphores, Timers} : S \cap Threads = {}
    /\ \A S \in {Mutexes, Semaphores, Timers} : S \cap Events = {}
    /\ Timers \cap Mutexes = {} /\ Timers \cap Semaphores = {}
    /\ Mutexes \cap Semaphores = {}
    /\ None \notin Objects
    /\ Manual \subseteq Signals /\ Gated \subseteq Threads
    /\ Closable \subseteq Objects /\ AsyncOwners \subseteq Threads

ASSUME RequestsAssumption ==
    /\ Requests \subseteq RequestType
    /\ \A r \in Requests :
          /\ \A i, j \in DOMAIN r.objs : r.objs[i] = r.objs[j] => i = j
          /\ r.signal # None => Len(r.objs) = 1 /\ ~r.all
          /\ r.context => r.objs = <<>>
          /\ r.all => r.objs # <<>>

ASSUME BoundsAssumption ==
    /\ SemMax \in Nat \ {0} /\ SemInit \in 0..SemMax
    /\ MaxSuspend \in Nat /\ (Gated = {} \/ MaxSuspend > 0)
    /\ MaxApc \in Nat /\ MaxDepth \in Nat \ {0}

ASSUME FiniteAssumption == IsFiniteSet(Threads)

VARIABLES
    lock,      \* the thread in the server with the objects mutex, or None
    walk,      \* waiters notify_object has still to visit, in list order
    target,    \* the event a pulse is to clear
    open,      \* the handle table: objects that still have a handle
    signaled,  \* object->signaled of events and timers
    mutex,     \* struct horizon_mutex_state
    count,     \* object->count of semaphores
    timer,     \* "idle" (timer_when = 0), "set", or "due" (timer_when <= now)
    periodic,  \* timer_period # 0
    waiters,   \* object->waiters: the links on an object, oldest first
    pc,
    req,       \* the select request being served
    fresh,     \* initial && signals: the signal half is still to be done
    mode,      \* select's queued: "new" (-1), "legacy" (0), "queued" (1)
    notified, done, took,  \* waiter->notified, ->completed, what it consumed
    suspend,   \* thread.suspend
    apc,       \* length of the user APC list
    async,     \* the thread's own overlapped operation: "none", "ready", "stale"
    held,      \* history: acquisitions of a mutex its client was told of
    credit     \* history: signals given to a counted object and not yet told of

objVars    == <<signaled, mutex, count>>
timerVars  == <<timer, periodic>>
threadVars == <<suspend, apc, async>>
waitVars   == <<req, fresh, mode, done, took, waiters>>
ghostVars  == <<held, credit>>
vars == <<lock, walk, target, open, objVars, timerVars, waitVars, notified, pc,
          threadVars, ghostVars>>

-----------------------------------------------------------------------------
(* What a wait sees, and what it takes.                                     *)

Elements(s) == {s[i] : i \in DOMAIN s}

Terminated(t) == pc[t] \in {"ending", "joining", "ended"}

MutexSignaled(m, t) == mutex[m].count = 0 \/ mutex[m].owner = t

IsSignaled(o, t) ==
    \/ o \in Signals    /\ signaled[o]
    \/ o \in Mutexes    /\ MutexSignaled(o, t)
    \/ o \in Semaphores /\ count[o] > 0
    \/ o \in Threads    /\ Terminated(o)

\* wait_object on one handle: SUCCESS, TIMEOUT; a closed handle is neither.
Ready(o, t)    == o \in open /\ IsSignaled(o, t)
NotReady(o, t) == o \in open /\ ~IsSignaled(o, t)

\* select_status is TIMEOUT: wait-any scans past unsignaled handles only, and
\* wait-all stops at the first handle that is not signaled, so a handle that is
\* open and unsignaled with only open handles before it means TIMEOUT.
TimesOut(t) ==
    LET o == req[t].objs
    IN  IF req[t].all
        THEN \E i \in DOMAIN o : NotReady(o[i], t) /\ \A j \in 1..(i - 1) : o[j] \in open
        ELSE \A i \in DOMAIN o : NotReady(o[i], t)

\* What select_status consumes; nothing when it fails with INVALID_HANDLE.
Takes(t) ==
    LET o == req[t].objs
        hits == {i \in DOMAIN o : Ready(o[i], t) /\ \A j \in 1..(i - 1) : NotReady(o[j], t)}
    IN  IF req[t].all
        THEN IF \A i \in DOMAIN o : Ready(o[i], t) THEN Elements(o) ELSE {}
        ELSE {o[i] : i \in hits}

Acquire(m, t) == [owner |-> t,
                  count |-> IF m.count > 0 /\ m.owner = t THEN m.count + 1 ELSE 1,
                  abandoned |-> FALSE]

Release(m) == [owner |-> IF m.count = 1 THEN None ELSE m.owner,
               count |-> m.count - 1,
               abandoned |-> m.abandoned]

Abandoned == [owner |-> None, count |-> 0, abandoned |-> TRUE]

\* horizon_server_consume_signal for every object of S.
Consume(t, S) ==
    /\ signaled' = [o \in Signals |-> signaled[o] /\ ~(o \in S /\ o \notin Manual)]
    /\ mutex' = [m \in Mutexes |-> IF m \in S THEN Acquire(mutex[m], t) ELSE mutex[m]]
    /\ count' = [s \in Semaphores |-> IF s \in S THEN count[s] - 1 ELSE count[s]]

-----------------------------------------------------------------------------
(* Lists of waiters and wake-ups.                                           *)

\* A list without the link of t (horizon_sync_unqueue_locked).
Without(s, t) ==
    IF t \in Elements(s)
    THEN LET k == CHOOSE i \in DOMAIN s : s[i] = t
         IN  [i \in 1..(Len(s) - 1) |-> IF i < k THEN s[i] ELSE s[i + 1]]
    ELSE s

Unqueue(t) == waiters' = [o \in Objects |-> Without(waiters[o], t)]

\* A new link goes before the list's head, which is its tail.
Queue(t) == waiters' = [o \in Objects |-> IF o \in Elements(req[t].objs)
                                          THEN Append(waiters[o], t) ELSE waiters[o]]

Sleepers == {t \in Threads : pc[t] = "asleep"}
Queued   == {t \in Threads : mode[t] = "queued"}
LegacySleepers == Sleepers \ Queued

Notify(S) == notified' = [t \in Threads |-> notified[t] \/ t \in S]

\* horizon_server_signal_changed_locked
SignalChanged == Notify(LegacySleepers \cup Queued)

\* horizon_sync_notify_object_locked(o, 0): every waiter has to look again.
NotifyOnly(o) == Notify(LegacySleepers \cup {t \in Elements(waiters[o]) : ~done[t]})

\* Slip: the list is walked from its tail.
StartWalkBackwards(o) ==
    /\ walk' = [i \in DOMAIN waiters[o] |-> waiters[o][Len(waiters[o]) + 1 - i]]
    /\ Notify(LegacySleepers)

\* horizon_sync_notify_object_locked(o, 1): the legacy waits wake, and the walk
\* over the queued waiters begins (Visit).
StartWalk(o) == walk' = waiters[o] /\ Notify(LegacySleepers)

\* horizon_async_ready_for: an operation of the thread's own that is ready, or
\* one nobody has taken for HORIZON_ASYNC_STALE.
ReadyFor(a, t) == \E u \in Threads : a[u] = "stale" \/ (u = t /\ a[u] = "ready")

\* A waiter that must run its own loop instead of being handed the object.
MustLook(t) ==
    \/ suspend[t] > 0
    \/ req[t].alertable /\ apc[t] > 0
    \/ ReadyFor(async, t)

\* notify_object's loop body: hand the waiter what it waits for, or pass on.
Visit ==
    /\ walk # <<>>
    /\ LET t == Head(walk)
       IN  IF done[t] \/ (~MustLook(t) /\ TimesOut(t))
           THEN UNCHANGED <<objVars, notified, done, took>>
           ELSE /\ Notify({t})
                /\ IF MustLook(t)
                   THEN UNCHANGED <<objVars, done, took>>
                   ELSE /\ Consume(t, Takes(t))
                        /\ done' = [done EXCEPT ![t] = TRUE]
                        /\ took' = [took EXCEPT ![t] = Takes(t)]
    /\ walk' = Tail(walk)
    /\ UNCHANGED <<lock, target, open, timerVars, req, fresh, mode, waiters, pc,
                   threadVars, ghostVars>>

-----------------------------------------------------------------------------
(* Signalling an object: signal_object, event_op SET_EVENT, release_mutex    *)
(* and release_semaphore.                                                    *)

CanSignal(t, o, n) ==
    /\ o \in open
    /\ \/ o \in Events
       \/ o \in Mutexes    /\ mutex[o].count > 0 /\ mutex[o].owner = t
       \/ o \in Semaphores /\ count[o] + n <= SemMax

\* Only a change that can let a waiter go on wakes anyone.
Wakes(o) ==
    \/ o \in Events  /\ ~signaled[o]
    \/ o \in Mutexes /\ mutex[o].count = 1
    \/ o \in Semaphores

DoSignal(t, o, n) ==
    /\ signaled' = [e \in Signals |-> signaled[e] \/ e = o]
    /\ mutex' = [m \in Mutexes |-> IF m = o THEN Release(mutex[m]) ELSE mutex[m]]
    /\ count' = [s \in Semaphores |-> IF s = o THEN count[s] + n ELSE count[s]]
    /\ IF Wakes(o) THEN StartWalk(o) ELSE UNCHANGED <<walk, notified>>
    /\ held' = [held EXCEPT ![t] =
                  [m \in Mutexes |-> IF m = o THEN held[t][m] - 1 ELSE held[t][m]]]
    /\ credit' = [c \in Counted |-> IF c = o /\ Wakes(o) THEN credit[c] + n ELSE credit[c]]

\* Short requests: one handler, the mutex held throughout.
Enter(t, stage) == /\ lock = None /\ pc[t] = "idle"
                   /\ lock' = t
                   /\ pc' = [pc EXCEPT ![t] = stage]

Leave(t) == /\ lock' = None
            /\ pc' = [pc EXCEPT ![t] = "idle"]

\* A short request that walks no list: the mutex is taken and dropped at once.
Brief(t) == lock = None /\ pc[t] = "idle"

SetEvent(t, e) ==
    /\ Enter(t, "call")
    /\ CanSignal(t, e, 1)
    /\ DoSignal(t, e, 1)
    /\ UNCHANGED <<target, open, timerVars, waitVars, threadVars>>

ReleaseMutex(t, m) ==
    /\ Enter(t, "call")
    /\ CanSignal(t, m, 1)
    /\ DoSignal(t, m, 1)
    /\ UNCHANGED <<target, open, timerVars, waitVars, threadVars>>

ReleaseSemaphore(t, s, n) ==
    /\ Enter(t, "call")
    /\ CanSignal(t, s, n)
    /\ DoSignal(t, s, n)
    /\ UNCHANGED <<target, open, timerVars, waitVars, threadVars>>

\* get_timer_info brings the timers up to date first.
GetTimerInfo(t) ==
    /\ Enter(t, "info")
    /\ UNCHANGED <<walk, target, open, objVars, timerVars, waitVars, notified,
                   threadVars, ghostVars>>

\* Slip: a return path that keeps the objects mutex.
EndCallLocked(t) ==
    /\ lock = t /\ walk = <<>>
    /\ pc[t] = "call" \/ (pc[t] = "info" /\ \A o \in Timers : timer[o] # "due")
    /\ pc' = [pc EXCEPT ![t] = "idle"]
    /\ UNCHANGED <<lock, walk, target, open, objVars, timerVars, waitVars, notified,
                   threadVars, ghostVars>>

\* The walk of a short request is over.
EndCall(t) ==
    /\ lock = t /\ walk = <<>>
    /\ pc[t] = "call" \/ (pc[t] = "info" /\ \A o \in Timers : timer[o] # "due")
    /\ Leave(t)
    /\ UNCHANGED <<walk, target, open, objVars, timerVars, waitVars, notified,
                   threadVars, ghostVars>>

\* Clearing a flag also takes back the signal it stood for.
Clear(o) ==
    /\ signaled' = [signaled EXCEPT ![o] = FALSE]
    /\ credit' = [c \in Counted |-> IF c = o /\ signaled[c] THEN credit[c] - 1 ELSE credit[c]]

ResetEvent(t, e) ==
    /\ Brief(t) /\ e \in open
    /\ Clear(e)
    /\ UNCHANGED <<lock, walk, target, open, mutex, count, timerVars, waitVars,
                   notified, pc, threadVars, held>>

\* PULSE_EVENT: signaled for the waiters of this moment, then cleared.
PulseEvent(t, e) ==
    /\ Enter(t, "pulse") /\ e \in open
    /\ signaled' = [signaled EXCEPT ![e] = TRUE]
    /\ credit' = [c \in Counted |-> IF c = e /\ ~signaled[c] THEN credit[c] + 1 ELSE credit[c]]
    /\ StartWalk(e)
    /\ target' = e
    /\ UNCHANGED <<open, mutex, count, timerVars, waitVars, threadVars, held>>

EndPulse(t) ==
    /\ lock = t /\ pc[t] = "pulse" /\ walk = <<>>
    /\ Clear(target)
    /\ target' = None
    /\ Leave(t)
    /\ UNCHANGED <<walk, open, mutex, count, timerVars, waitVars, notified,
                   threadVars, held>>

SetTimer(t, o, p) ==
    /\ Brief(t) /\ o \in open
    /\ timer' = [timer EXCEPT ![o] = "set"]
    /\ periodic' = [periodic EXCEPT ![o] = p]
    /\ Clear(o)
    /\ NotifyOnly(o)
    /\ UNCHANGED <<lock, walk, target, open, mutex, count, waitVars, pc, threadVars, held>>

CancelTimer(t, o) ==
    /\ Brief(t) /\ o \in open
    /\ timer' = [timer EXCEPT ![o] = "idle"]
    /\ periodic' = [periodic EXCEPT ![o] = FALSE]
    /\ Clear(o)
    /\ NotifyOnly(o)
    /\ UNCHANGED <<lock, walk, target, open, mutex, count, waitVars, pc, threadVars, held>>

\* Time passes a deadline; nothing looks at the timer yet.
Tick(o) ==
    /\ timer[o] = "set"
    /\ timer' = [timer EXCEPT ![o] = "due"]
    /\ UNCHANGED <<lock, walk, target, open, objVars, periodic, waitVars, notified,
                   pc, threadVars, ghostVars>>

\* Slip: the waiters of a closed object are not told.
CloseHandleQuietly(t, o) ==
    /\ Brief(t) /\ o \in open
    /\ open' = open \ {o}
    /\ UNCHANGED <<lock, walk, target, objVars, timerVars, waitVars, notified, pc,
                   threadVars, ghostVars>>

\* close_handle of an object's only handle; links keep the object itself alive.
CloseHandle(t, o) ==
    /\ Brief(t) /\ o \in open
    /\ open' = open \ {o}
    /\ NotifyOnly(o)
    /\ UNCHANGED <<lock, walk, target, objVars, timerVars, waitVars, pc, threadVars,
                   ghostVars>>

SuspendThread(t, u) ==
    /\ Brief(t) /\ u \in open \cup {t}
    /\ ~Terminated(u) /\ suspend[u] < MaxSuspend
    /\ suspend' = [suspend EXCEPT ![u] = @ + 1]
    /\ SignalChanged
    /\ UNCHANGED <<lock, walk, target, open, objVars, timerVars, waitVars, pc, apc,
                   async, ghostVars>>

ResumeThread(t, u) ==
    /\ Brief(t) /\ u \in open \cup {t}
    /\ suspend' = [suspend EXCEPT ![u] = IF @ > 0 THEN @ - 1 ELSE 0]
    /\ SignalChanged
    /\ UNCHANGED <<lock, walk, target, open, objVars, timerVars, waitVars, pc, apc,
                   async, ghostVars>>

\* queue_apc: the queued waits of the thread look again if they are alertable.
QueueApc(t, u) ==
    /\ Brief(t) /\ u \in open \cup {t}
    /\ apc[u] < MaxApc
    /\ apc' = [apc EXCEPT ![u] = @ + 1]
    /\ Notify(LegacySleepers \cup {v \in Queued : v = u /\ req[v].alertable})
    /\ UNCHANGED <<lock, walk, target, open, objVars, timerVars, waitVars, pc, suspend,
                   async, ghostVars>>

\* The socket poller finds u's overlapped operation ready, or finds that u has
\* not collected it for HORIZON_ASYNC_STALE (horizon_sync_notify_async_locked).
PollAsync(u, state) ==
    /\ lock = None
    /\ <<async[u], state>> \in {<<"none", "ready">>, <<"ready", "stale">>}
    /\ async' = [async EXCEPT ![u] = state]
    /\ Notify(LegacySleepers \cup {v \in Queued : ~done[v] /\ ReadyFor(async', v)})
    /\ UNCHANGED <<lock, walk, target, open, objVars, timerVars, waitVars, pc, suspend,
                   apc, ghostVars>>

-----------------------------------------------------------------------------
(* select (horizon_server_handle_select)                                     *)

\* The reply tells the client what its wait consumed; the waiter is unlinked.
Return(t, S) ==
    /\ Leave(t)
    /\ Unqueue(t)
    /\ req' = [req EXCEPT ![t] = NoRequest]
    /\ fresh' = [fresh EXCEPT ![t] = FALSE]
    /\ mode' = [mode EXCEPT ![t] = "new"]
    /\ notified' = [notified EXCEPT ![t] = FALSE]
    /\ done' = [done EXCEPT ![t] = FALSE]
    /\ took' = [took EXCEPT ![t] = {}]
    /\ held' = [held EXCEPT ![t] = [m \in Mutexes |-> IF m \in S THEN held[t][m] + 1 ELSE held[t][m]]]
    /\ credit' = [c \in Counted |-> IF c \in S THEN credit[c] - 1 ELSE credit[c]]

Select(t, r) ==
    /\ Enter(t, "top")
    /\ \A m \in Mutexes \cap Elements(r.objs) : held[t][m] < MaxDepth
    /\ req' = [req EXCEPT ![t] = r]
    /\ fresh' = [fresh EXCEPT ![t] = r.signal # None]
    /\ UNCHANGED <<walk, target, open, objVars, timerVars, mode, done, took, waiters,
                   notified, threadVars, ghostVars>>

Stage(t, stage) == lock = t /\ pc[t] = stage /\ walk = <<>>

Goto(t, stage) == pc' = [pc EXCEPT ![t] = stage]

\* Slip: parking forgets what was handed over.
ParkForgets(t) ==
    /\ Stage(t, "top") /\ suspend[t] > 0
    /\ Unqueue(t) /\ mode' = [mode EXCEPT ![t] = "new"]
    /\ done' = [done EXCEPT ![t] = FALSE] /\ took' = [took EXCEPT ![t] = {}]
    /\ SignalChanged
    /\ lock' = None /\ Goto(t, "parked")
    /\ UNCHANGED <<walk, target, open, objVars, timerVars, req, fresh, threadVars, ghostVars>>

\* A suspended thread leaves the lists, publishes its registers (which wakes
\* whoever waits to read them, and everybody else) and parks.
Park(t) ==
    /\ Stage(t, "top") /\ suspend[t] > 0
    /\ IF mode[t] = "queued"
       THEN Unqueue(t) /\ mode' = [mode EXCEPT ![t] = "new"]
       ELSE UNCHANGED <<waiters, mode>>
    /\ SignalChanged
    /\ lock' = None /\ Goto(t, "parked")
    /\ UNCHANGED <<walk, target, open, objVars, timerVars, req, fresh, done, took,
                   threadVars, ghostVars>>

\* The suspend count is back to zero: a request that carried registers returns
\* them, any other goes on with its wait.
Unpark(t) ==
    /\ lock = None /\ pc[t] = "parked" /\ suspend[t] = 0
    /\ IF req[t].context
       THEN Return(t, took[t])
       ELSE /\ lock' = t /\ Goto(t, "top")
            /\ UNCHANGED <<waitVars, notified, ghostVars>>
    /\ UNCHANGED <<walk, target, open, objVars, timerVars, threadVars>>

\* Slip: the reply does not say what was handed over.
CollectNothing(t) ==
    /\ Stage(t, "top") /\ suspend[t] = 0 /\ done[t]
    /\ Return(t, {})
    /\ UNCHANGED <<walk, target, open, objVars, timerVars, threadVars>>

\* Slip: the hand-off is collected before the suspend check.
CollectSuspended(t) ==
    /\ Stage(t, "top") /\ done[t]
    /\ Return(t, took[t])
    /\ UNCHANGED <<walk, target, open, objVars, timerVars, threadVars>>

\* What another thread handed over comes before anything else.
Collect(t) ==
    /\ Stage(t, "top") /\ suspend[t] = 0 /\ done[t]
    /\ Return(t, took[t])
    /\ UNCHANGED <<walk, target, open, objVars, timerVars, threadVars>>

\* signal-and-wait, first time round: a bad wait handle or a signal that fails
\* ends the request with nothing done.
SignalFirst(t) ==
    /\ Stage(t, "top") /\ suspend[t] = 0 /\ ~done[t] /\ fresh[t]
    /\ IF req[t].objs[1] \in open /\ CanSignal(t, req[t].signal, 1)
       THEN /\ DoSignal(t, req[t].signal, 1)
            /\ fresh' = [fresh EXCEPT ![t] = FALSE]
            /\ Goto(t, "apc")
            /\ UNCHANGED <<lock, req, mode, done, took, waiters>>
       ELSE Return(t, {}) /\ UNCHANGED <<walk, objVars>>
    /\ UNCHANGED <<target, open, timerVars, threadVars>>

GoOn(t) ==
    /\ Stage(t, "top") /\ suspend[t] = 0 /\ ~done[t] /\ ~fresh[t]
    /\ Goto(t, "apc")
    /\ UNCHANGED <<lock, walk, target, open, objVars, timerVars, waitVars, notified,
                   threadVars, ghostVars>>

\* KERNEL_APC: the thread is to run a ready overlapped operation, its own before
\* one nobody else has taken.
TakeAsync(t) ==
    /\ Stage(t, "apc")
    /\ \E u \in Threads : /\ async[u] = "stale" \/ (u = t /\ async[u] = "ready")
                          /\ async[t] # "none" => u = t
                          /\ async' = [async EXCEPT ![u] = "none"]
    /\ Return(t, {})
    /\ UNCHANGED <<walk, target, open, objVars, timerVars, suspend, apc>>

TakeApc(t) ==
    /\ Stage(t, "apc") /\ ~ReadyFor(async, t)
    /\ req[t].alertable /\ apc[t] > 0
    /\ apc' = [apc EXCEPT ![t] = @ - 1]
    /\ Return(t, {})
    /\ UNCHANGED <<walk, target, open, objVars, timerVars, suspend, async>>

NoApc(t) ==
    /\ Stage(t, "apc") /\ ~ReadyFor(async, t) /\ ~(req[t].alertable /\ apc[t] > 0)
    /\ Goto(t, "timers")
    /\ UNCHANGED <<lock, walk, target, open, objVars, timerVars, waitVars, notified,
                   threadVars, ghostVars>>

\* horizon_server_update_timers_locked, one expired timer.
FireTimer(t, o) ==
    /\ Stage(t, "timers") \/ Stage(t, "info")
    /\ timer[o] = "due"
    /\ timer' = [timer EXCEPT ![o] = IF periodic[o] THEN "set" ELSE "idle"]
    /\ signaled' = [signaled EXCEPT ![o] = TRUE]
    /\ credit' = [c \in Counted |-> IF c = o /\ ~signaled[c] THEN credit[c] + 1 ELSE credit[c]]
    /\ StartWalk(o)
    /\ UNCHANGED <<lock, target, open, mutex, count, periodic, waitVars, pc, threadVars, held>>

TimersDone(t) ==
    /\ Stage(t, "timers")
    /\ \A o \in Timers : timer[o] # "due"
    /\ Goto(t, "test")
    /\ UNCHANGED <<lock, walk, target, open, objVars, timerVars, waitVars, notified,
                   threadVars, ghostVars>>

\* The wait is satisfied: by an expired timer's walk, or by what is there now.
Satisfied(t) ==
    /\ Stage(t, "test")
    /\ IF done[t]
       THEN Return(t, took[t]) /\ UNCHANGED objVars
       ELSE ~TimesOut(t) /\ Consume(t, Takes(t)) /\ Return(t, Takes(t))
    /\ UNCHANGED <<walk, target, open, timerVars, threadVars>>

\* A zero timeout, or a deadline that has passed.
TimedOut(t) ==
    /\ Stage(t, "test") /\ ~done[t] /\ TimesOut(t)
    /\ req[t].timeout # "never"
    /\ Return(t, {})
    /\ UNCHANGED <<walk, target, open, objVars, timerVars, threadVars>>

\* horizon_sync_queue_locked takes the wait: only one that came in directly, has
\* handles, and finds an object behind each of them.
CanQueue(t) == /\ req[t].direct /\ req[t].objs # <<>>
               /\ Elements(req[t].objs) \subseteq open

\* Sleep with the mutex released.  A queued wait does not sleep when a timer it
\* is linked to is due; it goes round again.
GoToSleep(t) ==
    /\ Stage(t, "test") /\ ~done[t] /\ TimesOut(t)
    /\ req[t].timeout # "zero"
    /\ IF mode[t] = "new" /\ CanQueue(t) THEN Queue(t) ELSE UNCHANGED waiters
    /\ mode' = [mode EXCEPT ![t] = IF @ # "new" THEN @ ELSE IF CanQueue(t) THEN "queued" ELSE "legacy"]
    /\ IF mode'[t] = "queued" /\ \E o \in Timers \cap Elements(req[t].objs) : timer[o] = "due"
       THEN Goto(t, "top") /\ UNCHANGED <<lock, notified>>
       ELSE /\ lock' = None /\ Goto(t, "asleep")
            /\ notified' = [notified EXCEPT ![t] = FALSE]
    /\ UNCHANGED <<walk, target, open, objVars, timerVars, req, fresh, done, took,
                   threadVars, ghostVars>>

\* Woken, or after 250 ms (queued) or 20 ms (legacy) anyway.
Wake(t) ==
    /\ lock = None /\ pc[t] = "asleep"
    /\ lock' = t /\ Goto(t, "top")
    /\ UNCHANGED <<walk, target, open, objVars, timerVars, waitVars, notified,
                   threadVars, ghostVars>>

-----------------------------------------------------------------------------
(* Thread start and exit                                                     *)

\* init_thread replies once the suspend count is zero.
InitThread(t) ==
    /\ lock = None /\ pc[t] = "gate" /\ suspend[t] = 0
    /\ Goto(t, "idle")
    /\ UNCHANGED <<lock, walk, target, open, objVars, timerVars, waitVars, notified,
                   threadVars, ghostVars>>

\* The request pipe closed: horizon_server_end_thread_locked marks the thread,
\* gives up its mutexes one by one (those that still have a handle), then wakes
\* whoever joins it, then everybody.
ExitThread(t) ==
    /\ Enter(t, "ending")
    /\ suspend' = [suspend EXCEPT ![t] = 0]
    /\ UNCHANGED <<walk, target, open, objVars, timerVars, waitVars, notified, apc,
                   async, ghostVars>>

OwnedOpen(t) == {m \in Mutexes \cap open : mutex[m].count > 0 /\ mutex[m].owner = t}

AbandonMutex(t, m) ==
    /\ Stage(t, "ending") /\ m \in OwnedOpen(t)
    /\ mutex' = [mutex EXCEPT ![m] = Abandoned]
    /\ held' = [held EXCEPT ![t] = [n \in Mutexes |-> IF n = m THEN 0 ELSE held[t][n]]]
    /\ StartWalk(m)
    /\ UNCHANGED <<lock, target, open, signaled, count, timerVars, waitVars, pc,
                   threadVars, credit>>

\* Slip: a thread ends with its mutexes.
WakeJoinersFirst(t) ==
    /\ Stage(t, "ending")
    /\ Goto(t, "joining")
    /\ StartWalk(t)
    /\ UNCHANGED <<lock, target, open, objVars, timerVars, waitVars, threadVars, ghostVars>>

WakeJoiners(t) ==
    /\ Stage(t, "ending") /\ OwnedOpen(t) = {}
    /\ Goto(t, "joining")
    /\ StartWalk(t)
    /\ UNCHANGED <<lock, target, open, objVars, timerVars, waitVars, threadVars, ghostVars>>

EndThread(t) ==
    /\ Stage(t, "joining")
    /\ lock' = None /\ Goto(t, "ended")
    /\ SignalChanged
    /\ UNCHANGED <<walk, target, open, objVars, timerVars, waitVars, threadVars, ghostVars>>

-----------------------------------------------------------------------------

Init ==
    /\ lock = None /\ walk = <<>> /\ target = None
    /\ open = Objects
    /\ signaled = [o \in Signals |-> FALSE]
    /\ mutex = [m \in Mutexes |-> [owner |-> None, count |-> 0, abandoned |-> FALSE]]
    /\ count = [s \in Semaphores |-> SemInit]
    /\ timer = [o \in Timers |-> "idle"] /\ periodic = [o \in Timers |-> FALSE]
    /\ waiters = [o \in Objects |-> <<>>]
    /\ pc = [t \in Threads |-> IF t \in Gated THEN "gate" ELSE "idle"]
    /\ req = [t \in Threads |-> NoRequest]
    /\ fresh = [t \in Threads |-> FALSE] /\ mode = [t \in Threads |-> "new"]
    /\ notified = [t \in Threads |-> FALSE] /\ done = [t \in Threads |-> FALSE]
    /\ took = [t \in Threads |-> {}]
    /\ suspend = [t \in Threads |-> IF t \in Gated THEN 1 ELSE 0]
    /\ apc = [t \in Threads |-> 0] /\ async = [t \in Threads |-> "none"]
    /\ held = [t \in Threads |-> [m \in Mutexes |-> 0]]
    /\ credit = [c \in Counted |-> IF c \in Semaphores THEN SemInit ELSE 0]

\* What a client asks of the server.
Request(t) ==
    \/ \E r \in Requests : Select(t, r)
    \/ \E e \in Events : SetEvent(t, e) \/ ResetEvent(t, e) \/ PulseEvent(t, e)
    \/ \E m \in Mutexes : ReleaseMutex(t, m)
    \/ \E s \in Semaphores, n \in 1..SemMax : ReleaseSemaphore(t, s, n)
    \/ \E o \in Timers : CancelTimer(t, o) \/ \E p \in BOOLEAN : SetTimer(t, o, p)
    \/ Timers # {} /\ GetTimerInfo(t)
    \/ \E o \in Closable : CloseHandle(t, o)
    \/ \E u \in Threads : SuspendThread(t, u) \/ ResumeThread(t, u) \/ QueueApc(t, u)
    \/ ExitThread(t)

\* The server, between a request and its reply.
Serve(t) ==
    \/ EndCall(t) \/ EndPulse(t)
    \/ Park(t) \/ Collect(t) \/ SignalFirst(t) \/ GoOn(t)
    \/ TakeAsync(t) \/ TakeApc(t) \/ NoApc(t)
    \/ \E o \in Timers : FireTimer(t, o)
    \/ TimersDone(t) \/ Satisfied(t) \/ TimedOut(t) \/ GoToSleep(t)
    \/ \E m \in Mutexes : AbandonMutex(t, m)
    \/ WakeJoiners(t) \/ EndThread(t)

\* Taking the mutex again after a sleep.
Reenter(t) == Wake(t) \/ Unpark(t) \/ InitThread(t)

Environment ==
    \/ \E o \in Timers : Tick(o)
    \/ \E u \in AsyncOwners, s \in {"ready", "stale"} : PollAsync(u, s)

Next ==
    \/ Visit
    \/ \E t \in Threads : Request(t) \/ Serve(t) \/ Reenter(t)
    \/ Environment

Spec == Init /\ [][Next]_vars

\* The mutex holder runs on, and a thread that wakes gets the mutex: Horizon's
\* kernel hands a contended mutex to the threads queued on it.
Fairness ==
    /\ WF_vars(Visit)
    /\ \A t \in Threads : WF_vars(Serve(t)) /\ SF_vars(Reenter(t))

FairSpec == Spec /\ Fairness

-----------------------------------------------------------------------------
(* Properties                                                                *)

MutexType == [owner : Threads \cup {None}, count : Nat, abandoned : BOOLEAN]

Stages == {"gate", "idle", "call", "info", "pulse", "top", "apc", "timers", "test",
           "asleep", "parked", "ending", "joining", "ended"}

\* Types of the server's structures.
TypeOK ==
    /\ lock \in Threads \cup {None} /\ walk \in Seq(Threads)
    /\ target \in Events \cup {None} /\ open \subseteq Objects
    /\ signaled \in [Signals -> BOOLEAN]
    /\ mutex \in [Mutexes -> MutexType]
    /\ count \in [Semaphores -> 0..SemMax]
    /\ timer \in [Timers -> {"idle", "set", "due"}] /\ periodic \in [Timers -> BOOLEAN]
    /\ waiters \in [Objects -> Seq(Threads)]
    /\ pc \in [Threads -> Stages]
    /\ req \in [Threads -> Requests \cup {NoRequest}]
    /\ fresh \in [Threads -> BOOLEAN] /\ mode \in [Threads -> {"new", "legacy", "queued"}]
    /\ notified \in [Threads -> BOOLEAN] /\ done \in [Threads -> BOOLEAN]
    /\ took \in [Threads -> SUBSET Objects]
    /\ suspend \in [Threads -> 0..MaxSuspend] /\ apc \in [Threads -> 0..MaxApc]
    /\ async \in [Threads -> {"none", "ready", "stale"}]
    /\ held \in [Threads -> [Mutexes -> Int]]
    /\ credit \in [Counted -> Int]

Unwoken(t) == pc[t] = "asleep" /\ ~notified[t]

\* Stages with the objects mutex held.
Inside == {"call", "info", "pulse", "top", "apc", "timers", "test", "ending", "joining"}

\* The mutex is held by the one thread that is inside the server; a walk only goes
\* on while it is held, over threads that are queued.
LockInv ==
    /\ \A t \in Threads : pc[t] \in Inside <=> lock = t
    /\ lock = None => walk = <<>>
    /\ \A t \in Elements(walk) : mode[t] = "queued"
    /\ \A t \in Threads : pc[t] = "pulse" => target \in Events

\* The stages of select's loop rely on what an earlier stage looked at.
LoopInv ==
    \A t \in Threads :
        /\ pc[t] \in {"apc", "timers", "test"} => suspend[t] = 0
        /\ pc[t] \in {"timers", "test"} => ~MustLook(t)
        /\ pc[t] = "asleep" => mode[t] # "new"
        /\ mode[t] = "queued" => pc[t] \in {"top", "apc", "timers", "test", "asleep"}

\* Every queued wait is linked to each of its objects, once.
LinkInv ==
    \A o \in Objects :
        /\ \A t \in Threads : mode[t] = "queued" /\ o \in Elements(req[t].objs)
                                => t \in Elements(waiters[o])
        /\ \A t \in Elements(waiters[o]) : mode[t] = "queued"
        /\ \A i, j \in DOMAIN waiters[o] : waiters[o][i] = waiters[o][j] => i = j

\* A link belongs to a request that names the object.
ExactInv ==
    \A o \in Objects : \A t \in Elements(waiters[o]) : o \in Elements(req[t].objs)

\* A thread keeps no mutex with a handle past its own end.
EndInv ==
    \A t \in Threads : pc[t] \in {"joining", "ended"} => OwnedOpen(t) = {}

\* x has an older link than y in a list.
Ahead(s, x, y) == \E i, j \in DOMAIN s : i < j /\ s[i] = x /\ s[j] = y

SameOrder(a, b) == \A x, y \in Threads : Ahead(a, x, y) => ~Ahead(b, y, x)

\* A wait is linked to all its objects at once, so no two lists disagree on who
\* came first, and neither does the walk.
LineInv ==
    \A o \in Objects :
        /\ \A p \in Objects : SameOrder(waiters[o], waiters[p])
        /\ SameOrder(walk, waiters[o])

\* What was handed over waits for its thread to come back to the top of select's
\* loop, and nothing is handed to a thread between there and its timers.
HandInv ==
    \A t \in Threads :
        /\ took[t] # {} => done[t]
        /\ done[t] => pc[t] \in {"top", "timers", "test", "asleep", "parked"}
        /\ mode[t] # "new" => pc[t] \in {"top", "apc", "timers", "test", "asleep", "parked"}
        /\ fresh[t] => pc[t] \in {"top", "parked"} /\ mode[t] = "new"
        /\ pc[t] = "apc" => t \notin Elements(walk)

\* t waits for the thread whose end is being carried out: its joiners are walked
\* after the mutexes it leaves.
JoinsEnding(t) == lock \in Elements(req[t].objs) /\ lock \in Threads /\ pc[lock] = "ending"

\* A sleeper the walk, or the rest of end_thread, has still to come to.
ToCome(t) == t \in Elements(walk) \/ JoinsEnding(t)

\* NoLostWakeup, with the mutex held.
WakeInv ==
    \A t \in Threads : Unwoken(t) =>
        ~done[t] /\ (~ToCome(t) => TimesOut(t) /\ ~MustLook(t))

\* A queued wait that looks for itself, though nobody woke it, has nothing yet.
QuietInv ==
    \A t \in Queued : pc[t] # "asleep" /\ ~notified[t] /\ ~done[t] /\ t \notin Elements(walk)
        => TimesOut(t)

\* Whenever the objects mutex is free, a select that sleeps and has not been woken
\* has nothing to do: it was handed nothing, its wait would still time out, its
\* thread is not suspended, no APC it could run is pending.  The 250 ms and 20 ms
\* rechecks of horizon_sync_sleep_locked and horizon_server_sleep_locked are then
\* only a safety net, as the comment on HORIZON_SERVER_WAIT_SLICE says.
NoLostWakeup ==
    lock = None =>
        \A t \in Threads : Unwoken(t) => ~done[t] /\ TimesOut(t) /\ ~MustLook(t)

\* What the client of t knows it holds, and what a wait took for it and the reply
\* has still to tell, are together exactly the mutex's recursion count: a hand-off
\* is neither lost nor told twice, across suspension, a timeout or wait-all, and no
\* two clients hold a mutex.  An abandoned mutex is free.
MutexOwnership ==
    \A m \in Mutexes :
        /\ \A t \in Threads :
              held[t][m] + (IF m \in took[t] THEN 1 ELSE 0)
                = IF mutex[m].owner = t THEN mutex[m].count ELSE 0
        /\ mutex[m].count = 0 <=> mutex[m].owner = None
        /\ mutex[m].abandoned => mutex[m].count = 0

Available(c) == IF c \in Semaphores THEN count[c] ELSE IF signaled[c] THEN 1 ELSE 0

\* A semaphore's count, an auto-reset event's or timer's flag: every signal given is
\* still there, or was taken for exactly one wait that has not returned yet, or has
\* been told to one client (or was cleared).
SignalsConserved ==
    \A c \in Counted :
        Available(c) + Cardinality({t \in Threads : c \in took[t]}) = credit[c]

\* Once a thread has ended, no mutex that still has a handle is left with it: every
\* waiter can go on.
NoOrphanedMutex ==
    \A t \in Threads : pc[t] = "ended" => OwnedOpen(t) = {}

\* object->waiters holds a thread once if it is queued with a request naming the
\* object, and not otherwise: no link outlives the stack frame it is in.
LinksMatchQueue ==
    \A o \in Objects, t \in Threads :
        Cardinality({i \in DOMAIN waiters[o] : waiters[o][i] = t})
            = IF mode[t] = "queued" /\ o \in Elements(req[t].objs) THEN 1 ELSE 0

\* Whoever leaves, leaves nothing behind: neither a mutex owned by a thread that
\* has ended nor a link into a stack frame that is gone.
LeavesNothing == NoOrphanedMutex /\ LinksMatchQueue

InSelect(t) == pc[t] \in {"top", "apc", "timers", "test", "asleep", "parked"}

\* A suspended thread does not come back from select.
SuspendedStaysInside ==
    [][\A t \in Threads : InSelect(t) /\ ~InSelect(t)' => suspend[t] = 0]_vars

Before(s, t) == {s[i] : i \in {j \in DOMAIN s : \A k \in 1..j : s[k] # t}}

Gets(t, o) == (o \in took'[t] /\ o \notin took[t]) \/ (o \in Counted /\ pc[t] = "test"
                 /\ pc'[t] = "idle" /\ o \in Takes(t) /\ ~done[t] /\ credit'[o] < credit[o])

\* Waiters on an object are served in the order of its list, oldest first: a thread
\* takes a signal (by hand-off or on its own) only past waiters that have been woken
\* already, cannot use it, have something else to do first, or also wait for the
\* thread that is just ending.
NoOvertaking ==
    [][\A t \in Threads, o \in Objects : Gets(t, o) =>
          \A u \in Before(waiters[o], t) :
              notified[u] \/ done[u] \/ TimesOut(u) \/ MustLook(u) \/ JoinsEnding(u)]_vars

\* No thread stays in select forever while it is not suspended and its wait could be
\* satisfied.
NotStuck ==
    \A t \in Threads : []<>(~InSelect(t) \/ suspend[t] > 0 \/ TimesOut(t))

\* What was handed to a wait reaches its client, unless the thread is suspended.
HandoffReturns ==
    \A t \in Threads : done[t] ~> (~done[t] \/ suspend[t] > 0)

\* A wait ends when it can: both of the above.
WaitsEnd == NotStuck /\ HandoffReturns
=============================================================================
