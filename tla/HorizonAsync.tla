---------------------------- MODULE HorizonAsync ----------------------------
(***************************************************************************)
(* Overlapped socket operations and the completion port they report to     *)
(* (dlls/ntdll/unix/horizon_async.h, horizon_completion.h, horizon.c, and  *)
(* the client's half in socket.c, file.c, sync.c and server.c).            *)
(*                                                                         *)
(* A recv is tried by the program's own thread; when it would block, the   *)
(* server queues it, the poller thread makes it ready when bytes are       *)
(* there, and a thread that waits in the server runs it as a system APC    *)
(* and brings the result with its next select.  An accept is done by the   *)
(* poller and only fetched by the thread.  pc[t]:                          *)
(*   idle          in the program                                          *)
(*   try, tell     trying a recv; its result on the way to the server      *)
(*   remove        remove_completion said PENDING, select not called yet   *)
(*   body          in select's loop, holding the objects mutex             *)
(*   asleep        in select, on its condition variable                    *)
(*   run, report   running a system APC; its result not yet sent           *)
(*   got           select took a packet, get_thread_completion to come     *)
(*   ended                                                                 *)
(* The bytes of a stream and the connections of a listener are numbered in *)
(* the order they arrive.  The send direction, which waits on POLLOUT in   *)
(* the same lists, is left out, as is AcceptEx's wait for first data.      *)
(***************************************************************************)
EXTENDS Integers, Sequences, FiniteSets, SequencesExt, SeqFilter

CONSTANTS
    Threads, Socks, Ops,
    Listeners,   \* the sockets that listen: their operations are accepts
    Ported,      \* operations told by packet; the others by event or routine
    Skip,        \* FILE_SKIP_COMPLETION_PORT_ON_SUCCESS
    Posts,       \* packets the program posts itself
    Callers,     \* threads that start operations; the others wait and close sockets
    Starts,      \* where the program stands at the start: sockets, and what is over
    Servers,     \* threads that wait for the port again and again
    MaxArrivals, \* bound: bytes or connections that reach a socket
    MaxCancels,  \* bound: calls of CancelIo and CancelIoEx
    MaxPolled,   \* sockets one pass of the poller looks at: 64
    None, Abandoned

ASSUME AsyncAssumption ==
    /\ IsFiniteSet(Threads)
    /\ Listeners \subseteq Socks /\ Ported \subseteq Ops /\ Servers \subseteq Threads
    /\ Callers \subseteq Threads
    /\ Starts \subseteq [socks : SUBSET Socks, past : SUBSET (Ops \cup Posts)]
    /\ Skip \in BOOLEAN /\ MaxArrivals \in Nat /\ MaxCancels \in Nat
    /\ MaxPolled \in Nat \ {0}
    /\ Ops \cap Posts = {} /\ None \notin Ops \cup Posts
    /\ Abandoned \notin Ops \cup Posts \cup {None}

Packets == Ops \cup Posts

VARIABLES
    list,     \* horizon_asyncs, oldest first
    state, owner, sock, pending, status,   \* struct horizon_async
    stale,    \* ready for HORIZON_ASYNC_STALE without its thread
    got,      \* the byte or connection the operation has, 0 for none
    result,   \* what the client makes of the operation
    open,     \* sockets with a handle
    arrived, taken,  \* per socket: what came, and what was read or accepted
    port, portOpen,  \* the port's queue, and whether it has a handle
    waiters,  \* links on the port, oldest first
    pc,
    cur,      \* the operation a thread tries or runs
    onPort,   \* it waits for the port, not for something else
    notified, msg,   \* waiter->notified; the message its wait took
    started,  \* history: operations in the order they were started
    cancels,  \* history: cancel_async requests so far
    posts, received, told   \* history: packets posted, received; other news

asyncVars == <<list, state, owner, sock, pending, status, stale, got, result, started>>
sockVars  == <<open, arrived, taken, cancels>>
portVars  == <<port, portOpen, msg, notified, posts>>
waitVars  == <<waiters, onPort>>
vars == <<asyncVars, sockVars, portVars, waitVars, pc, cur, received, told>>

TypeOK ==
    /\ list \in Seq(Ops) /\ IsInjective(list)
    /\ state \in [Ops -> {"idle", "direct", "queued", "ready", "running", "done"}]
    /\ owner \in [Ops -> Threads \cup {None}] /\ sock \in [Ops -> Socks \cup {None}]
    /\ pending \in [Ops -> BOOLEAN] /\ stale \in [Ops -> BOOLEAN]
    /\ status \in [Ops -> {"alerted", "cancelled", "closed"}]
    /\ got \in [Ops -> 0..MaxArrivals]
    /\ result \in [Ops -> {"none", "again", "ok", "failed", "cancelled", "closed"}]
    /\ open \subseteq Socks
    /\ arrived \in [Socks -> 0..MaxArrivals] /\ taken \in [Socks -> 0..MaxArrivals]
    /\ port \in Seq(Packets) /\ portOpen \in BOOLEAN
    /\ waiters \in Seq(Threads) /\ IsInjective(waiters)
    /\ pc \in [Threads -> {"idle", "try", "tell", "remove", "body", "asleep",
                           "run", "report", "got", "ended"}]
    /\ cur \in [Threads -> Ops \cup {None}] /\ onPort \in [Threads -> BOOLEAN]
    /\ notified \in [Threads -> BOOLEAN]
    /\ msg \in [Threads -> Packets \cup {None, Abandoned}]
    /\ started \in Seq(Ops)
    /\ cancels \in 0..MaxCancels
    /\ posts \in [Packets -> Nat] /\ received \in [Packets -> Nat] /\ told \in [Ops -> Nat]

\* The program has opened its sockets; the operations and packets of its past have
\* ended at once and been received, the others are still to come.
InitFrom(start) ==
    /\ list = <<>> /\ started = <<>>
    /\ state = [o \in Ops |-> IF o \in start.past THEN "done" ELSE "idle"]
    /\ status = [o \in Ops |-> "alerted"]
    /\ owner = [o \in Ops |-> None] /\ sock = [o \in Ops |-> None]
    /\ pending = [o \in Ops |-> FALSE] /\ stale = [o \in Ops |-> FALSE]
    /\ got = [o \in Ops |-> 0]
    /\ result = [o \in Ops |-> IF o \in start.past THEN "ok" ELSE "none"]
    /\ open = start.socks
    /\ arrived = [s \in Socks |-> 0] /\ taken = [s \in Socks |-> 0]
    /\ port = <<>> /\ portOpen = TRUE /\ waiters = <<>>
    /\ pc = [t \in Threads |-> "idle"] /\ cur = [t \in Threads |-> None]
    /\ onPort = [t \in Threads |-> FALSE] /\ notified = [t \in Threads |-> FALSE]
    /\ msg = [t \in Threads |-> None]
    /\ cancels = 0
    /\ posts = [p \in Packets |->
                  IF p \in start.past /\ (p \in Posts \/ (p \in Ported /\ ~Skip)) THEN 1 ELSE 0]
    /\ received = posts
    /\ told = [o \in Ops |-> IF o \in start.past \ Ported THEN 1 ELSE 0]

Init == \E start \in Starts : InitFrom(start)

Goto(t, p) == pc' = [pc EXCEPT ![t] = p]

\* No thread is inside select's loop, so the objects mutex can be taken.
Free == \A t \in Threads : pc[t] # "body"

Readable(s) == s \in open /\ taken[s] < arrived[s]

-----------------------------------------------------------------------------
(* The list of operations.                                                  *)

\* Mutant: a thread runs what it started and nothing else.
ReadyForOwn(t) == Keep(list, {o \in Ops : state[o] = "ready" /\ owner[o] = t})

\* horizon_async_ready_for: the ready operations t may run, best first.
ReadyFor(t) ==
    Keep(list, {o \in Ops : state[o] = "ready" /\ owner[o] = t}) \o
    Keep(list, {o \in Ops : state[o] = "ready" /\ stale[o]})

\* Mutant: a queued operation is picked whatever goes before it.
NextQueuedAny(s) == {o \in Ops : sock[o] = s /\ state[o] = "queued"}

\* horizon_async_next_queued: the oldest on the socket that is not being
\* tried, if it is queued, as a set of none or one.
NextQueued(s) ==
    {list[i] : i \in {k \in DOMAIN list :
        /\ sock[list[k]] = s /\ state[list[k]] = "queued"
        /\ \A j \in 1..(k - 1) : sock[list[j]] = s => state[list[j]] = "direct"}}

\* The sockets one pass looks at: the first MaxPolled with a queued operation.
Polled ==
    LET queued == Keep(list, {o \in Ops : state[o] = "queued"})
        socks  == [i \in DOMAIN queued |-> sock[queued[i]]]
        firsts == {i \in DOMAIN socks : \A j \in 1..(i - 1) : socks[j] # socks[i]}
    IN  {socks[i] : i \in {k \in firsts : Cardinality({j \in firsts : j <= k}) <= MaxPolled}}

\* horizon_async_completion: an operation that failed at once is told of by
\* the call itself.
Tells(o, pend) == pend \/ result[o] # "failed"
\* Mutant: the skip is applied to what went pending.
PostedUnlessSkip(o, pend) == Tells(o, pend) /\ o \in Ported /\ ~Skip

\* One that succeeded at once may skip the port.
Posted(o, pend) == Tells(o, pend) /\ o \in Ported /\ (pend \/ ~Skip)

-----------------------------------------------------------------------------
(* The port.                                                                *)

\* Waiters that can be given something now, and waiters only woken because
\* they have an operation to run first.
Fit  == Keep(waiters, {t \in Threads : msg[t] = None /\ ReadyFor(t) = <<>>})
Busy == {t \in ToSet(waiters) : msg[t] = None /\ ReadyFor(t) # <<>>}

\* The waiters of fit take the messages of q in turn, or are abandoned.
Serve(q, opened, fit, busy) ==
    LET n == IF opened /\ Len(q) < Len(fit) THEN Len(q) ELSE Len(fit)
        served == {fit[i] : i \in 1..n}
    IN  /\ msg' = [t \in Threads |->
                     IF t \notin served THEN msg[t]
                     ELSE IF ~opened THEN Abandoned
                     ELSE q[CHOOSE i \in 1..n : fit[i] = t]]
        /\ port' = IF opened THEN SubSeq(q, n + 1, Len(q)) ELSE q
        /\ notified' = [t \in Threads |-> notified[t] \/ t \in served \cup busy]

\* Mutant: a waiter with an operation to run is passed over without a wake.
HandOverSilent(q, opened) == Serve(q, opened, Fit, {})

\* horizon_sync_notify_object_locked on the port, whose queue is now q and
\* which has a handle or not.
HandOver(q, opened) == Serve(q, opened, Fit, Busy)

\* horizon_server_post_completion_locked.
Post(p) ==
    /\ posts' = [posts EXCEPT ![p] = @ + 1]
    /\ HandOver(Append(port, p), portOpen)
    /\ UNCHANGED portOpen

\* horizon_async_remove, horizon_async_finish_locked and the free after it.
Finish(o, pend) ==
    /\ list' = Keep(list, Ops \ {o})
    /\ state' = [state EXCEPT ![o] = "done"]
    /\ status' = [status EXCEPT ![o] = "alerted"] /\ stale' = [stale EXCEPT ![o] = FALSE]
    /\ IF Posted(o, pend) THEN Post(o) ELSE UNCHANGED portVars
    /\ told' = [told EXCEPT ![o] = @ + IF Tells(o, pend) /\ o \notin Ported THEN 1 ELSE 0]

-----------------------------------------------------------------------------
(* A thread starts an operation.                                            *)

\* horizon_server_async_create_locked.
Create(t, o, s, st) ==
    /\ pc[t] = "idle" /\ state[o] = "idle" /\ s \in open /\ Free
    /\ owner' = [owner EXCEPT ![o] = t] /\ sock' = [sock EXCEPT ![o] = s]
    /\ state' = [state EXCEPT ![o] = st]
    /\ started' = Append(started, o)

\* recv_socket: always ALERTED, the client tries it itself.
Recv(t, o, s) ==
    /\ s \notin Listeners
    /\ Create(t, o, s, "direct")
    /\ list' = Append(list, o)
    /\ cur' = [cur EXCEPT ![t] = o] /\ Goto(t, "try")
    /\ UNCHANGED <<pending, status, stale, got, result, sockVars, portVars, waitVars,
                   received, told>>

\* horizon_sock_ioctl_accept and the direct completion of ioctl_done.
Accept(t, o, s) ==
    /\ s \in Listeners
    /\ IF Readable(s)
       THEN /\ Create(t, o, s, "done")
            /\ taken' = [taken EXCEPT ![s] = @ + 1]
            /\ got' = [got EXCEPT ![o] = taken[s] + 1]
            /\ result' = [result EXCEPT ![o] = "ok"]
            /\ IF o \in Ported /\ ~Skip THEN Post(o) ELSE UNCHANGED portVars
            /\ told' = [told EXCEPT ![o] = @ + IF o \in Ported THEN 0 ELSE 1]
            /\ UNCHANGED <<list, pending>>
       ELSE /\ Create(t, o, s, "queued")
            /\ list' = Append(list, o)
            /\ pending' = [pending EXCEPT ![o] = TRUE]
            /\ UNCHANGED <<taken, got, result, portVars, told>>
    /\ UNCHANGED <<cancels, status, stale, open, arrived, waitVars, pc, cur, received>>

\* What a recv on o's socket gives: bytes, nothing yet, or a bad descriptor.
ReadNow(o) ==
    LET s == sock[o]
    IN  /\ result' = [result EXCEPT ![o] = IF s \notin open THEN "failed"
                                           ELSE IF Readable(s) THEN "ok" ELSE "again"]
        /\ IF Readable(s)
           THEN /\ taken' = [taken EXCEPT ![s] = @ + 1]
                /\ got' = [got EXCEPT ![o] = taken[s] + 1]
           ELSE UNCHANGED <<taken, got>>

\* sock_recv's try_recv, outside the server.
Try(t) ==
    /\ pc[t] = "try" /\ Goto(t, "tell")
    /\ ReadNow(cur[t])
    /\ UNCHANGED <<cancels, list, state, owner, sock, pending, status, stale, started, open, arrived,
                   portVars, waitVars, cur, received, told>>

\* set_async_direct_result.
Tell(t) ==
    /\ pc[t] = "tell" /\ Free /\ Goto(t, "idle")
    /\ LET o == cur[t]
       IN  IF result[o] = "again"
           THEN /\ state' = [state EXCEPT ![o] = "queued"]
                /\ pending' = [pending EXCEPT ![o] = TRUE]
                /\ UNCHANGED <<list, status, stale, portVars, told>>
           ELSE Finish(o, FALSE) /\ UNCHANGED pending
    /\ cur' = [cur EXCEPT ![t] = None]
    /\ UNCHANGED <<owner, sock, got, result, started, sockVars, waitVars, received>>

-----------------------------------------------------------------------------
(* Operations become ready: the poller, cancellation, closing.              *)

\* horizon_sync_notify_async_locked, after the operations of S became ready.
NotifyAsync(S) ==
    notified' = [t \in Threads |->
        \/ notified[t]
        \/ /\ pc[t] = "asleep" /\ msg[t] = None
           /\ \E o \in Ops : \/ o \in S /\ owner[o] = t
                             \/ o \notin S /\ state[o] = "ready" /\ (owner[o] = t \/ stale[o])]

\* horizon_async_ready of each operation of S.
MakeReady(S, st) ==
    /\ state' = [o \in Ops |-> IF o \in S THEN "ready" ELSE state[o]]
    /\ status' = [o \in Ops |-> IF o \in S THEN st ELSE status[o]]
    /\ stale' = [o \in Ops |-> IF o \in S THEN FALSE ELSE stale[o]]
    /\ NotifyAsync(S)

\* One pass of the poller: a recv is handed to its thread, an accept is done
\* here, into a socket whose handle waits to be fetched.
Poll ==
    LET fire == UNION {NextQueued(s) : s \in {q \in Polled : Readable(q)}}
        accepts == {o \in fire : sock[o] \in Listeners}
    IN  /\ Free
        /\ fire # {} \/ \E o \in Ops : state[o] = "ready" /\ stale[o]
        /\ MakeReady(fire, "alerted")
        /\ got' = [o \in Ops |-> IF o \in accepts THEN taken[sock[o]] + 1 ELSE got[o]]
        /\ taken' = [s \in Socks |-> IF \E o \in accepts : sock[o] = s
                                     THEN taken[s] + 1 ELSE taken[s]]
        /\ UNCHANGED <<cancels, list, owner, sock, pending, result, started, open, arrived, port,
                       portOpen, msg, posts, waitVars, pc, cur, received, told>>

\* HORIZON_ASYNC_STALE passes and the thread of a ready operation has not come.
GrowStale(o) ==
    /\ state[o] = "ready" /\ ~stale[o]
    /\ stale' = [stale EXCEPT ![o] = TRUE]
    /\ UNCHANGED <<list, state, owner, sock, pending, status, got, result, started, sockVars,
                   portVars, waitVars, pc, cur, received, told>>

\* The operations on a socket horizon_async_cancel ends.
Cancellable(s) == {o \in Ops : sock[o] = s /\ state[o] \in {"queued", "ready"}}

\* cancel_async: all of a socket's operations, those of the calling thread, or one.
Cancel(t, s) ==
    /\ pc[t] = "idle" /\ Free /\ s \in open
    /\ cancels < MaxCancels /\ cancels' = cancels + 1
    /\ \E S \in {Cancellable(s), {o \in Cancellable(s) : owner[o] = t}}
              \cup {{o} : o \in Cancellable(s)} :
          S # {} /\ MakeReady(S, "cancelled")
    /\ UNCHANGED <<list, owner, sock, pending, got, result, started, open, arrived, taken, port,
                   portOpen, msg, posts, waitVars, pc, cur, received, told>>

\* close_object_handle of a socket: recvs end HANDLES_CLOSED, accepts CANCELLED.
CloseSock(t, s) ==
    /\ pc[t] = "idle" /\ Free /\ s \in open
    /\ open' = open \ {s}
    /\ MakeReady(Cancellable(s), IF s \in Listeners THEN "cancelled" ELSE "closed")
    /\ UNCHANGED <<cancels, list, owner, sock, pending, got, result, started, arrived, taken, port,
                   portOpen, msg, posts, waitVars, pc, cur, received, told>>

-----------------------------------------------------------------------------
(* A thread waits, runs system APCs and takes packets.                      *)

\* remove_completion: a message at once, or the handle to wait on.
RemoveCompletion(t) ==
    /\ pc[t] = "idle" /\ Free /\ portOpen
    /\ IF port = <<>>
       THEN /\ Goto(t, "remove") /\ onPort' = [onPort EXCEPT ![t] = TRUE]
            /\ UNCHANGED <<port, received>>
       ELSE /\ received' = [received EXCEPT ![Head(port)] = @ + 1]
            /\ port' = Tail(port)
            /\ UNCHANGED <<pc, onPort>>
    /\ UNCHANGED <<asyncVars, sockVars, portOpen, msg, notified, posts, waiters, cur, told>>

\* A wait on anything else, which a server thread makes once it has no port.
WaitOther(t) ==
    /\ pc[t] = "idle" /\ Goto(t, "remove")
    /\ t \in Servers => ~portOpen
    /\ onPort' = [onPort EXCEPT ![t] = FALSE]
    /\ UNCHANGED <<asyncVars, sockVars, portVars, waiters, cur, received, told>>

\* The select request comes in, or a sleeper looks again: woken, or the slice
\* of 250 ms is over.
Enter(t) ==
    /\ pc[t] \in {"remove", "asleep"} /\ Free /\ Goto(t, "body")
    /\ UNCHANGED <<asyncVars, sockVars, portVars, waitVars, cur, received, told>>

\* Leaving select drops the waiter and its link on the port.
Leave(t, p) ==
    /\ Goto(t, p)
    /\ waiters' = Keep(waiters, Threads \ {t})
    /\ notified' = [notified EXCEPT ![t] = FALSE]

\* waiter.completed: the packet was handed over, or the wait abandoned.
Completed(t) ==
    /\ pc[t] = "body" /\ msg[t] # None
    /\ IF msg[t] = Abandoned
       THEN Leave(t, "idle") /\ msg' = [msg EXCEPT ![t] = None]
       ELSE Leave(t, "got") /\ UNCHANGED msg
    /\ UNCHANGED <<asyncVars, sockVars, port, portOpen, posts, onPort, cur, received, told>>

\* horizon_server_async_apc_locked: select ends with KERNEL_APC.
RunApc(t) ==
    /\ pc[t] = "body" /\ msg[t] = None /\ ReadyFor(t) # <<>>
    /\ LET o == Head(ReadyFor(t))
       IN  state' = [state EXCEPT ![o] = "running"] /\ cur' = [cur EXCEPT ![t] = o]
    /\ Leave(t, "run")
    /\ UNCHANGED <<list, owner, sock, pending, status, stale, got, result, started, sockVars,
                   port, portOpen, msg, posts, onPort, received, told>>

\* select_status on the completion wait: horizon_completion_wait_satisfy.
Take(t) ==
    /\ pc[t] = "body" /\ onPort[t] /\ msg[t] = None /\ ReadyFor(t) = <<>>
    /\ IF portOpen
       THEN /\ port # <<>>
            /\ msg' = [msg EXCEPT ![t] = Head(port)] /\ port' = Tail(port)
            /\ Leave(t, "got")
       ELSE Leave(t, "idle") /\ UNCHANGED <<port, msg>>
    /\ UNCHANGED <<asyncVars, sockVars, portOpen, posts, onPort, cur, received, told>>

\* Nothing to do: queue the waiter and sleep, or the wait ends for a reason of
\* its own (its time-out, a user APC, the other object it waits on).
Sleep(t) ==
    /\ pc[t] = "body" /\ msg[t] = None /\ ReadyFor(t) = <<>>
    /\ onPort[t] => portOpen /\ port = <<>>
    /\ \/ /\ Goto(t, "asleep")
          /\ waiters' = IF onPort[t] /\ t \notin ToSet(waiters) THEN Append(waiters, t) ELSE waiters
          /\ notified' = [notified EXCEPT ![t] = FALSE]
       \/ Leave(t, "idle")
    /\ UNCHANGED <<asyncVars, sockVars, port, portOpen, msg, posts, onPort, cur, received, told>>

\* invoke_system_apc: async_recv_proc reads again, or passes on how it ended;
\* an accept's callback fetches what the server left.
Callback(t) ==
    /\ pc[t] = "run" /\ Goto(t, "report")
    /\ LET o == cur[t]
       IN  IF status[o] # "alerted"
           THEN result' = [result EXCEPT ![o] = status[o]] /\ UNCHANGED <<taken, got>>
           ELSE IF sock[o] \in Listeners
           THEN result' = [result EXCEPT ![o] = "ok"] /\ UNCHANGED <<taken, got>>
           ELSE ReadNow(o)
    /\ UNCHANGED <<cancels, list, state, owner, sock, pending, status, stale, started, open, arrived,
                   portVars, waitVars, cur, received, told>>

\* The next select brings the result (horizon_server_async_result_locked) and
\* goes on into its loop.
Report(t) ==
    /\ pc[t] = "report" /\ Free /\ Goto(t, "body")
    /\ LET o == cur[t]
       IN  IF result[o] = "again"
           THEN /\ state' = [state EXCEPT ![o] = "queued"]
                /\ status' = [status EXCEPT ![o] = "alerted"]
                /\ stale' = [stale EXCEPT ![o] = FALSE]
                /\ UNCHANGED <<list, portVars, told>>
           ELSE Finish(o, pending[o])
    /\ cur' = [cur EXCEPT ![t] = None]
    /\ UNCHANGED <<owner, sock, pending, got, result, started, sockVars, waitVars, received>>

\* get_thread_completion.
GetThreadCompletion(t) ==
    /\ pc[t] = "got" /\ Free /\ Goto(t, "idle")
    /\ received' = [received EXCEPT ![msg[t]] = @ + 1]
    /\ msg' = [msg EXCEPT ![t] = None]
    /\ UNCHANGED <<asyncVars, sockVars, port, portOpen, notified, posts, waitVars, cur, told>>

\* add_completion: PostQueuedCompletionStatus.
AddCompletion(t, p) ==
    /\ pc[t] = "idle" /\ Free /\ portOpen /\ posts[p] = 0
    /\ Post(p)
    /\ UNCHANGED <<asyncVars, sockVars, waitVars, pc, cur, received, told>>

\* close_object_handle of the port's last handle.
ClosePort(t) ==
    /\ pc[t] = "idle" /\ Free /\ portOpen
    /\ portOpen' = FALSE
    /\ HandOver(port, FALSE)
    /\ UNCHANGED <<posts, asyncVars, sockVars, waitVars, pc, cur, received, told>>

\* The thread ends; what it started stays in the list.
EndThread(t) ==
    /\ pc[t] = "idle" /\ t \notin Servers /\ Goto(t, "ended")
    /\ UNCHANGED <<asyncVars, sockVars, portVars, waitVars, cur, received, told>>

\* Bytes or a connection reach an open socket.
Arrive(s) ==
    /\ s \in open /\ arrived[s] < MaxArrivals
    /\ arrived' = [arrived EXCEPT ![s] = @ + 1]
    /\ UNCHANGED <<cancels, asyncVars, open, taken, portVars, waitVars, pc, cur, received, told>>

Calls(t) ==
    \/ \E s \in Socks : CloseSock(t, s)
    \/ RemoveCompletion(t) \/ WaitOther(t)
    \/ t \in Callers /\
         (\/ \E o \in Ops, s \in Socks : Recv(t, o, s) \/ Accept(t, o, s)
          \/ \E s \in Socks : Cancel(t, s)
          \/ \E p \in Posts : AddCompletion(t, p)
          \/ ClosePort(t) \/ EndThread(t))

\* What a thread does once it is inside a call.
Step(t) ==
    \/ Try(t) \/ Tell(t) \/ Enter(t) \/ Completed(t) \/ RunApc(t) \/ Take(t) \/ Sleep(t)
    \/ Callback(t) \/ Report(t) \/ GetThreadCompletion(t)

Next ==
    \/ \E t \in Threads : Calls(t) \/ Step(t)
    \/ Poll \/ \E o \in Ops : GrowStale(o)
    \/ \E s \in Socks : Arrive(s)

Spec == Init /\ [][Next]_vars

\* Every thread goes on with a call it is in and the poller thread runs for
\* ever; both get the objects mutex in the end although sleepers keep taking
\* it for a moment, hence strong fairness.  Time passes.  A server thread
\* comes back to its port again and again, and goes on waiting without it.
Fairness ==
    /\ \A t \in Threads : SF_vars(Step(t))
    /\ SF_vars(Poll) /\ \A o \in Ops : WF_vars(GrowStale(o))
    /\ \A t \in Servers : SF_vars(RemoveCompletion(t) \/ WaitOther(t))

LiveSpec == Spec /\ Fairness

-----------------------------------------------------------------------------
(* Properties.                                                              *)

InPort(p) == Cardinality({i \in DOMAIN port : port[i] = p})
InWait(p) == Cardinality({t \in Threads : msg[t] = p})

(* A packet that was posted is in exactly one place: on the port, in the   *)
(* wait of one thread, or with the program.  Hand-over to a sleeping       *)
(* thread, a take by a thread that looks itself, a system APC in between   *)
(* and the closing of the port neither lose nor double one.                *)
PacketsConserved ==
    \A p \in Packets : posts[p] = InPort(p) + InWait(p) + received[p]

(* The program hears of an operation exactly once, and only when it has    *)
(* ended: a packet, or its event or routine, unless the call itself        *)
(* reported the end (a failure, or a success with the port skipped).       *)
ToldOnce ==
    \A o \in Ops :
       posts[o] + told[o] =
          IF state[o] # "done" \/ (~pending[o] /\ (result[o] = "failed" \/ (o \in Ported /\ Skip)))
          THEN 0 ELSE 1

(* Each packet and each operation's end reaches the program exactly once.  *)
DeliveredOnce == TypeOK /\ PacketsConserved /\ ToldOnce

(* A thread asleep on the port while it holds a message has been notified: *)
(* a message is never left to the 250 ms slice, even when the thread was   *)
(* passed over because it had an operation to run first, which another     *)
(* thread then took as stale.                                              *)
NoMissedPacket ==
    \A t \in Threads :
       pc[t] = "asleep" /\ onPort[t] /\ msg[t] = None /\ (port # <<>> \/ ~portOpen) => notified[t]

(* An operation ready while its own thread sleeps in a wait has that       *)
(* thread notified, whether the poller, a cancel or a close made it ready. *)
NoMissedOperation ==
    \A o \in Ops :
       state[o] = "ready" /\ pc[owner[o]] = "asleep" => notified[owner[o]] \/ msg[owner[o]] # None

(* Nobody sleeps on: a thread with something to take or to run is woken.   *)
NobodySleepsOn == NoMissedPacket /\ NoMissedOperation

Before(a, b) == \E i, j \in DOMAIN started : i < j /\ started[i] = a /\ started[j] = b

(* Of the recvs one thread started on one socket, those that went pending  *)
(* are given the stream's bytes in the order they were started, though     *)
(* different threads may run them.                                         *)
PendingInOrder ==
    \A a, b \in Ops :
       /\ Before(a, b) /\ owner[a] = owner[b] /\ sock[a] = sock[b]
       /\ pending[a] /\ pending[b] /\ got[a] > 0 /\ got[b] > 0
       => got[a] < got[b]

(* A recv that ended cancelled or with its socket closed has read nothing: *)
(* no byte of the stream goes to an operation the program is told failed.  *)
CancelledReadNothing ==
    \A o \in Ops :
       /\ state[o] = "done" /\ result[o] \in {"cancelled", "closed", "failed"}
       /\ sock[o] \notin Listeners
       => got[o] = 0

(* The bytes of a stream go to the recvs that waited for them, in order,   *)
(* and to none that is reported cancelled.                                 *)
BytesInOrder == PendingInOrder /\ CancelledReadNothing

(* Asyncs on one socket complete in the order they were started, as the    *)
(* comment of horizon_async_add has it: the recvs one thread starts on a   *)
(* socket get its bytes in that order.                                     *)
StartedInOrder ==
    \A a, b \in Ops :
       /\ Before(a, b) /\ owner[a] = owner[b] /\ sock[a] = sock[b]
       /\ got[a] > 0 /\ got[b] > 0
       => got[a] < got[b]

(* What an accept made the server take from the backlog is kept for the    *)
(* callback to fetch: an accept that has a connection is not reported      *)
(* cancelled.                                                              *)
AcceptedFetched ==
    \A o \in Ops : state[o] = "done" /\ got[o] > 0 => result[o] = "ok"

(* Operations ready because they were cancelled or their socket closed     *)
(* end, whichever thread has to run them, as long as one thread keeps      *)
(* waiting: again and again none is left.                                  *)
CancelledEnds ==
    []<>(\A o \in Ops : ~(state[o] = "ready" /\ status[o] # "alerted"))

(* Packets on an open port reach the program: it is drained in the end.    *)
PacketArrives == []<>(port = <<>> \/ ~portOpen)

(* What is cancelled ends and what is posted arrives.                      *)
EverythingEnds == CancelledEnds /\ PacketArrives

(* What waits on a socket that is closed ends, as the comments of          *)
(* close_object_handle and horizon_async_cancel have it, one that is being *)
(* tried or run at that moment included.                                   *)
ClosedEnds ==
    \A o \in Ops : (sock[o] # None /\ sock[o] \notin open) ~> (state[o] = "done")

(* Every socket an operation waits on is looked at by the poller: a queued *)
(* operation whose socket stays readable becomes ready.                    *)
EverySocketPolled ==
    \A o \in Ops :
       (state[o] = "queued" /\ Readable(sock[o])) ~> (state[o] # "queued" \/ ~Readable(sock[o]))

============================================================================
