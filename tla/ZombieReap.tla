----------------------------- MODULE ZombieReap -----------------------------
(***************************************************************************)
(* Joining the server's connection threads: horizon_zombie_push and        *)
(* horizon_zombie_reap of horizon_threads.h, called by the end of          *)
(* horizon_server_thread, by horizon_server_handle_new_thread and by the   *)
(* main thread's final reap.                                               *)
(*                                                                         *)
(* libnx cannot detach a thread, so an ended one keeps its stack until     *)
(* somebody joins it.  A connection thread joins those that ended before   *)
(* it and then, as its last action, queues itself.                         *)
(***************************************************************************)
EXTENDS Integers, FiniteSets

CONSTANTS Threads,   \* connection threads
          Main,      \* the thread that only reaps
          None

ASSUME FiniteAssumption == IsFiniteSet(Threads)
ASSUME MainAssumption == Main \notin Threads /\ None \notin Threads \cup {Main}

VARIABLES
  pc,       \* "unborn", "run", "reap" (in the loop of joins), "create",
            \* "ending" (the loop of joins at the end of the thread), "push",
            \* "last" (queued, about to return), "exited", "joined"
  list,     \* list->head: nodes nobody has detached
  mine,     \* nodes a reaper has detached and not joined yet
  joins,    \* nodes it has joined and not yet taken off the count
  pending   \* list->pending

vars == <<pc, list, mine, joins, pending>>

All == Threads \cup {Main}

TypeOK ==
  /\ pc \in [All -> {"unborn", "run", "reap", "create", "ending", "push", "last",
                     "exited", "joined"}]
  /\ list \subseteq Threads
  /\ mine \in [All -> SUBSET Threads]
  /\ joins \in [All -> SUBSET Threads]
  /\ pending \in 0 .. Cardinality(Threads)

(* horizon_zombie_reap detaches the whole list under its lock.             *)
StartReap(t, p) ==
  /\ pc[t] = "run"
  /\ pc' = [pc EXCEPT ![t] = p]
  /\ mine' = [mine EXCEPT ![t] = list] /\ list' = {}
  /\ UNCHANGED <<joins, pending>>

(* Mutant: the thread queues itself first and reaps then.                  *)
EndPushFirst(t) ==
  /\ t # Main /\ pc[t] = "run"
  /\ pc' = [pc EXCEPT ![t] = "ending"]
  /\ mine' = [mine EXCEPT ![t] = list] /\ list' = {t}
  /\ pending' = pending + 1
  /\ UNCHANGED joins

(* new_thread reaps before it creates a thread, the main thread in         *)
(* horizon_release_thread_stacks; a connection that ends reaps.            *)
Reap(t) == StartReap(t, "reap")
End(t) == t # Main /\ StartReap(t, "ending")

(* What follows the reap: the rest of new_thread, the end of the thread.   *)
AfterReap(t) == IF pc[t] = "ending" THEN "push" ELSE IF t = Main THEN "run" ELSE "create"

(* pthread_join blocks until the thread has returned.  The order of the    *)
(* list does not matter: every detached node is joined.                    *)
Join(t) ==
  \E u \in mine[t] \ {t} :
    /\ pc[t] \in {"reap", "ending"} /\ pc[u] = "exited"
    /\ pc' = [pc EXCEPT ![u] = "joined"]
    /\ mine' = [mine EXCEPT ![t] = @ \ {u}]
    /\ joins' = [joins EXCEPT ![t] = @ \cup {u}]
    /\ UNCHANGED <<list, pending>>

(* Mutant: the count is reset, not reduced.                                *)
ReapedReset(t) ==
  /\ pc[t] \in {"reap", "ending"} /\ mine[t] = {}
  /\ pc' = [pc EXCEPT ![t] = AfterReap(t)]
  /\ pending' = 0
  /\ joins' = [joins EXCEPT ![t] = {}]
  /\ UNCHANGED <<list, mine>>

(* The caller's own node goes back to the list and the counters are        *)
(* brought up to date, under the lock.                                     *)
Reaped(t) ==
  /\ pc[t] \in {"reap", "ending"} /\ mine[t] \subseteq {t}
  /\ list' = list \cup mine[t] /\ mine' = [mine EXCEPT ![t] = {}]
  /\ pc' = [pc EXCEPT ![t] = AfterReap(t)]
  /\ pending' = pending - Cardinality(joins[t])
  /\ joins' = [joins EXCEPT ![t] = {}]

(* new_thread goes on: pthread_create works or fails.                      *)
Create(t, u) ==
  /\ pc[t] = "create" /\ pc[u] = "unborn"
  /\ pc' = [pc EXCEPT ![t] = "run", ![u] = "run"]
  /\ UNCHANGED <<list, mine, joins, pending>>

CreateFails(t) ==
  /\ pc[t] = "create"
  /\ pc' = [pc EXCEPT ![t] = "run"]
  /\ UNCHANGED <<list, mine, joins, pending>>

(* horizon_zombie_push; without memory for the node nobody will join it.   *)
Push(t) ==
  /\ pc[t] = "push"
  /\ pc' = [pc EXCEPT ![t] = "last"]
  /\ list' = list \cup {t} /\ pending' = pending + 1
  /\ UNCHANGED <<mine, joins>>

NoMemory(t) ==
  /\ pc[t] = "push"
  /\ pc' = [pc EXCEPT ![t] = "last"]
  /\ UNCHANGED <<list, mine, joins, pending>>

Exit(t) ==
  /\ pc[t] = "last"
  /\ pc' = [pc EXCEPT ![t] = "exited"]
  /\ UNCHANGED <<list, mine, joins, pending>>

Init ==
  /\ \E first \in Threads :
       pc = [t \in All |-> IF t \in {Main, first} THEN "run" ELSE "unborn"]
  /\ list = {} /\ mine = [t \in All |-> {}]
  /\ joins = [t \in All |-> {}] /\ pending = 0

Next ==
  \E t \in All :
    \/ \E u \in Threads : Create(t, u)
    \/ CreateFails(t) \/ Reap(t) \/ End(t) \/ Join(t) \/ Reaped(t) \/ Push(t) \/ NoMemory(t) \/ Exit(t)

Spec == Init /\ [][Next]_vars

-----------------------------------------------------------------------------
(* Nobody joins a thread that has joins of its own to make: what is queued *)
(* has done everything but return, so no two threads wait for each other.  *)
NoJoinCycle ==
  \A t \in All : \A u \in mine[t] : pc[u] \in {"last", "exited"}

(* A thread is joined at most once: its node is in one place only, on the  *)
(* list or with one reaper, and not on the list again once it is joined.   *)
Held(t) == mine[t] \cup joins[t]
JoinedOnce ==
  /\ \A t \in All : mine[t] \cap list = {}
  /\ \A t, u \in All : t # u => Held(t) \cap Held(u) = {}
  /\ \A t \in Threads : pc[t] = "joined" => t \notin list

(* pending is what is queued plus what a reaper has not accounted for.     *)
Unaccounted == list \cup UNION {Held(t) : t \in All}
PendingCounts == pending = Cardinality(Unaccounted)

(* Every thread that ends is joined once, and counted until it is: two     *)
(* reaps at once neither close a handle twice nor lose count of one.       *)
Accounted == TypeOK /\ JoinedOnce /\ PendingCounts

(* Why: what is queued or detached has only its return left, what is joined*)
(* is joined for good, and only a reaper holds nodes.                      *)
Shape ==
  /\ pc \in [All -> {"unborn", "run", "reap", "create", "ending", "push", "last",
                     "exited", "joined"}]
  /\ pc[Main] \in {"run", "reap"}
  /\ list \subseteq Threads
  /\ mine \in [All -> SUBSET Threads] /\ joins \in [All -> SUBSET Threads]
Queued == /\ \A u \in list : pc[u] \in {"last", "exited"}
          /\ \A t \in All : \A u \in joins[t] : pc[u] = "joined"
          /\ \A t \in All : pc[t] \notin {"reap", "ending"} => Held(t) = {}
ReapInv == Shape /\ Queued /\ NoJoinCycle /\ JoinedOnce
=============================================================================
