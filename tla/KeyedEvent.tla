----------------------------- MODULE KeyedEvent -----------------------------
(***************************************************************************)
(* Keyed events: horizon_keyed_rendezvous of horizon_threads.h, as         *)
(* keyed_event_rendezvous of sync.c calls it with the futex of horizon.c.  *)
(*                                                                         *)
(* A wait and a release of the same key pair off; whoever comes first      *)
(* queues a record on its own stack and sleeps on the record's done word   *)
(* until the other one publishes it.  The sleeper reads done without the   *)
(* lock, so it can return, and use the same stack address for its next     *)
(* call, while the peer that published done still has its wake to make.    *)
(***************************************************************************)
EXTENDS Sequences, Integers, FiniteSets, SequencesExt

CONSTANTS Threads, Keys,
          Patience,  \* Patience[t]: the time-outs thread t calls with
          None

ASSUME NoneAssumption == None \notin Threads
ASSUME FiniteAssumption == IsFiniteSet(Threads)

Sides    == {"wait", "release"}
Timeouts == {"zero", "finite", "infinite"}

ASSUME PatienceAssumption == Patience \in [Threads -> SUBSET Timeouts]

VARIABLES
  lock,      \* keyed_event_lock's holder
  queue,     \* keyed_event_queue: threads whose record is linked
  pc,        \* where each thread is
  key, side, \* its record: object and key, release
  done,      \* its record's done word
  timeout,   \* the kind of timeout it was called with
  peer,      \* the record a thread took from the queue
  owed       \* history: per key, waits minus releases that returned success

vars == <<lock, queue, pc, key, side, done, timeout, peer, owed>>

TypeOK ==
  /\ lock \in Threads \cup {None}
  /\ queue \in Seq(Threads) /\ IsInjective(queue)
  /\ pc \in [Threads -> {"idle", "call", "store", "wake", "check", "expire",
                         "wait", "asleep", "cancel"}]
  /\ key \in [Threads -> Keys]
  /\ side \in [Threads -> Sides]
  /\ done \in [Threads -> BOOLEAN]
  /\ timeout \in [Threads -> Timeouts]
  /\ peer \in [Threads -> Threads \cup {None}]
  /\ owed \in [Keys -> Int]

Goto(t, p) == pc' = [pc EXCEPT ![t] = p]

(* The call returns success or STATUS_TIMEOUT.                             *)
Succeed(t) ==
  /\ Goto(t, "idle")
  /\ owed' = [owed EXCEPT ![key[t]] = @ + IF side[t] = "wait" THEN 1 ELSE -1]
TimeOut(t) == Goto(t, "idle") /\ UNCHANGED owed

(* keyed_event_rendezvous fills the record on its stack.                   *)
Call(t, k, s, o) ==
  /\ pc[t] = "idle"
  /\ Goto(t, "call")
  /\ key' = [key EXCEPT ![t] = k] /\ side' = [side EXCEPT ![t] = s]
  /\ done' = [done EXCEPT ![t] = FALSE] /\ timeout' = [timeout EXCEPT ![t] = o]
  /\ UNCHANGED <<lock, queue, peer, owed>>

(* A record of the other side and the same key.                            *)
Pairs(t, u) == side[u] # side[t] /\ key[u] = key[t]

(* Mutant: the youngest is taken first.                                    *)
OppositeYoungest(t) ==
  {i \in DOMAIN queue : Pairs(t, queue[i]) /\ \A j \in DOMAIN queue : Pairs(t, queue[j]) => j <= i}

(* horizon_keyed_match_locked: where in the queue t's record finds its     *)
(* match.                                                                  *)
Opposite(t) == {i \in DOMAIN queue : Pairs(t, queue[i])}

(* Under the lock: the oldest of them is unlinked ...                      *)
Match(t) ==
  /\ pc[t] = "call" /\ lock = None
  /\ lock' = t
  /\ \E i \in Opposite(t) :
       /\ \A j \in Opposite(t) : i <= j
       /\ peer' = [peer EXCEPT ![t] = queue[i]]
       /\ queue' = RemoveAt(queue, i)
  /\ Goto(t, "store")
  /\ UNCHANGED <<key, side, done, timeout, owed>>

(* Mutant: the peer is woken but not told.                                 *)
StoreNothing(t) ==
  /\ pc[t] = "store"
  /\ Goto(t, "wake")
  /\ UNCHANGED <<lock, queue, key, side, done, timeout, peer, owed>>

(* ... its done word is published ...                                      *)
Store(t) ==
  /\ pc[t] = "store"
  /\ done' = [done EXCEPT ![peer[t]] = TRUE]
  /\ Goto(t, "wake")
  /\ UNCHANGED <<lock, queue, key, side, timeout, peer, owed>>

(* ... and whoever sleeps at that address is woken.                        *)
WakePeer(t) ==
  /\ pc[t] = "wake"
  /\ pc' = [pc EXCEPT ![t] = "idle",
                      ![peer[t]] = IF @ = "asleep" THEN "check" ELSE @]
  /\ owed' = [owed EXCEPT ![key[t]] = @ + IF side[t] = "wait" THEN 1 ELSE -1]
  /\ lock' = None
  /\ peer' = [peer EXCEPT ![t] = None]
  /\ UNCHANGED <<queue, key, side, done, timeout>>

(* No peer and no time to wait for one.                                    *)
GiveUp(t) ==
  /\ pc[t] = "call" /\ lock = None /\ Opposite(t) = {} /\ timeout[t] = "zero"
  /\ TimeOut(t)
  /\ UNCHANGED <<lock, queue, key, side, done, timeout, peer>>

(* horizon_keyed_enqueue_locked.                                           *)
Enqueue(t) ==
  /\ pc[t] = "call" /\ lock = None /\ Opposite(t) = {} /\ timeout[t] # "zero"
  /\ queue' = Append(queue, t)
  /\ Goto(t, "check")
  /\ UNCHANGED <<lock, key, side, done, timeout, peer, owed>>

(* The loop's condition, read without the lock.                            *)
CheckDone(t) ==
  /\ pc[t] = "check"
  /\ \/ done[t] /\ Succeed(t)
     \/ ~done[t] /\ Goto(t, "expire") /\ UNCHANGED owed
  /\ UNCHANGED <<lock, queue, key, side, done, timeout, peer>>

(* The time is up, or there is some left.                                  *)
Expire(t) ==
  /\ pc[t] = "expire" /\ timeout[t] = "finite"
  /\ Goto(t, "cancel")
  /\ UNCHANGED <<lock, queue, key, side, done, timeout, peer, owed>>

HasTime(t) ==
  /\ pc[t] = "expire"
  /\ Goto(t, "wait")
  /\ UNCHANGED <<lock, queue, key, side, done, timeout, peer, owed>>

(* horizon_futex_wait: the kernel sleeps only while the word is still 0.   *)
FutexWait(t) ==
  /\ pc[t] = "wait"
  /\ Goto(t, IF done[t] THEN "check" ELSE "asleep")
  /\ UNCHANGED <<lock, queue, key, side, done, timeout, peer, owed>>

(* The sleep ends by itself: an endless one is cut in slices and compares  *)
(* the word again, a finite one goes back to the loop.                     *)
FutexElapses(t) ==
  /\ pc[t] = "asleep"
  /\ Goto(t, IF timeout[t] = "finite" THEN "check" ELSE "wait")
  /\ UNCHANGED <<lock, queue, key, side, done, timeout, peer, owed>>

(* Mutant: a timeout returns even if a peer took the record.               *)
CancelBlindly(t) ==
  /\ pc[t] = "cancel" /\ lock = None
  /\ queue' = Remove(queue, t)
  /\ TimeOut(t)
  /\ UNCHANGED <<lock, key, side, done, timeout, peer>>

(* horizon_keyed_cancel_locked: unlinked, a timeout; taken, go on.         *)
Cancel(t) ==
  /\ pc[t] = "cancel" /\ lock = None
  /\ \/ \E i \in DOMAIN queue : queue[i] = t /\ queue' = RemoveAt(queue, i) /\ TimeOut(t)
     \/ ~Contains(queue, t) /\ Goto(t, "check") /\ UNCHANGED <<queue, owed>>
  /\ UNCHANGED <<lock, key, side, done, timeout, peer>>

Init ==
  /\ lock = None /\ queue = <<>>
  /\ pc = [t \in Threads |-> "idle"]
  /\ key \in {[t \in Threads |-> k] : k \in Keys}
  /\ side = [t \in Threads |-> "wait"]
  /\ done = [t \in Threads |-> FALSE]
  /\ timeout = [t \in Threads |-> "zero"]
  /\ peer = [t \in Threads |-> None]
  /\ owed = [k \in Keys |-> 0]

(* What a call does once it is made.                                       *)
Step(t) ==
  \/ Match(t) \/ Store(t) \/ WakePeer(t) \/ GiveUp(t) \/ Enqueue(t)
  \/ CheckDone(t) \/ Expire(t) \/ HasTime(t) \/ FutexWait(t)
  \/ FutexElapses(t) \/ Cancel(t)

Next ==
  \E t \in Threads :
    \/ \E k \in Keys, s \in Sides, o \in Patience[t] : Call(t, k, s, o)
    \/ Step(t)

Spec == Init /\ [][Next]_vars

(* Every thread runs, the lock is handed out fairly, and a finite timeout  *)
(* is reached: the loop cannot find time left for ever.                    *)
FairSpec ==
  /\ Spec
  /\ \A t \in Threads :
       /\ WF_vars(Step(t))
       /\ SF_vars(Match(t) \/ GiveUp(t) \/ Enqueue(t) \/ Cancel(t) \/ Expire(t))

-----------------------------------------------------------------------------
(* A call that is bound to succeed: it took a peer, or a peer took it.     *)
Blocked(t) == pc[t] \in {"check", "expire", "wait", "asleep", "cancel"}
Taking(t) == pc[t] \in {"store", "wake"}
Taken(t)  == Blocked(t) /\ (done[t] \/ \E u \in Threads : pc[u] = "store" /\ peer[u] = t)
Paired(t) == Taking(t) \/ Taken(t)
Bound(k, s) == {t \in Threads : key[t] = k /\ side[t] = s /\ Paired(t)}

(* Every success has exactly one partner: of each key as many waits as     *)
(* releases succeed, those whose return is still to come included.  A      *)
(* timeout that races the peer does not lose the peer's half.              *)
Balanced ==
  \A k \in Keys :
    owed[k] + Cardinality(Bound(k, "wait")) - Cardinality(Bound(k, "release")) = 0

(* A wait and a release of the same key are never both left queued.        *)
NoMissedPair ==
  \A t, u \in ToSet(queue) : key[t] = key[u] => side[t] = side[u]

(* A record is linked only while its call is blocked and unpaired: the     *)
(* queue never points into a stack frame that has returned.                *)
LinkedOnlyWhileBlocked ==
  \A t \in ToSet(queue) :
    /\ Blocked(t) /\ ~done[t]
    /\ \A u \in Threads : peer[u] = t => pc[u] = "wake"

(* A sleeper whose word is published has its wake still to come.           *)
NoLostWake ==
  \A t \in Threads :
    pc[t] = "asleep" /\ done[t] =>
      \E u \in Threads : pc[u] = "wake" /\ peer[u] = t

(* The rendezvous: waits and releases succeed in pairs, none is left       *)
(* queued beside its match, no record outlives its call, and no sleeper    *)
(* misses the store that pairs it.                                         *)
Rendezvous == TypeOK /\ Balanced /\ NoMissedPair /\ LinkedOnlyWhileBlocked /\ NoLostWake

(* Why: who holds the lock has a peer, and until it has told the peer the  *)
(* peer is a blocked call of the other side that nobody else can find.     *)
PeerInv ==
  /\ \A t \in Threads : (Taking(t) <=> lock = t) /\ (peer[t] # None <=> lock = t) /\ peer[t] # t
  /\ \A t \in Threads : pc[t] = "store" =>
       /\ ~Contains(queue, peer[t]) /\ Blocked(peer[t])
       /\ ~done[peer[t]] /\ Pairs(t, peer[t])
  /\ \A t \in Threads : pc[t] = "call" => ~done[t]
KeyedInv == TypeOK /\ PeerInv /\ NoMissedPair /\ LinkedOnlyWhileBlocked /\ NoLostWake

(* Of the calls queued for a key, the oldest is paired first.              *)
FirstComeFirstPaired ==
  [][\A t, u \in Threads :
       /\ Contains(queue, t) /\ Contains(queue, u)
       /\ key[t] = key[u] /\ ~Contains(queue', u)
       /\ (\E v \in Threads : peer'[v] = u /\ peer[v] # u)
       => \/ t = u
          \/ \E i, j \in DOMAIN queue : i < j /\ queue[i] = u /\ queue[j] = t
    ]_vars

(* A call whose peer has come returns: the wake of the rendezvous is       *)
(* not lost, and a deadline that races it does not undo it.                *)
PairedReturns ==
  \A t \in Threads : Paired(t) ~> pc[t] = "idle"

(* A call with a timeout returns, paired or not.                           *)
TimedReturns ==
  \A t \in Threads : (pc[t] # "idle" /\ timeout[t] # "infinite") ~> pc[t] = "idle"

(* Whoever was paired, and whoever has a timeout, returns.                 *)
Returns == PairedReturns /\ TimedReturns
=============================================================================
