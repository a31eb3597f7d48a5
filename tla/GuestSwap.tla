----------------------------- MODULE GuestSwap -----------------------------
(***************************************************************************)
(* Guest memory that can be written out to the SD card and brought back    *)
(* on the fault that asks for it: horizon_swap.h, the reclaiming, pinning  *)
(* and fault handling around it in horizon.c, and the swap file's units    *)
(* (swap_file.c).                                                          *)
(*                                                                         *)
(* A backing is a block of heap memory, mapped into the guest by one or    *)
(* more mappings.  Everything that changes either is done under            *)
(* mapping_mutex; the call that holds it is op, one system call or storage *)
(* request a step, each of which may fail.  The guest's threads go on      *)
(* meanwhile: they write to what is mapped, fault on what is not, and the  *)
(* handler's first look at the fault index takes no lock.                  *)
(***************************************************************************)
EXTENDS Integers, FiniteSetsExt

CONSTANTS
    Threads, Backings, Mappings,
    Callers,      \* threads that make calls; the others only touch memory
    BackingOf,    \* BackingOf[m]: the backing m maps a part of
    Size,         \* Size[b]: what b takes, in units of the swap file
    Units,        \* units of the swap file
    Frames,       \* units of heap memory the program's other allocations leave for backings
    Failing,      \* the calls that may fail
    Budgets,      \* bounds: calls that fail f, calls that protect, unmap or create c, and
                  \* writes w; a run stays within one of these
    Pinnable,     \* the ranges a thread may pin, as sets of backings
    Excludable,   \* the backings a call may exclude from swapping
    None

Calls == {"unmap", "map", "permit", "save", "load"}

ASSUME ShapeAssumption == /\ BackingOf \in [Mappings -> Backings]
                          /\ \A b \in Backings : \E m \in Mappings : BackingOf[m] = b
ASSUME SizesAssumption == /\ Size \in [Backings -> Nat \ {0}]
                          /\ Units \in Nat /\ Frames \in Nat
ASSUME BudgetsAssumption == Budgets \subseteq [f : Nat, c : Nat, w : Nat] /\ Budgets # {}
ASSUME CallsAssumption == Failing \subseteq Calls /\ Pinnable \subseteq SUBSET Backings
                          /\ Excludable \subseteq Backings /\ Callers \subseteq Threads

VARIABLES
    live,      \* the mappings there are
    prot,      \* prot[m]: the protection the program asked for
    perm,      \* perm[m]: what the kernel has at m: "unmapped", "none" or "rw"
    undone,    \* undone[m]: swap_unmapped; 1 unmapped, 2 mapped but not yet permitted
    resident,  \* backings that have heap memory
    mem,       \* mem[m]: the contents of m's part of that memory
    detached,  \* backings that are swapped out, or not mapped back whole
    token,     \* token[b]: the first unit b is stored in, from 1; 0 for none
    used,      \* units of the swap file taken
    hint,      \* no unit below it is free
    disk,      \* disk[u]: what was written to unit u
    stored,    \* swap_stored_bytes, in units
    marks,     \* swap_fault_index: the mappings a fault may be resolved for
    tracked,   \* swap_index: the backings a call has to pin
    excluded,  \* backings that are never written out
    pins,      \* pins[t]: the range t's pin names
    op,        \* the call that holds mapping_mutex
    th,        \* th[t]: what thread t does
    want,      \* want[m]: what the program wrote last
    fails,     \* calls that failed so far
    changes,   \* calls that protected, unmapped or created so far
    writes     \* writes so far

space == <<live, prot, perm, undone>>
store == <<token, used, hint, disk, stored>>
flags == <<tracked, excluded>>
data == <<resident, mem, want, writes>>
vars == <<space, store, flags, data, detached, marks, pins, op, th, fails, changes>>

Blank == [m \in {} |-> 0]   \* a unit nobody's contents are in
Free == [by |-> None, goal |-> "none", todo |-> {}, at |-> "none", on |-> None, for |-> None,
         victim |-> None, back |-> "none", tried |-> {}, freed |-> FALSE]
Running == [st |-> "run", at |-> None, class |-> "none"]

MapsOf(b) == {m \in Mappings : BackingOf[m] = b}
Part(b) == MapsOf(b) \cap live
Taken(b) == token[b]..(token[b] + Size[b] - 1)
SizeOf(S) == FoldSet(LAMBDA b, n : n + Size[b], 0, S)

Init ==
    /\ live = Mappings /\ resident = Backings
    /\ prot = [m \in Mappings |-> "rw"] /\ perm = prot
    /\ undone = [m \in Mappings |-> 0]
    /\ mem = [m \in Mappings |-> 0] /\ want = mem
    /\ detached = {} /\ marks = {} /\ tracked = Backings /\ excluded = {}
    /\ token = [b \in Backings |-> 0] /\ used = {} /\ hint = 1 /\ stored = 0
    /\ disk = [u \in 1..Units |-> Blank]
    /\ pins = [t \in Threads |-> {}]
    /\ op = Free /\ th = [t \in Threads |-> Running]
    /\ fails = 0 /\ changes = 0 /\ writes = 0

Within(f, c, w) == \E b \in Budgets : f <= b.f /\ c <= b.c /\ w <= b.w

\* A call to the kernel or to the storage succeeds, or it fails where it may.
Succeeds(call) == UNCHANGED fails
Fails(call) == call \in Failing /\ Within(fails + 1, changes, writes) /\ fails' = fails + 1
-----------------------------------------------------------------------------
(* The end of the call that holds the mutex *)

\* What the caller of swap_restore_locked does next.  A fault that is not
\* resolved goes on to horizon_commit_lazy_fault if nothing was mapped there,
\* and otherwise to the program as an access violation.
Violated == [Running EXCEPT !.st = "violated"]
Unhandled(s) == IF s.class = "translation" THEN [s EXCEPT !.st = "lazy"] ELSE Violated
Resumed(t, ok) ==
    CASE op.goal = "fault" -> IF ok THEN Running ELSE Unhandled(th[t])
      [] op.goal = "lazy" -> IF ok THEN Running
                             ELSE Violated
      [] OTHER -> Running

\* A pin whose range could not be made resident is taken off again.
Fail ==
    /\ op' = Free
    /\ th' = [th EXCEPT ![op.by] = Resumed(op.by, FALSE)]
    /\ pins' = IF op.goal = "pin" THEN [pins EXCEPT ![op.by] = {}] ELSE pins

\* Everything the call needs is resident.
Succeed ==
    /\ op.at = "next" /\ op.todo = {}
    /\ op' = Free
    /\ th' = [th EXCEPT ![op.by] = Resumed(op.by, TRUE)]
    /\ IF op.goal = "protect"
         THEN /\ prot' = [prot EXCEPT ![op.on] = "rw"]
              /\ perm' = [perm EXCEPT ![op.on] = "rw"]
         ELSE UNCHANGED <<prot, perm>>
    /\ tracked' = IF op.goal = "exclude" THEN tracked \ {op.on} ELSE tracked
    /\ UNCHANGED <<live, undone, store, excluded, data, detached, marks, pins, fails, changes>>
-----------------------------------------------------------------------------
(* The swap file *)

\* swap_file_save takes the first run that is long enough, from the hint on.
Fits(b, u) == u >= hint /\ u + Size[b] - 1 <= Units /\ u..(u + Size[b] - 1) \cap used = {}
Runs(b) == {u \in 1..Units : Fits(b, u)}

\* The contents of v go to the units from u on.
Place(v, u) ==
    LET run == u..(u + Size[v] - 1)
    IN  /\ disk' = [w \in 1..Units |-> IF w \in run THEN [m \in MapsOf(v) |-> mem[m]] ELSE disk[w]]
        /\ used' = used \cup run
        /\ hint' = Min((hint..(Units + 1)) \ (used \cup run))
        /\ token' = [token EXCEPT ![v] = u]
        /\ stored' = stored + Size[v]

\* What units that are given back hold is nobody's.
Freed(units) ==
    /\ used' = used \ units
    /\ disk' = [u \in 1..Units |-> IF u \in units THEN Blank ELSE disk[u]]

Discard(b) ==
    IF token[b] = 0 THEN UNCHANGED store
    ELSE /\ Freed(Taken(b))
         /\ hint' = IF token[b] < hint THEN token[b] ELSE hint
         /\ token' = [token EXCEPT ![b] = 0]
         /\ stored' = stored - Size[b]

\* The memory goes once its contents are stored.
SaveStep(v) ==
    /\ op.at = "unmap" /\ op.victim = v /\ \A m \in Part(v) : undone[m] = 1
    /\ detached' = detached \cup {v}
    /\ UNCHANGED <<space, mem, want, writes, flags, marks, pins, th, changes>>

Save ==
    \E v \in Backings : \E u \in Runs(v) :
        /\ SaveStep(v) /\ Succeeds("save")
        /\ \A w \in Runs(v) : u <= w
        /\ Place(v, u)
        /\ resident' = resident \ {v}
        /\ op' = [op EXCEPT !.at = "scan", !.victim = None, !.freed = TRUE]

\* Mutant: the memory goes although nothing was written.
SaveFailsFreeing ==
    \E v \in Backings :
        /\ SaveStep(v)
        /\ IF Runs(v) = {} THEN UNCHANGED fails ELSE Fails("save")
        /\ op' = [op EXCEPT !.at = "scanned", !.victim = None]
        /\ resident' = resident \ {v}
        /\ UNCHANGED store

\* No run is long enough, or the write failed and its units were given back.
SaveFails ==
    \E v \in Backings :
        /\ SaveStep(v)
        /\ IF Runs(v) = {} THEN UNCHANGED fails ELSE Fails("save")
        /\ op' = [op EXCEPT !.at = "map", !.back = "unsaved"]
        /\ UNCHANGED <<store, resident>>
-----------------------------------------------------------------------------
(* Mapping a backing's memory back: swap_map_memory *)

Subject == IF op.back = "restored" THEN op.for ELSE op.victim

Map(m) ==
    /\ op.at = "map" /\ m \in Part(Subject)
    /\ undone[m] = 1 /\ \A n \in Part(Subject) : undone[n] # 2
    /\ Succeeds("map")
    /\ undone' = [undone EXCEPT ![m] = 2]
    /\ perm' = [perm EXCEPT ![m] = "none"]
    /\ UNCHANGED <<live, prot, store, flags, data, detached, marks, pins, op, th, changes>>

Permit(m) ==
    /\ op.at = "map" /\ m \in Part(Subject) /\ undone[m] = 2
    /\ Succeeds("permit")
    /\ undone' = [undone EXCEPT ![m] = 0]
    /\ perm' = [perm EXCEPT ![m] = prot[m]]
    /\ UNCHANGED <<live, prot, store, flags, data, detached, marks, pins, op, th, changes>>

\* What is mapped stays mapped, what is not is left to the next fault.
MapFails ==
    /\ op.at = "map"
    /\ IF \E m \in Part(Subject) : undone[m] = 2 THEN Fails("permit")
       ELSE Fails("map") /\ \E m \in Part(Subject) : undone[m] = 1
    /\ IF op.back = "restored"
         THEN Fail /\ UNCHANGED detached
         ELSE /\ detached' = detached \cup {op.victim}
              /\ op' = [op EXCEPT !.at = "scanned", !.victim = None, !.back = "none"]
              /\ UNCHANGED <<th, pins>>
    /\ UNCHANGED <<space, store, flags, data, marks, changes>>

MapEnds ==
    /\ op.at = "map" /\ \A m \in Part(Subject) : undone[m] = 0
    /\ marks' = marks \ MapsOf(Subject)
    /\ \/ /\ op.back = "restored"
          /\ detached' = detached \ {Subject}
          /\ Discard(Subject)
          /\ op' = [op EXCEPT !.at = "next", !.todo = @ \ {Subject}, !.back = "none"]
       \/ /\ op.back = "refused"   \* EBUSY: the scan goes on
          /\ op' = [op EXCEPT !.at = "scan", !.victim = None, !.back = "none"]
          /\ UNCHANGED <<detached, store>>
       \/ /\ op.back = "unsaved"
          /\ detached' = detached \ {Subject}
          /\ op' = [op EXCEPT !.at = "scanned", !.victim = None, !.back = "none"]
          /\ UNCHANGED store
    /\ UNCHANGED <<space, flags, data, pins, th, fails, changes>>
-----------------------------------------------------------------------------
(* Making room: swap_reclaim_locked *)

Pinned(b) == \E t \in Threads : b \in pins[t]

\* Mutant: what is pinned is written out as well.
CandidatePinned(b) ==
    /\ b \notin op.tried /\ b \notin excluded /\ b \in resident /\ b \notin detached
    /\ token[b] = 0 /\ Part(b) # {}
    /\ Size[b] <= Units - stored

Candidate(b) ==
    /\ b \notin op.tried /\ b \notin excluded /\ b \in resident /\ b \notin detached
    /\ token[b] = 0 /\ Part(b) # {}
    /\ ~Pinned(b)
    /\ Size[b] <= Units - stored

\* The fault index is set before the first mapping goes.
Scan(v) ==
    /\ op.at = "scan" /\ Candidate(v)
    /\ marks' = marks \cup Part(v)
    /\ op' = [op EXCEPT !.at = "unmap", !.victim = v, !.tried = @ \cup {v}]
    /\ UNCHANGED <<space, store, flags, data, detached, pins, th, fails, changes>>

Unmap(m) ==
    /\ op.at = "unmap" /\ m \in Part(op.victim) /\ undone[m] = 0
    /\ Succeeds("unmap")
    /\ undone' = [undone EXCEPT ![m] = 1]
    /\ perm' = [perm EXCEPT ![m] = "unmapped"]
    /\ UNCHANGED <<live, prot, store, flags, data, detached, marks, pins, op, th, changes>>

\* The kernel keeps a mapping it lent to IPC or a device: those that went
\* before it are mapped back.
UnmapFails ==
    /\ op.at = "unmap" /\ \E m \in Part(op.victim) : undone[m] = 0
    /\ Fails("unmap")
    /\ IF \E m \in Part(op.victim) : undone[m] = 1
         THEN op' = [op EXCEPT !.at = "map", !.back = "refused"] /\ UNCHANGED marks
         ELSE /\ op' = [op EXCEPT !.at = "scan", !.victim = None]
              /\ marks' = marks \ MapsOf(op.victim)
    /\ UNCHANGED <<space, store, flags, data, detached, pins, th, changes>>

\* Mutant: an allocation is tried again although nothing gave way.
ScanEndsAnyway ==
    /\ \/ op.at = "scan" /\ (op.freed \/ ~\E b \in Backings : Candidate(b))
       \/ op.at = "scanned"
    /\ IF op.goal = "reclaim"
         THEN Fail
         ELSE op' = [op EXCEPT !.at = "alloc", !.tried = {}, !.freed = FALSE] /\ UNCHANGED <<th, pins>>
    /\ UNCHANGED <<space, store, flags, data, detached, marks, fails, changes>>

\* The scan stops when enough was freed, when it took too long, on an error,
\* or when nothing is left to try.
ScanEnds ==
    /\ \/ op.at = "scan" /\ (op.freed \/ ~\E b \in Backings : Candidate(b))
       \/ op.at = "scanned"
    /\ IF op.goal = "reclaim" \/ ~op.freed
         THEN Fail
         ELSE op' = [op EXCEPT !.at = "alloc", !.tried = {}, !.freed = FALSE] /\ UNCHANGED <<th, pins>>
    /\ UNCHANGED <<space, store, flags, data, detached, marks, fails, changes>>
-----------------------------------------------------------------------------
(* Bringing a backing back: horizon_swap_in under swap_restore_locked *)

Restore(b) ==
    /\ op.at = "next" /\ b \in op.todo
    /\ op' = IF b \notin detached THEN [op EXCEPT !.todo = @ \ {b}]
             ELSE IF b \in resident THEN [op EXCEPT !.at = "map", !.for = b, !.back = "restored"]
             ELSE [op EXCEPT !.at = "alloc", !.for = b]
    /\ UNCHANGED <<space, store, flags, data, detached, marks, pins, th, fails, changes>>

Room(b) == SizeOf(resident) + Size[b] <= Frames

\* swap_alloc_memory asks for room until there is some or nothing gives way.
AllocFull ==
    /\ op.at = "alloc" /\ ~Room(op.for)
    /\ op' = [op EXCEPT !.at = "scan"]
    /\ UNCHANGED <<space, store, flags, data, detached, marks, pins, th, fails, changes>>

Load ==
    /\ op.at = "alloc" /\ op.goal # "create" /\ Room(op.for)
    /\ Succeeds("load")
    /\ mem' = [m \in Mappings |-> IF BackingOf[m] = op.for THEN disk[token[op.for]][m] ELSE mem[m]]
    /\ resident' = resident \cup {op.for}
    /\ op' = [op EXCEPT !.at = "map", !.back = "restored"]
    /\ UNCHANGED <<space, store, flags, want, writes, detached, marks, pins, th, changes>>

LoadFails ==
    /\ op.at = "alloc" /\ op.goal # "create" /\ Room(op.for)
    /\ Fails("load") /\ Fail
    /\ UNCHANGED <<space, store, flags, data, detached, marks, changes>>
-----------------------------------------------------------------------------
(* The program *)

\* A call for "on" that first needs the backings in todo, or room for "on".
Begin(t, goal, todo, at, on) ==
    /\ op = Free
    /\ op' = [Free EXCEPT !.by = t, !.goal = goal, !.todo = todo, !.at = at, !.on = on,
                          !.for = IF at = "alloc" THEN on ELSE None]

Run(t) == th[t].st = "run"
Busy(t) == th' = [th EXCEPT ![t].st = "busy"]

Write(t, m) ==
    /\ Run(t) /\ m \in live /\ perm[m] = "rw" /\ Within(fails, changes, writes + 1)
    /\ want' = [want EXCEPT ![m] = @ + 1]
    /\ mem' = [mem EXCEPT ![m] = want[m] + 1]
    /\ writes' = writes + 1
    /\ UNCHANGED <<space, store, flags, resident, detached, marks, pins, op, th, fails, changes>>

Fault(t, m) ==
    /\ Run(t) /\ m \in live /\ perm[m] # "rw"
    /\ th' = [th EXCEPT ![t] = [st |-> "fault", at |-> m,
                                class |-> IF perm[m] = "unmapped" THEN "translation" ELSE "permission"]]
    /\ UNCHANGED <<space, store, flags, data, detached, marks, pins, op, fails, changes>>

\* horizon_swap_fault looks at the index before it takes the mutex.
Look(t) ==
    /\ th[t].st = "fault"
    /\ th' = [th EXCEPT ![t] = IF @.at \in marks THEN [@ EXCEPT !.st = "swap"] ELSE Unhandled(@)]
    /\ UNCHANGED <<space, store, flags, data, detached, marks, pins, op, fails, changes>>

Accessible(m) == m \in live /\ prot[m] = "rw"

SwapFault(t) ==
    /\ th[t].st = "swap" /\ op = Free
    /\ IF Accessible(th[t].at)
         THEN Begin(t, "fault", {BackingOf[th[t].at]}, "next", None) /\ Busy(t)
         ELSE th' = [th EXCEPT ![t] = Unhandled(@)] /\ UNCHANGED op
    /\ UNCHANGED <<space, store, flags, data, detached, marks, pins, fails, changes>>

LazyFault(t) ==
    /\ th[t].st = "lazy" /\ op = Free
    /\ IF Accessible(th[t].at)
         THEN Begin(t, "lazy", {BackingOf[th[t].at]}, "next", None) /\ Busy(t)
         ELSE th' = [th EXCEPT ![t] = Violated] /\ UNCHANGED op
    /\ UNCHANGED <<space, store, flags, data, detached, marks, pins, fails, changes>>

\* The program's handler deals with an access violation.
Handle(t) ==
    /\ th[t].st = "violated" /\ th' = [th EXCEPT ![t] = Running]
    /\ UNCHANGED <<space, store, flags, data, detached, marks, pins, op, fails, changes>>

\* horizon_swap_reclaim, from an allocation outside the mutex.
Reclaim(t) ==
    /\ Run(t) /\ Busy(t) /\ Begin(t, "reclaim", {}, "scan", None)
    /\ UNCHANGED <<space, store, flags, data, detached, marks, pins, fails, changes>>

\* The pin is linked before what it covers is made resident.
Pin(t, S) ==
    /\ Run(t) /\ pins[t] = {} /\ S \cap tracked # {}
    /\ Busy(t) /\ Begin(t, "pin", S, "next", None)
    /\ pins' = [pins EXCEPT ![t] = S]
    /\ UNCHANGED <<space, store, flags, data, detached, marks, fails, changes>>

Unpin(t) ==
    /\ Run(t) /\ pins[t] # {} /\ op = Free
    /\ pins' = [pins EXCEPT ![t] = {}]
    /\ UNCHANGED <<space, store, flags, data, detached, marks, op, th, fails, changes>>

Exclude(t, b) ==
    /\ Run(t) /\ Part(b) # {} /\ b \in tracked
    /\ Busy(t) /\ Begin(t, "exclude", {b}, "next", b)
    /\ excluded' = excluded \cup {b}
    /\ UNCHANGED <<space, store, tracked, data, detached, marks, pins, fails, changes>>

Change == Within(fails, changes + 1, writes) /\ changes' = changes + 1

\* Taking access away from what is swapped out needs no memory; what is
\* mapped is mapped again without it.
ProtectNone(t, m) ==
    /\ Run(t) /\ m \in live /\ prot[m] = "rw" /\ op = Free /\ Change
    /\ prot' = [prot EXCEPT ![m] = "none"]
    /\ perm' = IF BackingOf[m] \in detached THEN perm ELSE [perm EXCEPT ![m] = "none"]
    /\ UNCHANGED <<live, undone, store, flags, data, detached, marks, pins, op, th, fails>>

\* Giving access restores it first.
Protect(t, m) ==
    /\ Run(t) /\ m \in live /\ prot[m] = "none" /\ Change
    /\ Busy(t) /\ Begin(t, "protect", {BackingOf[m]}, "next", m)
    /\ UNCHANGED <<space, store, flags, data, detached, marks, pins, fails>>

\* unmap_range_locked; the last mapping takes the backing with it.
UnmapRange(t, m) ==
    LET b == BackingOf[m] last == Part(b) = {m}
    IN  /\ Run(t) /\ m \in live /\ ~Pinned(b) /\ op = Free /\ Change
        /\ live' = live \ {m}
        /\ perm' = [perm EXCEPT ![m] = "unmapped"] /\ undone' = [undone EXCEPT ![m] = 0]
        /\ marks' = marks \ {m}
        /\ IF last THEN /\ Discard(b)
                        /\ resident' = resident \ {b} /\ detached' = detached \ {b}
                        /\ tracked' = tracked \ {b} /\ excluded' = excluded \ {b}
           ELSE UNCHANGED <<store, resident, detached, flags>>
        /\ UNCHANGED <<prot, mem, want, writes, pins, op, th, fails>>

\* create_backing_locked and its mapping, once there is memory for it.
Create(t, b) ==
    /\ Run(t) /\ Part(b) = {} /\ Change
    /\ Busy(t) /\ Begin(t, "create", {}, "alloc", b)
    /\ UNCHANGED <<space, store, flags, data, detached, marks, pins, fails>>

Created ==
    LET new == MapsOf(op.for) IN
    /\ op.at = "alloc" /\ op.goal = "create" /\ Room(op.for)
    /\ live' = live \cup new /\ resident' = resident \cup {op.for}
    /\ prot' = [m \in Mappings |-> IF m \in new THEN "rw" ELSE prot[m]]
    /\ perm' = [m \in Mappings |-> IF m \in new THEN "rw" ELSE perm[m]]
    /\ mem' = [m \in Mappings |-> IF m \in new THEN 0 ELSE mem[m]]
    /\ want' = [m \in Mappings |-> IF m \in new THEN 0 ELSE want[m]]
    /\ tracked' = tracked \cup {op.for}
    /\ op' = Free /\ th' = [th EXCEPT ![op.by] = Running]
    /\ UNCHANGED <<undone, store, excluded, detached, marks, pins, fails, changes, writes>>
-----------------------------------------------------------------------------
\* A step of the call that holds the mutex.
Step ==
    \/ Succeed \/ Save \/ SaveFails \/ MapFails \/ MapEnds \/ UnmapFails
    \/ ScanEnds \/ AllocFull \/ Load \/ LoadFails \/ Created
    \/ \E m \in Mappings : Map(m) \/ Permit(m) \/ Unmap(m)
    \/ \E b \in Backings : Scan(b) \/ Restore(b)

\* A step of a fault's handler.
Handler(t) == Look(t) \/ SwapFault(t) \/ LazyFault(t) \/ Handle(t)

Touch(t) == \E m \in Mappings : Write(t, m) \/ Fault(t, m)

Program(t) ==
    \/ \E m \in Mappings : ProtectNone(t, m) \/ Protect(t, m) \/ UnmapRange(t, m)
    \/ Reclaim(t) \/ Unpin(t)
    \/ \E S \in Pinnable : Pin(t, S)
    \/ \E b \in Excludable : Exclude(t, b)
    \/ \E b \in Backings : Create(t, b)

Next ==
    \/ Step
    \/ \E t \in Threads : Handler(t) \/ Touch(t)
    \/ \E t \in Callers : Program(t)

Spec == Init /\ [][Next]_vars
LiveSpec == Spec /\ WF_vars(Step) /\ \A t \in Threads : SF_vars(Handler(t))
-----------------------------------------------------------------------------
(* What holds *)

SpaceType ==
    /\ live \subseteq Mappings /\ marks \subseteq Mappings
    /\ resident \subseteq Backings /\ detached \subseteq Backings
    /\ tracked \subseteq Backings /\ excluded \subseteq Backings
    /\ prot \in [Mappings -> {"none", "rw"}]
    /\ perm \in [Mappings -> {"unmapped", "none", "rw"}]
    /\ undone \in [Mappings -> 0..2]
    /\ mem \in [Mappings -> Nat] /\ want \in [Mappings -> Nat]
    /\ pins \in [Threads -> SUBSET Backings]
    /\ fails \in Nat /\ changes \in Nat /\ writes \in Nat /\ Within(fails, changes, writes)
StoreType ==
    /\ token \in [Backings -> 0..Units] /\ used \subseteq 1..Units
    /\ hint \in 1..(Units + 1) /\ stored \in 0..Units
ThreadState ==
    [st : {"run", "fault", "swap", "lazy", "busy", "violated"}, at : Mappings \cup {None},
     class : {"none", "translation", "permission"}]
CallState ==
    [by : Threads \cup {None},
     goal : {"none", "fault", "lazy", "protect", "exclude", "pin", "reclaim", "create"},
     todo : SUBSET Backings,
     at : {"none", "next", "alloc", "scan", "scanned", "unmap", "map"},
     on : Mappings \cup Backings \cup {None}, for : Backings \cup {None},
     victim : Backings \cup {None}, back : {"none", "restored", "refused", "unsaved"},
     tried : SUBSET Backings, freed : BOOLEAN]
CallType == th \in [Threads -> ThreadState] /\ op \in CallState

\* The variables have the values the code gives them.
TypeOK == SpaceType /\ StoreType /\ CallType

\* What the program wrote last is in memory or, for a backing that has none,
\* in every unit its token names: no failure of an unmap, a write, a read or a
\* map, and no reuse of units, loses it (horizon_swap_out and horizon_swap_in).
NothingLost ==
    \A b \in Backings : \A m \in Part(b) :
        IF b \in resident THEN mem[m] = want[m]
        ELSE token[b] # 0 /\ \A u \in Taken(b) : m \in DOMAIN disk[u] /\ disk[u][m] = want[m]

\* The units taken are those the tokens name, no two backings share one, none
\* is free below the hint, and the count the capacity check uses is theirs.
Out == {b \in Backings : token[b] # 0}
UnitsMatch ==
    /\ used = UNION {Taken(b) : b \in Out}
    /\ \A b, c \in Out : b # c => Taken(b) \cap Taken(c) = {}
    /\ stored = Cardinality(used)
    /\ 1..(hint - 1) \subseteq used

\* A mapping swapping took away is in the fault index, so its fault is
\* recognised; and it is never mapped without memory behind it.
FaultsFound ==
    /\ \A m \in live : undone[m] # 0 => m \in marks
    /\ \A m \in live : perm[m] # "unmapped" => BackingOf[m] \in resident

\* While a thread holds a pin, all it covers is mapped, so the kernel may use
\* it; and so is what no longer needs one, as pin_begin takes no pin for memory
\* that horizon_swap_exclude took out of the index.
Whole(b) == b \notin detached /\ \A m \in Part(b) : undone[m] = 0 /\ perm[m] # "unmapped"
PinnedMapped ==
    /\ \A t \in Threads : th[t].st = "run" => \A b \in pins[t] : Whole(b)
    /\ \A b \in Backings \ tracked : Part(b) # {} => Whole(b)

\* Once the mutex is free, a mapping that is not detached has the protection
\* the program asked for (protect_range_locked, swap_map_memory).  Unless a
\* call failed, that is, and the program changed mappings as well: what a failed
\* restore left half mapped counts as out, and protect_range_locked only writes
\* down that access to the mapped half was taken away.
PermissionsFollow ==
    op = Free /\ (fails = 0 \/ changes = 0) => \A m \in live : BackingOf[m] \notin detached => perm[m] = prot[m]

\* A mapping is there, and accessible, where the program and the devices it
\* handed it to rely on it, and nowhere else.
MappingsTrue == PinnedMapped /\ PermissionsFollow

\* Whatever failed, the program's bytes are somewhere the code finds them: in
\* memory or in units of the file of their own, behind a mark for the handler.
BytesFound == TypeOK /\ NothingLost /\ UnitsMatch /\ FaultsFound

(***************************************************************************)
(* Why: the inductive invariant behind BytesFound and MappingsTrue.        *)
(***************************************************************************)
\* What is neither in memory nor gone is out whole, in units of its own; what
\* has units is out, or being brought back.
BackingInv ==
    \A b \in Backings :
        /\ Part(b) = {} => b \notin resident /\ b \notin detached /\ token[b] = 0
        /\ Part(b) # {} /\ b \notin resident =>
              b \in detached /\ token[b] # 0 /\ \A m \in Part(b) : undone[m] = 1
        /\ token[b] # 0 => /\ b \in detached /\ token[b] + Size[b] - 1 <= Units
                           /\ \A u \in Taken(b) : disk[u] \in [MapsOf(b) -> Nat]

\* What is not mapped is marked, and is so because its backing is out or is the
\* one that is being taken out.
Leaving(b) == b = op.victim /\ (op.at = "unmap" \/ (op.at = "map" /\ op.back # "restored"))
MappingInv ==
    \A m \in Mappings :
        /\ m \in live => (undone[m] = 1 <=> perm[m] = "unmapped")
        /\ m \notin live => undone[m] = 0
        /\ undone[m] # 0 => m \in marks /\ (BackingOf[m] \in detached \/ Leaving(BackingOf[m]))

\* Which backing the call is at, and what may be relied on of it: one to be
\* brought back is out until its memory is there, one to be taken out is in
\* memory, in no unit, and neither pinned nor excluded.
Restores == op.goal \in {"fault", "lazy", "protect", "exclude", "pin"}
CallInv ==
    /\ op.at = "none" => op = Free
    /\ op.at # "none" => op.by \in Threads /\ th[op.by].st = "busy" /\ op.goal # "none"
    /\ op.at = "next" => Restores
    /\ op.at # "map" => op.back = "none"
    /\ op.at = "map" => op.back # "none"
    /\ op.back = "restored" => Restores /\ op.for \in resident
    /\ Restores /\ op.at # "next" =>
          op.for \in op.todo /\ op.for \in detached /\ (op.back # "restored" => op.for \notin resident)
    /\ op.goal = "reclaim" => op.at # "alloc"
    /\ op.goal = "create" => op.for \in Backings /\ Part(op.for) = {}
    /\ Leaving(op.victim) => op.victim \in Backings
    /\ op.at = "unmap" => \A m \in Part(op.victim) : undone[m] # 2
    /\ \A b \in Backings : Leaving(b) =>
          /\ b \in resident /\ token[b] = 0 /\ ~Pinned(b) /\ b \notin excluded
          /\ Part(b) \subseteq marks /\ (b \in detached <=> op.back = "unsaved")

\* What a call already has it keeps to its end, and beyond: a pin, an exclusion,
\* the mapping a protection is for.
GoalInv ==
    /\ op.goal = "protect" => /\ op.on \in live /\ op.todo \subseteq {BackingOf[op.on]}
                              /\ op.todo = {} => BackingOf[op.on] \notin detached
    /\ op.goal = "exclude" => /\ op.on \in excluded /\ op.todo \subseteq {op.on}
                              /\ op.todo = {} => op.on \notin detached
    /\ \A t \in Threads : \A b \in pins[t] : Whole(b) \/ (t = op.by /\ op.goal = "pin" /\ b \in op.todo)
    /\ \A b \in Backings \ tracked : Part(b) # {} => b \in excluded /\ Whole(b)

\* What is mapped has its protection, as without a failure nothing that counts
\* as out is half mapped.
PermInv ==
    /\ fails = 0 \/ changes = 0 => \A m \in live : undone[m] = 0 => perm[m] = prot[m]
    /\ fails = 0 => \A b \in detached : \A m \in Part(b) :
                       undone[m] = 1 \/ (op.at = "map" /\ Subject = b)

SwapInv == /\ TypeOK /\ NothingLost /\ UnitsMatch
           /\ BackingInv /\ MappingInv /\ CallInv /\ GoalInv /\ PermInv

\* A fault ends, with the thread running again or with an access violation:
\* making room for what it needs does not go on for ever (swap_alloc_memory).
FaultEnds == \A t \in Threads : []<>(th[t].st \in {"run", "violated"})
=============================================================================
