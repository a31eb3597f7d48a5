----------------------------- MODULE CodeArena -----------------------------
(***************************************************************************)
(* The memory of translated x86 code (box64_code_arena.h, and its callers  *)
(* in wow64_box64_dynarec.c).  An arena is tiled by chunks, each with a    *)
(* header; free neighbours are merged.  A chunk that Box64 frees waits in  *)
(* a quarantine before it can be handed out again, because other threads   *)
(* find blocks in the jump table without a lock: one may be about to run   *)
(* the block, or about to free it itself.                                  *)
(*                                                                         *)
(* Offsets and sizes are in units of 16 bytes, a header being one unit.    *)
(* This is one of the arenas, there from the start or created later; what  *)
(* the others do shows only in full.  A bin is the set of its chunks, and  *)
(* any of them may be the first ones in its list.  Allocations and frees   *)
(* hold Box64's translator lock, and the arena's mutex but while a purge   *)
(* frees blocks; threads run, look and leave at any time, and one of them  *)
(* may ask for room.                                                       *)
(***************************************************************************)
EXTENDS Naturals, Sequences, FiniteSets, Functions

CONSTANTS
    Size,       \* of the arena
    Wants,      \* sizes of the blocks that are translated
    Room,       \* NX_BLOCK_ROOM: a hole worth translating for
    Walk,       \* CODE_ARENA_WALK: chunks tried in one bin
    Blocks,     \* blocks that are translated
    Threads,
    Cases       \* what may happen together: the arena is there from the start, the code
                \* memory is limited (wine_nx_box64_code_limit), there may be no memory
                \* for a quarantine entry, threads ask for room, and how many blocks are
                \* handed to FreeDynarecMap a second time

ASSUME SizesAreNat ==
    /\ Size \in Nat \ {0, 1} /\ Wants \subseteq 1..Size /\ Room \in Nat
    /\ Walk \in Nat
    /\ Cases \subseteq [created : BOOLEAN, limited : BOOLEAN, poor : BOOLEAN, asked : BOOLEAN, again : Nat]

Offsets == 0..Size - 1
NoBlock == "none"

VARIABLES
    header,      \* struct code_chunk at each offset, also where it is stale
    linked,      \* the chunks in the bins
    live,        \* arena->live
    holder,      \* the block whose code is at an offset; a block's struct is there too
    place,       \* where a block's chunk is
    status,      \* of a block: "none", "new" (being written), "live", "gone" (its chunk
                 \* waits), "freed"
    quarantine,  \* chunks waiting, oldest first: where, the block it held, and for whom
                 \* now - stamp is long enough
    asking,      \* who has read the clock and not used it yet, in the order of their now
    alloc,       \* how far an allocation is, and the size it wants
    full,        \* arenas_full
    missed,      \* the holes that were there when full was set, or came with the arena then
    created,     \* whether this arena is there
    case,        \* which of Cases this is
    pointer,     \* the block a thread found and what it is about to do there
    early,       \* blocks whose chunks were freed before their two seconds were over
    again,       \* blocks handed over a second time, for the bound
    astray       \* whether a chunk was freed that is none, or another block's

vars == <<header, linked, live, holder, place, status, quarantine, asking, alloc, full, missed,
          created, case, pointer, early, again, astray>>
heap == <<header, linked, live>>
code == <<holder, place>>
flag == <<full, missed>>
fixed == <<created, case>>

----------------------------------------------------------------------------
(***************************************************************************)
(* box64_code_arena.h.                                                     *)
(***************************************************************************)
Min == 2
Round(want) == IF want + 1 < Min THEN Min ELSE want + 1
After(h, o) == o + h[o].size

\* code_arena_bin: a bin holds chunks of at least twice the size of the one
\* before it
Bin(size) ==
    LET f[n \in 0..Size] == IF n <= 1 THEN 0 ELSE 1 + f[n \div 2]
    IN f[size \div 2]

\* code_arena_search: in the bin of its own size, chunks that are too small
\* may be all that is tried; in a larger one the first will do
InBin(bin) == {o \in linked : Bin(header[o].size) = bin}
Fitting(want) == {o \in InBin(Bin(Round(want))) : header[o].size >= Round(want)}
Passes(want) ==
    \/ Fitting(want) = {}
    \/ Cardinality(InBin(Bin(Round(want))) \ Fitting(want)) >= Walk
Larger(want) ==
    {o \in linked : /\ Bin(header[o].size) > Bin(Round(want))
                    /\ \A p \in linked : Bin(header[p].size) > Bin(Round(want))
                                           => Bin(header[o].size) <= Bin(header[p].size)}
Fits(want) == Fitting(want) \cup (IF Passes(want) THEN Larger(want) ELSE {})
FindsNone(want) == Passes(want) /\ Larger(want) = {}

\* code_arena_alloc: the headers once the chunk at o is handed out, its tail
\* split off when it is worth keeping
Rest(h, o, want) == IF h[o].size - Round(want) >= Min THEN {o + Round(want)} ELSE {}
Take(h, o, want) ==
    LET size == Round(want)
        rest == h[o].size - size
        split == [h EXCEPT ![o + size] = [size |-> rest, prev |-> size, free |-> TRUE],
                           ![o].size = size, ![o].free = FALSE]
        after == After(h, o)
    IN IF rest >= Min
       THEN IF after < Size THEN [split EXCEPT ![after].prev = rest] ELSE split
       ELSE [h EXCEPT ![o].free = FALSE]

\* code_arena_free: the hole the chunk at o leaves, merged with the free chunk
\* after it and with the free one before it
Hole(a, o) ==
    LET after == After(a.h, o)
        before == o - a.h[o].prev
        next == IF after < Size /\ a.h[after].free THEN {after} ELSE {}
        prev == IF a.h[o].prev # 0 /\ a.h[before].free THEN {before} ELSE {}
        grown == a.h[o].size + IF next = {} THEN 0 ELSE a.h[after].size
    IN [next |-> next, prev |-> prev, grown |-> grown,
        start |-> IF prev = {} THEN o ELSE before,
        size |-> grown + IF prev = {} THEN 0 ELSE a.h[before].size]

\* Mutant: the chunk behind the hole is not told its size.
HeadersUntold(a, o, hole) ==
    [x \in Offsets |->
        CASE x = hole.start -> [a.h[x] EXCEPT !.size = hole.size, !.free = TRUE]
          [] x \in hole.next -> [a.h[x] EXCEPT !.free = FALSE]
          [] x = o /\ o # hole.start -> [a.h[x] EXCEPT !.size = hole.grown]
          [] OTHER -> a.h[x]]
\* The headers then, those inside the hole stale
Headers(a, o, hole) ==
    [x \in Offsets |->
        CASE x = hole.start -> [a.h[x] EXCEPT !.size = hole.size, !.free = TRUE]
          [] x = hole.start + hole.size -> [a.h[x] EXCEPT !.prev = hole.size]
          [] x \in hole.next -> [a.h[x] EXCEPT !.free = FALSE]
          [] x = o /\ o # hole.start -> [a.h[x] EXCEPT !.size = hole.grown]
          [] OTHER -> a.h[x]]

\* Mutant: the size that is told is the chunk's, not the hole's.
FreeUnmerged(a, o) ==
    LET hole == Hole(a, o)
    IN IF a.h[o].free THEN a
       ELSE [h |-> Headers(a, o, hole),
             l |-> (a.l \ (hole.next \cup hole.prev)) \cup {hole.start},
             n |-> a.n - a.h[o].size, room |-> a.h[o].size]
Free(a, o) ==
    LET hole == Hole(a, o)
    IN IF a.h[o].free THEN a
       ELSE [h |-> Headers(a, o, hole),
             l |-> (a.l \ (hole.next \cup hole.prev)) \cup {hole.start},
             n |-> a.n - a.h[o].size, room |-> hole.size]

----------------------------------------------------------------------------
(***************************************************************************)
(* The quarantine.  An entry is due for whoever read the clock two seconds *)
(* after its stamp; and, the subtraction being unsigned, for whoever read  *)
(* it before its stamp.                                                    *)
(***************************************************************************)
Marked(who) == [i \in DOMAIN quarantine |->
    IF "time" \in quarantine[i].due THEN [quarantine[i] EXCEPT !.due = @ \cup {who}]
    ELSE quarantine[i]]
Unmarked(q, who) == [i \in DOMAIN q |-> [q[i] EXCEPT !.due = @ \ {who}]]
Without(who) == SelectSeq(asking, LAMBDA other : other # who)

\* The oldest entries that are due
DueFor(who) ==
    SubSeq(quarantine, 1,
           Cardinality({i \in DOMAIN quarantine : \A j \in 1..i : who \in quarantine[j].due}))

Inside(b) == {t \in Threads : pointer[t].pc = "inside" /\ holder[place[pointer[t].b]] = b}

\* The block the chunk at o holds is written (chunk_block), and somebody is
\* inside
InUse(o) == holder[o] # NoBlock /\ status[holder[o]] # "new" /\ Inside(holder[o]) # {}

Heap == [h |-> header, l |-> linked, n |-> live, room |-> 0]
Untouched == [a |-> Heap, again |-> <<>>, freed |-> {}, early |-> {}, full |-> full, astray |-> FALSE]

\* A chunk goes back to the arena
Back(was, e) ==
    LET a == Free([was.a EXCEPT !.room = 0], e.o)
    IN [was EXCEPT !.a = a, !.freed = @ \cup {e.b},
                   !.early = IF "time" \in e.due THEN @ ELSE @ \cup {e.b},
                   !.full = @ /\ a.room < Round(Room)]

\* release_quarantine_locked: a chunk somebody is inside goes to the end of the
\* list again, another one to the arena.  A second entry of a chunk meets a
\* free one, or a header that is stale or another block's.
Released(was, e) ==
    CASE was.astray -> was
      [] InUse(e.o) -> [was EXCEPT !.again = Append(@, e)]
      [] status[e.b] = "gone" /\ e.b \notin was.freed -> Back(was, e)
      [] was.a.h[e.o].free -> was
      [] OTHER -> [was EXCEPT !.astray = TRUE]

ReleasedAll(entries) ==
    LET f[i \in 0..Len(entries)] == IF i = 0 THEN Untouched ELSE Released(f[i - 1], entries[i])
    IN f[Len(entries)]

\* Who releases what is due is done with the clock.  Those that wait again are
\* stamped with it, and are due for who read it earlier
Earlier(who) == {asking[i] : i \in {j \in DOMAIN asking : \A k \in 1..j : asking[k] # who}}
Release(who, entries) ==
    LET r == ReleasedAll(entries)
        waits == SubSeq(quarantine, Len(entries) + 1, Len(quarantine))
        repushed == [i \in DOMAIN r.again |-> [r.again[i] EXCEPT !.due = Earlier(who)]]
    IN /\ header' = r.a.h /\ linked' = r.a.l /\ live' = r.a.n
       /\ quarantine' = Unmarked(waits \o repushed, who)
       /\ status' = [b \in Blocks |-> IF b \in r.freed THEN "freed" ELSE status[b]]
       /\ early' = early \cup r.early
       /\ full' = r.full
       /\ missed' = IF r.full THEN missed ELSE {}
       /\ astray' = r.astray

\* Time passes.  The quarantine, two seconds, is longer than a thread takes
\* from finding a block to entering it, or to freeing it
Ripen ==
    /\ \E i \in DOMAIN quarantine :
         /\ "time" \notin quarantine[i].due /\ \A j \in 1..i - 1 : "time" \in quarantine[j].due
         /\ \A t \in Threads :
              pointer[t].pc \in {"found", "freeing"} => place[pointer[t].b] # quarantine[i].o
         /\ quarantine' = [quarantine EXCEPT ![i].due = @ \cup {"time"}]
    /\ UNCHANGED <<heap, code, status, asking, alloc, flag, fixed, pointer, early, again, astray>>

\* FreeDynarecMap: the chunk waits, or without memory for that is free at once
Push(b) ==
    LET o == place[b]
        r == Back(Untouched, [o |-> o, b |-> b, due |-> {}]) IN
    /\ ~header[o].free
    /\ \/ /\ quarantine' = Append(quarantine, [o |-> o, b |-> b, due |-> Range(asking)])
          /\ status' = [status EXCEPT ![b] = "gone"]
          /\ UNCHANGED <<heap, flag, early>>
       \/ /\ case.poor
          /\ header' = r.a.h /\ linked' = r.a.l /\ live' = r.a.n
          /\ status' = [status EXCEPT ![b] = "freed"]
          /\ early' = early \cup {b}
          /\ full' = r.full /\ missed' = IF r.full THEN missed ELSE {}
          /\ UNCHANGED quarantine

\* wine_nx_box64_code_room, once the arena is full: the clock is read, and then
\* the mutex is free or not
RoomAsks ==
    /\ case.asked /\ full /\ "room" \notin Range(asking)
    /\ asking' = Append(asking, "room")
    /\ quarantine' = Marked("room")
    /\ UNCHANGED <<heap, code, status, alloc, flag, fixed, pointer, early, again, astray>>
RoomReleases ==
    /\ "room" \in Range(asking)
    /\ Release("room", DueFor("room"))
    /\ asking' = Without("room")
    /\ UNCHANGED <<code, alloc, fixed, pointer, again>>
RoomLeaves ==
    /\ "room" \in Range(asking)
    /\ asking' = Without("room")
    /\ quarantine' = Unmarked(quarantine, "room")
    /\ UNCHANGED <<heap, code, status, alloc, flag, fixed, pointer, early, again, astray>>

----------------------------------------------------------------------------
(***************************************************************************)
(* AllocDynarecMap, under the translator lock.                             *)
(***************************************************************************)
NoAlloc == [at |-> "none", want |-> 0]
Quiet == alloc = NoAlloc
Searching == {"start", "purged", "again"}

\* The clock is read, and what has waited long enough is released
AllocStarts(want) ==
    /\ Quiet /\ \E b \in Blocks : status[b] = "none"
    /\ alloc' = [at |-> "start", want |-> want]
    /\ Release("alloc", DueFor("time"))
    /\ asking' = Append(asking, "alloc")
    /\ UNCHANGED <<code, fixed, pointer, again>>

Ends ==
    /\ alloc' = NoAlloc
    /\ asking' = Without("alloc")
    /\ quarantine' = Unmarked(quarantine, "alloc")

HandOut(b, o) ==
    /\ status[b] = "none"
    /\ status' = [status EXCEPT ![b] = "new"]
    /\ place' = [place EXCEPT ![b] = o]
    /\ holder' = [x \in Offsets |-> IF x = o THEN b
                                    ELSE IF x > o /\ x < o + Round(alloc.want) THEN NoBlock
                                    ELSE holder[x]]

Alloc(b) ==
    /\ alloc.at \in Searching
    /\ \E o \in Fits(alloc.want) :
         /\ HandOut(b, o)
         /\ header' = Take(header, o, alloc.want)
         /\ linked' = (linked \ {o}) \cup Rest(header, o, alloc.want)
         /\ live' = live + header'[o].size
    /\ Ends
    /\ UNCHANGED <<flag, fixed, pointer, early, again, astray>>

\* alloc_locked finds nothing here, or the limit is reached (whether it is,
\* is left open)
NoneHere == FindsNone(alloc.want) \/ case.limited

\* create_arena: the room it adds leaves arenas_full alone
AllocCreates(b) ==
    /\ alloc.at \in {"start", "purged"} /\ ~created /\ ~case.limited
    /\ Round(alloc.want) <= Size
    /\ HandOut(b, 0)
    /\ header' = Take([header EXCEPT ![0] = [size |-> Size, prev |-> 0, free |-> TRUE]], 0, alloc.want)
    /\ linked' = {o \in Offsets : header'[o].free}
    /\ live' = header'[0].size
    /\ created' = TRUE
    /\ missed' = IF full THEN Offsets ELSE {}
    /\ Ends
    /\ UNCHANGED <<full, case, pointer, early, again, astray>>

\* Another arena has the room
AllocElsewhere ==
    /\ alloc.at \in Searching
    /\ Ends
    /\ UNCHANGED <<heap, code, status, flag, fixed, pointer, early, again, astray>>

\* Room is low, or there is none: cold blocks are purged, once, and the mutex is
\* dropped while they are
AllocPurges ==
    /\ alloc.at = "start"
    /\ \E at \in {"purge", "repurge"} :
         /\ at = "repurge" => NoneHere
         /\ alloc' = [alloc EXCEPT !.at = at]
    /\ UNCHANGED <<heap, code, status, quarantine, asking, flag, fixed, pointer, early, again, astray>>

\* purge_locked: a cold block that no thread is inside
Purge(b) ==
    /\ alloc.at \in {"purge", "repurge"} /\ status[b] = "live" /\ Inside(b) = {}
    /\ Push(b)
    /\ UNCHANGED <<code, asking, alloc, fixed, pointer, again, astray>>

\* After the second purge the quarantine is looked at with the old clock
PurgeEnds ==
    \/ /\ alloc.at = "purge"
       /\ alloc' = [alloc EXCEPT !.at = "purged"]
       /\ asking' = Without("alloc")
       /\ quarantine' = Unmarked(quarantine, "alloc")
       /\ UNCHANGED <<heap, code, status, flag, fixed, pointer, early, again, astray>>
    \/ /\ alloc.at = "repurge"
       /\ alloc' = [alloc EXCEPT !.at = "again"]
       /\ asking' = Without("alloc")
       /\ Release("alloc", DueFor("alloc"))
       /\ UNCHANGED <<code, fixed, pointer, again>>

\* Nothing is translated until a hole is freed that is worth it
Worth == {o \in linked : header[o].size >= Round(Room)}
AllocFails ==
    /\ alloc.at \in Searching /\ NoneHere
    /\ Ends
    /\ full' = TRUE
    /\ missed' = UNION {o..After(header, o) - 1 : o \in Worth}
    /\ UNCHANGED <<heap, code, status, fixed, pointer, early, again, astray>>

\* A hole that is worth it is freed in another arena
FreedElsewhere ==
    /\ full /\ full' = FALSE /\ missed' = {}
    /\ UNCHANGED <<heap, code, status, quarantine, asking, alloc, fixed, pointer, early, again, astray>>

----------------------------------------------------------------------------
(***************************************************************************)
(* Box64's other calls under the translator lock.                          *)
(***************************************************************************)
\* The block is written and the jump table leads to it
Publish(b) ==
    /\ status[b] = "new" /\ Quiet
    /\ status' = [status EXCEPT ![b] = "live"]
    /\ UNCHANGED <<heap, code, quarantine, asking, alloc, flag, fixed, pointer, early, again, astray>>

\* A translation that was started is cancelled
Cancel(b) ==
    /\ status[b] = "new" /\ Quiet
    /\ Push(b)
    /\ UNCHANGED <<code, asking, alloc, fixed, pointer, again, astray>>

\* Box64 hands a block over that went already: its chunk is free, or waits and
\* is queued a second time, or is by now none, or another block's
FreeAgain(b) ==
    /\ status[b] \in {"gone", "freed"} /\ Quiet
    /\ again < case.again /\ again' = again + 1
    /\ \/ /\ header[place[b]].free
          /\ UNCHANGED <<heap, status, quarantine, flag, early, astray>>
       \/ /\ status[b] = "gone" /\ Push(b)
          /\ UNCHANGED astray
       \/ /\ status[b] = "freed" /\ ~header[place[b]].free
          /\ astray' = TRUE
          /\ UNCHANGED <<heap, status, quarantine, flag, early>>
    /\ UNCHANGED <<code, asking, alloc, fixed, pointer>>

----------------------------------------------------------------------------
(***************************************************************************)
(* Threads, without a lock (Box64; its use of the jump table is external). *)
(***************************************************************************)
Others == <<heap, code, quarantine, asking, alloc, flag, fixed, early, again, astray>>

Find(t, b) ==
    /\ pointer[t].pc = "none" /\ status[b] = "live"
    /\ \E pc \in {"found", "freeing"} : pointer' = [pointer EXCEPT ![t] = [pc |-> pc, b |-> b]]
    /\ UNCHANGED <<Others, status>>

Enter(t) ==
    /\ pointer[t].pc = "found"
    /\ pointer' = [pointer EXCEPT ![t].pc = "inside"]
    /\ UNCHANGED <<Others, status>>

Leave(t) ==
    /\ pointer[t].pc = "inside"
    /\ pointer' = [pointer EXCEPT ![t] = [pc |-> "none", b |-> NoBlock]]
    /\ UNCHANGED <<Others, status>>

\* An invalidation frees the block it found, unless that is gone
Invalidate(t) ==
    LET b == holder[place[pointer[t].b]] IN
    /\ pointer[t].pc = "freeing" /\ Quiet
    /\ pointer' = [pointer EXCEPT ![t] = [pc |-> "none", b |-> NoBlock]]
    /\ IF b # NoBlock /\ status[b] = "live" THEN Push(b)
       ELSE UNCHANGED <<heap, status, quarantine, flag, early>>
    /\ UNCHANGED <<code, asking, alloc, fixed, again, astray>>

Init ==
    /\ case \in Cases /\ created = case.created
    /\ header = [o \in Offsets |-> [size |-> IF o = 0 /\ created THEN Size ELSE 0, prev |-> 0,
                                    free |-> o = 0 /\ created]]
    /\ linked = {o \in Offsets : header[o].free} /\ live = 0
    /\ holder = [o \in Offsets |-> NoBlock]
    /\ place = [b \in Blocks |-> 0]
    /\ status = [b \in Blocks |-> "none"]
    /\ quarantine = <<>> /\ asking = <<>> /\ alloc = NoAlloc
    /\ full = FALSE /\ missed = {}
    /\ pointer = [t \in Threads |-> [pc |-> "none", b |-> NoBlock]]
    /\ early = {} /\ again = 0 /\ astray = FALSE

\* Once a wrong chunk was freed the headers mean nothing, and what follows is
\* not looked at
Next ==
    /\ ~astray
    /\ \/ Ripen \/ RoomAsks \/ RoomReleases \/ RoomLeaves
       \/ \E want \in Wants : AllocStarts(want)
       \/ AllocElsewhere \/ AllocPurges \/ PurgeEnds \/ AllocFails \/ FreedElsewhere
       \/ \E b \in Blocks : Alloc(b) \/ AllocCreates(b) \/ Purge(b)
       \/ \E b \in Blocks : Publish(b) \/ Cancel(b) \/ FreeAgain(b)
       \/ \E t \in Threads : Enter(t) \/ Leave(t) \/ Invalidate(t)
       \/ \E t \in Threads, b \in Blocks : Find(t, b)

Spec == Init /\ [][Next]_vars

----------------------------------------------------------------------------
(***************************************************************************)
(* Properties.                                                             *)
(***************************************************************************)
\* The chunks, found by walking the arena from its start.
Starts ==
    LET f[n \in 0..Size] ==
          IF n = 0 THEN {0}
          ELSE LET before == f[n - 1]
               IN before \cup ({After(header, o) : o \in before} \cap Offsets)
    IN IF created THEN f[Size] ELSE {}

\* The variables have the values the code gives them.
TypeOK ==
    /\ header \in [Offsets -> [size : 0..Size, prev : 0..Size, free : BOOLEAN]]
    /\ linked \subseteq Offsets /\ live \in 0..Size
    /\ quarantine \in Seq([o : Offsets, b : Blocks, due : SUBSET {"time", "alloc", "room"}])
    /\ asking \in Seq({"alloc", "room"})
    /\ alloc \in [at : Searching \cup {"none", "purge", "repurge"}, want : Wants \cup {0}]
    /\ status \in [Blocks -> {"none", "new", "live", "gone", "freed"}]
    /\ {full, created, astray} \subseteq BOOLEAN /\ missed \subseteq Offsets
    /\ case \in Cases

\* Splitting and merging keep the arena tiled by chunks that know their
\* neighbour, the free ones in the bins and never side by side, the rest
\* counted in live.
ArenaTiled ==
    /\ \A o \in Starts :
         LET after == After(header, o) IN
         /\ header[o].size >= Min /\ after <= Size
         /\ after < Size => /\ header[after].prev = header[o].size
                           /\ ~(header[o].free /\ header[after].free)
    /\ linked = {o \in Starts : header[o].free}
    /\ live = FoldFunctionOnSet(+, 0, [o \in Starts |-> header[o].size],
                                {o \in Starts : ~header[o].free})

\* Every block in use or waiting has a chunk of its own, with its code in it
\* while it is in use; no other chunk is held, so none is lost; and each that
\* waits is in the quarantine.
Used == {b \in Blocks : status[b] \in {"new", "live"}}
Waiting == {b \in Blocks : status[b] = "gone"}
BlocksKept ==
    /\ Starts \ linked = {place[b] : b \in Used \cup Waiting}
    /\ \A b, c \in Used \cup Waiting : place[b] = place[c] => b = c
    /\ \A b \in Used : holder[place[b]] = b
    /\ \A b \in Waiting : \E i \in DOMAIN quarantine : quarantine[i].b = b
    /\ \A i \in DOMAIN quarantine :
         quarantine[i].b \in Waiting \/ (again > 0 /\ status[quarantine[i].b] = "freed")

\* The arena's chunks are all accounted for, through splits, merges, purges,
\* and releases that are put off or come too early; and a chunk is freed twice,
\* or from under another block, only after Box64 has handed a block to
\* FreeDynarecMap a second time.
ChunksKept ==
    /\ TypeOK
    /\ IF astray THEN again > 0 ELSE ArenaTiled /\ BlocksKept


\* "Translation is worth trying again only once a hole this size exists": while
\* the arena counts as full, a hole that is worth translating for is a part of
\* one that was there already when the allocation failed (its block was
\* larger, it was not among the chunks that were tried, or the limit was
\* reached), or of an arena that was created since.  One that a free left, by
\* itself or with its neighbours, has cleared the flag.
FullTrue == full => \A o \in Worth : o..After(header, o) - 1 \subseteq missed
============================================================================
