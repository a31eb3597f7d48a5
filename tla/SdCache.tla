------------------------------- MODULE SdCache -------------------------------
(***************************************************************************)
(* The caches in front of the SD card: writes held back in a window        *)
(* (sd_write_buffer.h), chunks kept of what was read (sd_read_cache.h),    *)
(* what stat said (sd_stat_cache.h), and the device that puts the three    *)
(* together (sd_cache.c).  One path is modelled, with several opens of it. *)
(*                                                                         *)
(* A step is what happens under one hold of sd_cache_mutex, or one request *)
(* to the card outside it; calls on different opens interleave, the calls  *)
(* on one open do not (runtime_platform.c asks its callers for that).  A   *)
(* file is made of cells that stand for the bytes a write or a read moves  *)
(* together; cell values number the writes in the order they were made.    *)
(***************************************************************************)
EXTENDS FileCells, FiniteSetsExt

CONSTANTS
    Opens,        \* the times the file may be open at once
    Appends,      \* the opens with O_APPEND
    WindowLen,    \* cells a window holds (SD_WRITE_BUFFER_SIZE)
    Direct,       \* a write of this many goes straight out (SD_WRITE_DIRECT)
    Chunk,        \* cells a miss reads (SD_CACHE_CHUNK)
    Budgets,      \* bounds: writes w, truncations t, refused requests f and stats s; a run
                  \* stays within one of these
    Overlap,      \* may a file be written or truncated while it is being opened?
    None

ASSUME SizesAssumption ==
    /\ FileLen \in Nat \ {0} /\ WindowLen \in Nat \ {0} /\ Direct \in Nat \ {0} /\ Chunk \in Nat \ {0}
    /\ Direct <= WindowLen
ASSUME BudgetsAssumption == Budgets \subseteq [w : Nat, t : Nat, f : Nat, s : Nat] /\ IsFiniteSet(Budgets)
ASSUME OpensAssumption == Appends \subseteq Opens /\ Overlap \in BOOLEAN

VARIABLES
    card,      \* what the card holds, cell by cell
    cardPos,   \* cardPos[o]: the position libnx keeps for open o
    pc,        \* pc[o]: where the call on o is
    arg,       \* arg[o]: its length
    wb,        \* wb[o]: the window of writes held back
    shared,    \* opens of a path that was open twice
    cacheable, \* opens whose chunks may be kept
    lines,     \* lines[o]: the chunks kept
    endAt,     \* endAt[o]: where a short fill said the file ends, or Unknown
    kept,      \* the size stat keeps for the path, or None
    stat,      \* the stat call that asks the card
    out,       \* out[o]: what o read last
    past,      \* past[o]: what the unfinished call of o replaced on the card
    count,     \* writes, truncations, failures and stats so far
    err,       \* opens whose last call failed
    silent     \* were bytes lost without a call that failed?

io == <<card, cardPos, pc, arg, wb>>
cache == <<shared, cacheable, lines, endAt>>
ghosts == <<past, out, silent>>
vars == <<io, cache, ghosts, kept, stat, count, err>>

Blank == [c \in 0..(WindowLen - 1) |-> Eof]
Empty == [start |-> 0, len |-> 0, from |-> 0, to |-> 0, pos |-> 0, data |-> Blank]
Unknown == FileLen + Chunk   \* an end no fill reaches
Idle == [at |-> "idle", size |-> 0, moved |-> FALSE]

Window(o) == wb[o].len > 0
Held == {o \in Opens : Window(o)}
Position(o) == IF Window(o) THEN wb[o].pos ELSE cardPos[o]
Dirty(w) == w.to - w.from
Opened == {o \in Opens : pc[o] \notin {"closed", "opening", "recording"}}
Opening == {o \in Opens : pc[o] \in {"opening", "recording"}}

\* The card with the first k dirty cells of window w written to it.
Sent(w, k) ==
    [c \in Cells |-> IF c \in (w.start + w.from)..(w.start + w.from + k - 1) THEN w.data[c - w.start] ELSE card[c]]

\* What a program that reads now is to see: the card under the windows.
Seen ==
    [c \in Cells |-> LET over == {o \in Held : c \in wb[o].start..(wb[o].start + wb[o].len - 1)}
                     IN  IF over = {} THEN card[c] ELSE LET o == CHOOSE o \in over : TRUE IN wb[o].data[c - wb[o].start]]

Init ==
    /\ card = [c \in Cells |-> Eof] /\ cardPos = [o \in Opens |-> 0]
    /\ pc = [o \in Opens |-> "closed"] /\ arg = [o \in Opens |-> 0]
    /\ wb = [o \in Opens |-> Empty]
    /\ shared = {} /\ cacheable = {} /\ lines = [o \in Opens |-> {}] /\ endAt = [o \in Opens |-> Unknown]
    /\ kept = None /\ stat = Idle
    /\ out = [o \in Opens |-> Eof] /\ past = [o \in Opens |-> Nothing]
    /\ count = [w |-> 0, t |-> 0, f |-> 0, s |-> 0] /\ err = {} /\ silent = FALSE

-----------------------------------------------------------------------------
(* Pieces of the calls *)

\* One more of what x counts, and whether a budget has room for it.
Spend(x) == [count EXCEPT ![x] = @ + 1]
Within(c) == \E b \in Budgets : \A y \in DOMAIN b : c[y] <= b[y]
Affords(x) == Within(Spend(x))

\* How many dirty cells a flush of o gets onto the card: all, or fewer when
\* the card refuses a request.
Gets(o) == {k \in 0..Dirty(wb[o]) : k = Dirty(wb[o]) \/ Affords("f")}
Fails(o, k) == k < Dirty(wb[o])
Counted(o, k) == IF Fails(o, k) THEN Spend("f") ELSE count

\* sd_stat_changed: what stat said is forgotten, and a stat under way will not
\* keep its answer.
Changed == kept' = None /\ stat' = [stat EXCEPT !.moved = @ \/ stat.at # "idle"]
Unchanged == UNCHANGED <<kept, stat>>

\* What was sent is dirty no more.
Clean(w) == [w EXCEPT !.from = 0, !.to = 0]

\* Bytes of o go out (sd_cache_write_out); stat's answer goes when there are any.
Told(o) == IF Dirty(wb[o]) > 0 THEN Changed ELSE Unchanged

\* sd_cache_drop for a set of opens.
Drop(os) ==
    /\ lines' = [o \in Opens |-> IF o \in os THEN {} ELSE lines[o]]
    /\ endAt' = [o \in Opens |-> IF o \in os THEN Unknown ELSE endAt[o]]

\* The chunks a write through o makes out of date: those of the path.
Concerned(o) == IF o \in shared THEN Opens ELSE {o}

\* sd_cache_flush_locked for o: the window goes out and is dropped, and the
\* card's position becomes the program's.
FlushWindow(o, k) ==
    /\ card' = Sent(wb[o], k)
    /\ wb' = [wb EXCEPT ![o] = Empty]
    /\ cardPos' = [cardPos EXCEPT ![o] = Position(o)]
    /\ Told(o)

\* sd_cache_flush_path_locked: at most one open of the path has a window.  The
\* failure is nobody's.
FlushPath(k) ==
    IF Held = {} THEN k = 0 /\ UNCHANGED <<card, wb, cardPos, kept, stat, count, silent>>
    ELSE LET h == CHOOSE h \in Held : TRUE IN
         /\ k \in Gets(h)
         /\ FlushWindow(h, k)
         /\ count' = Counted(h, k)
         /\ silent' = (silent \/ Fails(h, k))

\* Programs that do not write a file while another thread is opening it.
Quiet == Overlap \/ Opening = {}

-----------------------------------------------------------------------------
(* Opening and closing *)

\* sd_cache_open begins: what is held for the path goes out.
OpenFlush(o, k) ==
    /\ pc[o] = "closed"
    /\ Overlap \/ \A u \in Opens : pc[u] # "cutting"
    /\ FlushPath(k)
    /\ pc' = [pc EXCEPT ![o] = "opening"]
    /\ err' = err \ {o}
    /\ UNCHANGED <<arg, cache, out, past>>

\* The card opens the file, and empties it with O_TRUNC.
OpenCard(o, trunc) ==
    /\ pc[o] = "opening"
    /\ trunc => Affords("t")
    /\ LET new == IF trunc THEN [c \in Cells |-> Eof] ELSE card IN
       /\ card' = new
       /\ past' = [past EXCEPT ![o] = Replaced(card, new)]
    /\ count' = IF trunc THEN Spend("t") ELSE count
    /\ cardPos' = [cardPos EXCEPT ![o] = 0]
    /\ pc' = [pc EXCEPT ![o] = "recording"]
    /\ arg' = [arg EXCEPT ![o] = IF trunc THEN 1 ELSE 0]
    /\ UNCHANGED <<wb, cache, out, silent, kept, stat, err>>

\* The open is recorded.  A path that is open twice is shared from now on, and
\* the chunks of its writers go, which all opens here are.
OpenRecord(o) ==
    /\ pc[o] = "recording"
    /\ shared' = IF Opened = {} THEN shared \ {o} ELSE Opened \cup {o}
    /\ cacheable' = cacheable \cup {o}
    /\ Drop(Opens)
    /\ IF arg[o] = 1 THEN Changed ELSE Unchanged
    /\ past' = [past EXCEPT ![o] = Nothing]
    /\ pc' = [pc EXCEPT ![o] = "idle"] /\ arg' = [arg EXCEPT ![o] = 0]
    /\ UNCHANGED <<card, cardPos, wb, out, silent, count, err>>

\* sd_cache_close: what is held goes out, and a failure is the caller's.
Close(o, k) ==
    /\ pc[o] = "idle" /\ k \in Gets(o)
    /\ FlushWindow(o, k)
    /\ count' = Counted(o, k)
    /\ err' = IF Fails(o, k) THEN err \cup {o} ELSE err \ {o}
    /\ lines' = [lines EXCEPT ![o] = {}] /\ endAt' = [endAt EXCEPT ![o] = Unknown]
    /\ cacheable' = cacheable \ {o} /\ shared' = shared \ {o}
    /\ pc' = [pc EXCEPT ![o] = "closed"]
    /\ UNCHANGED <<arg, ghosts>>

-----------------------------------------------------------------------------
(* Writing *)

\* Is the write to be held?
Holds(o, n) == o \notin shared \cup Appends /\ n < Direct

\* Does a write of n at p go into window w as it is?
Fits(w, p, n) == p \in w.start..(w.start + w.len) /\ p - w.start + n <= WindowLen

\* The window with a write in it.  Its dirty part grows to cover the write.
Merged(w, p, n, v) ==
    LET at == p - w.start IN
    [w EXCEPT !.data = [c \in DOMAIN @ |-> IF c \in at..(at + n - 1) THEN v ELSE @[c]],
              !.len = Max({@, at + n}),
              !.from = IF Dirty(w) = 0 THEN at ELSE Min({@, at}),
              !.to = IF Dirty(w) = 0 THEN at + n ELSE Max({@, at + n}),
              !.pos = p + n]

\* No program leaves a hole: what the card puts in one is its own affair.
MayWrite(o, n) ==
    /\ pc[o] = "idle" /\ Affords("w") /\ Quiet
    /\ Position(o) <= Size(Seen) /\ Position(o) + n <= FileLen

\* A write that is held (sd_write_take): in the window, or in a new one once
\* the window is on the card.
WriteHeld(o, n, k) ==
    /\ MayWrite(o, n) /\ Holds(o, n)
    /\ Drop(Concerned(o))
    /\ IF Window(o) /\ Fits(wb[o], Position(o), n)
       THEN /\ k = 0
            /\ wb' = [wb EXCEPT ![o] = Merged(@, Position(o), n, count.w + 1)]
            /\ count' = Spend("w") /\ err' = err \ {o}
            /\ UNCHANGED <<card, cardPos, kept, stat>>
       ELSE /\ k \in Gets(o)
            /\ card' = Sent(wb[o], k)
            /\ Told(o)
            /\ IF Fails(o, k)
               THEN \* the card's position stays where the request that failed left it
                    /\ wb' = [wb EXCEPT ![o] = Empty]
                    /\ cardPos' = [cardPos EXCEPT ![o] = wb[o].start + wb[o].from + k]
                    /\ count' = Counted(o, k) /\ err' = err \cup {o}
               ELSE /\ wb' = [wb EXCEPT ![o] = Merged([Empty EXCEPT !.start = Position(o)], Position(o), n, count.w + 1)]
                    /\ cardPos' = cardPos
                    /\ count' = Spend("w") /\ err' = err \ {o}
    /\ UNCHANGED <<pc, arg, shared, cacheable, ghosts>>

\* Mutant: it does not wait for what is held.
WriteBeginAhead(o, n, k) ==
    /\ MayWrite(o, n) /\ ~Holds(o, n) /\ k = 0
    /\ Drop(Concerned(o)) /\ Changed
    /\ cardPos' = [cardPos EXCEPT ![o] = Position(o)]
    /\ pc' = [pc EXCEPT ![o] = "landing"] /\ arg' = [arg EXCEPT ![o] = n]
    /\ err' = err \ {o}
    /\ UNCHANGED <<card, wb, count, shared, cacheable, ghosts>>

\* A write that goes straight to the card begins: what is held goes first.
WriteBegin(o, n, k) ==
    /\ MayWrite(o, n) /\ ~Holds(o, n) /\ k \in Gets(o)
    /\ Drop(Concerned(o))
    /\ card' = Sent(wb[o], k)
    /\ wb' = [wb EXCEPT ![o] = Empty]
    /\ Changed
    /\ count' = Counted(o, k)
    /\ IF Fails(o, k)
       THEN /\ cardPos' = [cardPos EXCEPT ![o] = IF o \in shared \cup Appends THEN Position(o)
                                                 ELSE wb[o].start + wb[o].from + k]
            /\ err' = err \cup {o} /\ UNCHANGED <<pc, arg>>
       ELSE /\ cardPos' = [cardPos EXCEPT ![o] = Position(o)]
            /\ pc' = [pc EXCEPT ![o] = "landing"] /\ arg' = [arg EXCEPT ![o] = n]
            /\ err' = err \ {o}
    /\ UNCHANGED <<shared, cacheable, ghosts>>

\* The request reaches the card, with nothing locked.  The card takes k cells
\* of it; what it returns, fewer or a failure, is what the call returns.
WriteCard(o, k) ==
    /\ pc[o] = "landing" /\ k \in 0..arg[o]
    /\ LET at == IF o \in Appends THEN Size(card) ELSE cardPos[o]
           new == Put(card, at, k, count.w + 1)
       IN  /\ at + arg[o] <= FileLen /\ at <= Size(card)
           /\ card' = new
           /\ past' = [past EXCEPT ![o] = Replaced(card, new)]
           /\ cardPos' = [cardPos EXCEPT ![o] = at + k]
    /\ count' = IF k < arg[o] THEN [Spend("w") EXCEPT !.f = @ + 1] ELSE Spend("w")
    /\ Within(count')
    /\ err' = IF k < arg[o] THEN err \cup {o} ELSE err
    /\ pc' = [pc EXCEPT ![o] = "landed"]
    /\ UNCHANGED <<arg, wb, cache, out, silent, kept, stat>>

\* Mutant: what a reader has kept meanwhile stays.
WriteReturnKeeping(o) ==
    /\ pc[o] = "landed"
    /\ UNCHANGED <<lines, endAt>>
    /\ Changed
    /\ past' = [past EXCEPT ![o] = Nothing]
    /\ pc' = [pc EXCEPT ![o] = "idle"] /\ arg' = [arg EXCEPT ![o] = 0]
    /\ UNCHANGED <<card, cardPos, wb, shared, cacheable, out, silent, count, err>>

\* A reader may have refilled the cache while the write was in flight.
WriteReturn(o) ==
    /\ pc[o] = "landed"
    /\ Drop(Concerned(o))
    /\ Changed
    /\ past' = [past EXCEPT ![o] = Nothing]
    /\ pc' = [pc EXCEPT ![o] = "idle"] /\ arg' = [arg EXCEPT ![o] = 0]
    /\ UNCHANGED <<card, cardPos, wb, shared, cacheable, out, silent, count, err>>

\* The runtime's timer sends what is dirty and keeps the window; diropen does too.
Timer(o, k) ==
    /\ Dirty(wb[o]) > 0 /\ k \in Gets(o)
    /\ card' = Sent(wb[o], k)
    /\ Changed
    /\ wb' = [wb EXCEPT ![o] = Clean(@)]
    /\ cardPos' = [cardPos EXCEPT ![o] = wb[o].start + wb[o].from + k]
    /\ count' = Counted(o, k)
    /\ silent' = (silent \/ Fails(o, k))
    /\ UNCHANGED <<pc, arg, cache, past, out, err>>

-----------------------------------------------------------------------------
(* Reading, seeking, truncating *)

\* Mutant: a read trusts the card while bytes are held.
ReadBeginBlind(o, k) ==
    /\ pc[o] = "idle" /\ k = 0
    /\ UNCHANGED <<card, wb, cardPos, kept, stat, count, silent>>
    /\ pc' = [pc EXCEPT ![o] = "reading"]
    /\ err' = err \ {o}
    /\ UNCHANGED <<arg, cache, past, out>>

\* A read begins: what is held for the path, by any open, goes out.
ReadBegin(o, k) ==
    /\ pc[o] = "idle"
    /\ FlushPath(k)
    /\ pc' = [pc EXCEPT ![o] = "reading"]
    /\ err' = err \ {o}
    /\ UNCHANGED <<arg, cache, past, out>>

\* A fill for cell c: the chunk it is in, up to a known end of the file.
Fill(o, c) ==
    LET start == c - (c % Chunk)
        want == Min({start + Chunk, endAt[o]})
        got == Min({Max({Size(card), start}), want})
    IN  [start |-> start, end |-> got, short |-> got < want,
         data |-> [d \in Cells |-> IF d \in start..(got - 1) THEN card[d] ELSE Eof]]

Takes(o, v) ==
    /\ out' = [out EXCEPT ![o] = v]
    /\ cardPos' = [cardPos EXCEPT ![o] = IF v = Eof THEN @ ELSE @ + 1]
    /\ pc' = [pc EXCEPT ![o] = "idle"]

\* sd_cache_read: from a chunk that is kept, or past a known end, or from a
\* chunk read now.  A large read, or one of a file no longer cached, is the
\* card's own.
ReadEnd(o) ==
    /\ pc[o] = "reading"
    /\ LET c == cardPos[o]
           hits == {l \in lines[o] : c \in l.start..(l.end - 1)}
       IN  /\ c \in Cells
           /\ \/ o \in cacheable /\ \E l \in hits : Takes(o, l.data[c]) /\ UNCHANGED <<lines, endAt>>
              \/ /\ o \in cacheable /\ hits = {} /\ c >= endAt[o]
                 /\ Takes(o, Eof) /\ UNCHANGED <<lines, endAt>>
              \/ /\ o \in cacheable /\ hits = {} /\ c < endAt[o]
                 /\ LET l == Fill(o, c) IN
                    /\ lines' = [lines EXCEPT ![o] = @ \cup {[start |-> l.start, end |-> l.end, data |-> l.data]}]
                    /\ endAt' = IF l.short THEN [endAt EXCEPT ![o] = l.end] ELSE endAt
                    /\ Takes(o, IF c < l.end THEN card[c] ELSE Eof)
              \/ Takes(o, card[c]) /\ UNCHANGED <<lines, endAt>>
    /\ UNCHANGED <<card, arg, wb, shared, cacheable, past, silent, kept, stat, count, err>>

\* The pool takes a chunk back (another file's miss, sd_cache_trim).
Evict(o) ==
    /\ \E l \in lines[o] : lines' = [lines EXCEPT ![o] = @ \ {l}]
    /\ UNCHANGED <<io, shared, cacheable, endAt, ghosts, kept, stat, count, err>>

\* A seek from the start or from the position moves what the window keeps.
Seek(o, to) ==
    /\ pc[o] = "idle"
    /\ IF Window(o) THEN wb' = [wb EXCEPT ![o].pos = to] /\ UNCHANGED cardPos
       ELSE cardPos' = [cardPos EXCEPT ![o] = to] /\ UNCHANGED wb
    /\ err' = err \ {o}
    /\ UNCHANGED <<card, pc, arg, cache, ghosts, kept, stat, count>>

\* fsync: what is held goes out.
Sync(o, k) ==
    /\ pc[o] = "idle" /\ k \in Gets(o)
    /\ FlushWindow(o, k)
    /\ count' = Counted(o, k)
    /\ err' = IF Fails(o, k) THEN err \cup {o} ELSE err \ {o}
    /\ UNCHANGED <<pc, arg, cache, ghosts>>

\* A seek from the end asks the card, after what is held is on it.
SeekEnd(o, k) ==
    /\ pc[o] = "idle" /\ k \in Gets(o)
    /\ card' = Sent(wb[o], k) /\ wb' = [wb EXCEPT ![o] = Empty] /\ Told(o)
    /\ cardPos' = [cardPos EXCEPT ![o] = IF Fails(o, k) THEN Position(o) ELSE Size(card')]
    /\ count' = Counted(o, k)
    /\ err' = IF Fails(o, k) THEN err \cup {o} ELSE err \ {o}
    /\ UNCHANGED <<pc, arg, cache, ghosts>>

\* ftruncate begins: what this open holds goes out, the path is not cached any
\* more, stat's answer is forgotten.
TruncateBegin(o, len, k) ==
    /\ pc[o] = "idle" /\ Quiet /\ Affords("t") /\ k \in Gets(o)
    /\ card' = Sent(wb[o], k)
    /\ wb' = [wb EXCEPT ![o] = Empty]
    /\ cardPos' = [cardPos EXCEPT ![o] = Position(o)]
    /\ IF Fails(o, k)
       THEN /\ count' = Counted(o, k) /\ err' = err \cup {o} /\ Told(o)
            /\ UNCHANGED <<pc, arg, cacheable, lines, endAt>>
       ELSE /\ count' = Spend("t") /\ err' = err \ {o} /\ Changed
            /\ pc' = [pc EXCEPT ![o] = "cutting"] /\ arg' = [arg EXCEPT ![o] = len]
            /\ cacheable' = {} /\ Drop(Opens)
    /\ UNCHANGED <<shared, ghosts>>

\* The card cuts the file.  Nothing is forgotten after it.
TruncateCard(o) ==
    /\ pc[o] = "cutting" /\ arg[o] <= Size(card)
    /\ card' = Cut(card, arg[o])
    /\ pc' = [pc EXCEPT ![o] = "idle"] /\ arg' = [arg EXCEPT ![o] = 0]
    /\ UNCHANGED <<cardPos, wb, cache, ghosts, kept, stat, count, err>>

-----------------------------------------------------------------------------
(* stat, by path, from another thread *)

\* sd_cache_stat finds no answer kept.  (One that is kept is given at once; what
\* is held is added to either before it is returned.)
StatBegin ==
    /\ stat.at = "idle" /\ kept = None /\ Affords("s")
    /\ count' = Spend("s")
    /\ stat' = [at |-> "asking", size |-> 0, moved |-> FALSE]
    /\ UNCHANGED <<io, cache, ghosts, kept, err>>

StatCard ==
    /\ stat.at = "asking"
    /\ stat' = [stat EXCEPT !.at = "storing", !.size = Size(card)]
    /\ UNCHANGED <<io, cache, ghosts, kept, count, err>>

\* Not if the card changed while it was asked.
StatStore ==
    /\ stat.at = "storing"
    /\ kept' = IF stat.moved THEN kept ELSE stat.size
    /\ stat' = Idle
    /\ UNCHANGED <<io, cache, ghosts, count, err>>

-----------------------------------------------------------------------------
Next ==
    \/ \E o \in Opens, k \in 0..WindowLen :
        \/ OpenFlush(o, k) \/ Close(o, k) \/ Timer(o, k) \/ ReadBegin(o, k)
        \/ \E n \in 1..WindowLen : WriteHeld(o, n, k) \/ WriteBegin(o, n, k)
        \/ WriteCard(o, k) \/ Sync(o, k) \/ SeekEnd(o, k)
        \/ \E len \in 0..(FileLen - 1) : TruncateBegin(o, len, k)
    \/ \E o \in Opens :
        \/ \E trunc \in BOOLEAN : OpenCard(o, trunc)
        \/ OpenRecord(o) \/ WriteReturn(o) \/ ReadEnd(o) \/ Evict(o) \/ TruncateCard(o)
        \/ \E to \in 0..FileLen : Seek(o, to)
    \/ StatBegin \/ StatCard \/ StatStore

Spec == Init /\ [][Next]_vars

-----------------------------------------------------------------------------
(* Properties *)

Values == 0..Max({b.w : b \in Budgets})

\* The variables have the values the code gives them.
TypeOK ==
    /\ card \in [Cells -> Values]
    /\ cardPos \in [Opens -> 0..FileLen] /\ arg \in [Opens -> 0..FileLen]
    /\ pc \in [Opens -> {"closed", "opening", "recording", "idle", "landing", "landed", "reading", "cutting"}]
    /\ wb \in [Opens -> [start : 0..FileLen, len : 0..WindowLen, from : 0..WindowLen, to : 0..WindowLen,
                         pos : 0..FileLen, data : [0..(WindowLen - 1) -> Values]]]
    /\ \A o \in Opens : wb[o].from <= wb[o].to /\ wb[o].to <= wb[o].len
    /\ shared \subseteq Opens /\ cacheable \subseteq Opens
    /\ \A o \in Opens : \A l \in lines[o] : l.start \in Cells /\ l.end \in 0..FileLen /\ l.data \in [Cells -> Values]
    /\ endAt \in [Opens -> 0..FileLen \cup {Unknown}]
    /\ kept \in 0..FileLen \cup {None}
    /\ stat \in [at : {"idle", "asking", "storing"}, size : 0..FileLen, moved : BOOLEAN]
    /\ out \in [Opens -> Values] /\ past \in [Opens -> [Cells -> SUBSET Values]]
    /\ \E b \in Budgets : \A x \in DOMAIN b : count[x] \in 0..b[x]
    /\ err \subseteq Opens /\ silent \in BOOLEAN

\* The device is a plain file to the programs that use it: what is held back,
\* kept or sent late shows neither in what a read returns nor in where a call
\* lands, once the windows are laid over the card.  Until the card refuses to
\* take bytes, that is.
File == INSTANCE PlainFile 
    WITH content <- Seen, pos <- [o \in Opens |-> Position(o)], writes <- count.w, broken <- count.f > 0

Implements == File!PSpec

\* Held writes belong to a file that is open once: there is one window at most,
\* and no other open has it to reckon with.
OneWindow == \A o \in Held : Held = {o} /\ (Overlap \/ Opened = {o})

\* The chunks that an open keeps are what the card holds, but for a call that
\* has not returned: nobody reads bytes that a finished write replaced.
ChunksFresh ==
    \A o \in cacheable : \A l \in lines[o] : \A c \in l.start..(l.end - 1) :
        l.data[c] \in {card[c]} \cup UNION {past[u][c] : u \in Opens}

\* As long as no file was cut, what stat keeps is the card's size, but for a
\* call that has not returned.  (ftruncate counts the generation up before the
\* card cuts the file, so that a stat in between keeps the old size.)
StatFresh ==
    kept # None /\ count.t = 0 => kept = Size(card) \/ \E u \in Opens : pc[u] \in {"landed", "recording"}

\* What is kept in front of the card agrees with it, and one open at most holds
\* writes back.
CachesFresh == TypeOK /\ OneWindow /\ ChunksFresh /\ StatFresh

\* Bytes reach the card in the order they were written: a cell never goes back
\* to an older write.
WrittenInOrder == [][\A c \in Cells : card'[c] = Eof \/ card'[c] >= card[c]]_vars

\* A program is told of bytes that could not be written, at the call that sent
\* them out.
LossTold == ~silent

\* A call that fails leaves the position where the program knows it to be.
FailureKeepsPosition ==
    [][\A o \in Opens : (o \in err' /\ count'.f > count.f) => Position(o)' = Position(o)]_vars
=============================================================================
