------------------------------ MODULE PlainFile ------------------------------
(***************************************************************************)
(* What the SD card's device promises the programs that use it: one file,  *)
(* open several times, each open with a position of its own.  It is the    *)
(* file of a system that keeps nothing back; SdCache implements it.        *)
(*                                                                         *)
(* A write that is longer than one request takes effect at some moment     *)
(* before it returns (PWrite), and until then (PReturn) a reader may       *)
(* still be given what it replaced.  So may a truncation.  A write is      *)
(* numbered as it takes effect, so a cell's number says which is newer.    *)
(***************************************************************************)
EXTENDS FileCells

CONSTANTS Opens, Appends

VARIABLES
    content,   \* the number of the write a cell holds, or Eof past the end
    past,      \* past[o]: what an unfinished call of o replaced
    pos,       \* pos[o]: the position of open o
    out,       \* out[o]: what o read last
    writes,    \* writes that have taken effect
    broken     \* has the card refused bytes?

pvars == <<content, past, pos, out, writes, broken>>

Visible(c) == {content[c]} \cup UNION {past[o][c] : o \in Opens}

PInit ==
    /\ broken = FALSE
    /\ content = [c \in Cells |-> Eof] /\ writes = 0
    /\ past = [o \in Opens |-> Nothing]
    /\ pos = [o \in Opens |-> 0]
    /\ out = [o \in Opens |-> Eof]

\* A write of n cells at the position, or at the end with O_APPEND, takes effect; it returns now or later.
PWrite(o, n, at) ==
    /\ at + n <= FileLen
    /\ writes' = writes + 1
    /\ content' = Put(content, at, n, writes + 1)
    /\ pos' = [pos EXCEPT ![o] = at + n]
    /\ \/ past' = past
       \/ past' = [past EXCEPT ![o] = Replaced(content, content')]
    /\ UNCHANGED out

\* A call that takes long returns: from now on everyone sees what it did.
PReturn(o) == past' = [past EXCEPT ![o] = Nothing] /\ UNCHANGED <<content, pos, out, writes>>

\* A read of the cell at the position, which it moves on unless the file ends.
PRead(o) ==
    /\ pos[o] \in Cells
    /\ \E v \in Visible(pos[o]) :
        /\ out' = [out EXCEPT ![o] = v]
        /\ pos' = [pos EXCEPT ![o] = IF v = Eof THEN @ ELSE @ + 1]
    /\ UNCHANGED <<content, past, writes>>

PSeek(o, to) == pos' = [pos EXCEPT ![o] = to] /\ UNCHANGED <<content, past, out, writes>>

\* ftruncate, or an open that empties the file.
PTruncate(o, len) ==
    /\ content' = Cut(content, len)
    /\ \/ past' = past
       \/ past' = [past EXCEPT ![o] = Replaced(content, content')]
    /\ pos' \in {pos, [pos EXCEPT ![o] = 0]}
    /\ UNCHANGED <<out, writes>>

PCall ==
    \E o \in Opens :
        \/ \E n \in 1..FileLen, at \in Cells :
              at = (IF o \in Appends THEN Size(content) ELSE pos[o]) /\ PWrite(o, n, at)
        \/ PReturn(o) \/ PRead(o)
        \/ \E to \in 0..FileLen : PSeek(o, to) \/ PTruncate(o, to)

\* Once it has, nothing is promised of this file any more.
PNext == broken' \/ (PCall /\ ~broken')

PSpec == PInit /\ [][PNext]_pvars
=============================================================================
