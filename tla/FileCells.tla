------------------------------ MODULE FileCells ------------------------------
(***************************************************************************)
(* A file as a function from cells to the number of the write that put     *)
(* there what the cell holds.                                              *)
(***************************************************************************)
EXTENDS Naturals, FiniteSets

CONSTANT FileLen   \* the cells a file can have

Cells == 0..(FileLen - 1)
Eof == 0
Nothing == [c \in Cells |-> {}]

\* A file of "len" cells that holds the first of "f".
Cut(f, len) == [c \in Cells |-> IF c < len THEN f[c] ELSE Eof]
\* "f" with write number w in the n cells from "at" on.
Put(f, at, n, w) == [c \in Cells |-> IF c \in at..(at + n - 1) THEN w ELSE f[c]]
\* What "new" replaces of "f".
Replaced(f, new) == [c \in Cells |-> IF f[c] = new[c] THEN {} ELSE {f[c]}]

\* The cells up to the last one written.
Size(f) == Cardinality({c \in Cells : \E d \in c..(FileLen - 1) : f[d] # Eof})
=============================================================================
