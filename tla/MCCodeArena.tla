---------------------------- MODULE MCCodeArena ----------------------------
(***************************************************************************)
(* Instances of CodeArena for TLC.                                         *)
(***************************************************************************)
EXTENDS CodeArena, TLC

CONSTANTS b1, b2, b3, t1, t2

\* Blocks are alike, and so are threads.
Alike == Permutations(Blocks) \cup Permutations(Threads)

\* A thread asks for room; there is no memory for the quarantine at times, in
\* an arena that is created late; the code memory is limited; a block is
\* handed over twice.
Case(there, limit, lacks, asks, twice) ==
    [created |-> there, limited |-> limit, poor |-> lacks, asked |-> asks, again |-> twice]
CasesDef == {Case(TRUE, FALSE, FALSE, TRUE, 0), Case(FALSE, FALSE, TRUE, FALSE, 0),
             Case(TRUE, TRUE, FALSE, FALSE, 0), Case(TRUE, FALSE, FALSE, FALSE, 1)}
============================================================================
