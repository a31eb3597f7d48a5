----------------------------- MODULE MCSdCache -----------------------------
EXTENDS SdCache
CONSTANTS o1, o2

\* Only writes, or a truncation between them, a request the card refuses and a stat,
\* or a truncation and a stat.
BudgetsDef == {[w |-> 3, t |-> 0, f |-> 0, s |-> 0], [w |-> 2, t |-> 1, f |-> 0, s |-> 0],
               [w |-> 2, t |-> 0, f |-> 1, s |-> 1], [w |-> 1, t |-> 1, f |-> 0, s |-> 1]}
=============================================================================
