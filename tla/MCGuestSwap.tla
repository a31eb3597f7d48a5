---------------------------- MODULE MCGuestSwap ----------------------------
EXTENDS GuestSwap, TLC
CONSTANTS t1, t2, b1, b2, m1, m2, m3

\* b1 is mapped in two parts and takes two units, b2 in one and takes one.
BackingOfDef == (m1 :> b1) @@ (m2 :> b1) @@ (m3 :> b2)
SizeDef == (b1 :> 2) @@ (b2 :> 1)

\* A kernel call or transfer fails, or the program changes mappings and
\* protections.
BudgetsDef == {[f |-> 1, c |-> 0, w |-> 1], [f |-> 0, c |-> 2, w |-> 0]}
=============================================================================
