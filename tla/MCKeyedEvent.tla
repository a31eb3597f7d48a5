---------------------------- MODULE MCKeyedEvent ----------------------------
EXTENDS KeyedEvent, TLC
CONSTANTS t1, t2, t3

\* One thread polls, one gives up after a while, one waits for as long as it takes.
PatienceDef == (t1 :> {"zero"}) @@ (t2 :> {"finite"}) @@ (t3 :> {"infinite"})
=============================================================================
