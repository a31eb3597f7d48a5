----------------------------- MODULE SeqFilter -----------------------------
(* The filter of a sequence, by a set rather than a predicate and by a      *)
(* recursive function, so that facts about it can be proved.                *)
EXTENDS Integers, Sequences

\* The elements of s that are in S, in their order.
Keep(s, S) ==
    LET kept[n \in 0..Len(s)] ==
            IF n = 0 THEN <<>>
            ELSE IF s[n] \in S THEN Append(kept[n - 1], s[n]) ELSE kept[n - 1]
    IN  kept[Len(s)]

============================================================================
