----------------------------- MODULE MCDllStore -----------------------------
(***************************************************************************)
(* Instances of DllStore for TLC.                                          *)
(***************************************************************************)
EXTENDS DllStore

CONSTANTS w1, w2

\* Two updates with a failure of the card and a power loss, or three with one of
\* them, while the repository publishes new versions; or updates whose
\* downloads fail or whose power is lost, while it also goes back to old ones.
Budget(updates, published, reverted, lost, card_fails, crashes) ==
    [c \in Counters |-> CASE c = "updates" -> updates [] c = "published" -> published
                           [] c = "reverted" -> reverted [] c = "lost" -> lost
                           [] c = "card" -> card_fails [] c = "crashes" -> crashes]
BudgetsDef == {Budget(2, 1, 0, 0, 1, 1), Budget(3, 2, 0, 0, 0, 1), Budget(3, 2, 0, 0, 1, 0),
               Budget(2, 2, 1, 1, 0, 0), Budget(2, 2, 1, 0, 0, 1)}
=============================================================================
