SPECIFICATION Spec
CONSTANTS
    Releases = {"r1", "r2"}
    Budgets <- BudgetsDef
INVARIANTS AllOrNothing OriginalKept ToldTruly
PROPERTIES UserKept
