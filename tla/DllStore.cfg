SPECIFICATION LiveSpec
CONSTANTS
    w1 = w1
    w2 = w2
    Workers = {w1, w2}
    Count = 3
    Unsupported = {3}
    MaxVersion = 2
    Budgets <- BudgetsDef
INVARIANTS ToldTruly
PROPERTIES StaleLast ApplyEnds
CHECK_DEADLOCK FALSE
