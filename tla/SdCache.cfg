SPECIFICATION Spec
CONSTANTS o1 = o1  o2 = o2  None = None
  Opens = {o1, o2}  Appends = {o2}  FileLen = 2  WindowLen = 2  Direct = 2  Chunk = 2
  Budgets <- BudgetsDef  Overlap = FALSE
INVARIANTS CachesFresh
PROPERTIES WrittenInOrder Implements
CHECK_DEADLOCK FALSE
