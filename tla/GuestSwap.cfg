SPECIFICATION LiveSpec
CONSTANTS
    t1 = t1  t2 = t2  b1 = b1  b2 = b2  m1 = m1  m2 = m2  m3 = m3  None = None
    Threads = {t1, t2}  Callers = {t1}  Backings = {b1, b2}  Mappings = {m1, m2, m3}
    BackingOf <- BackingOfDef  Size <- SizeDef  Units = 3  Frames = 2
    Failing = {"unmap", "map", "permit", "save", "load"}  Budgets <- BudgetsDef
    Pinnable = {{b1}}  Excludable = {b2}
INVARIANTS BytesFound MappingsTrue
PROPERTIES FaultEnds
