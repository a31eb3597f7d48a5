SPECIFICATION Spec
CONSTANTS
    b1 = b1
    b2 = b2
    b3 = b3
    t1 = t1
    t2 = t2
    Size = 7
    Wants = {1, 2, 3}
    Room = 2
    Walk = 1
    Blocks = {b1, b2, b3}
    Threads = {t1, t2}
    Cases <- CasesDef
INVARIANTS ChunksKept  FullTrue
SYMMETRY Alike
CHECK_DEADLOCK FALSE
