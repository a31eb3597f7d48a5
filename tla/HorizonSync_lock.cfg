SPECIFICATION Spec
CONSTANTS
    t1 = t1  t2 = t2  t3 = t3  e = e  m = m  s = s  c = c  None = None
    Threads = {t1, t2, t3}
    Events = {e}
    Mutexes = {m}
    Semaphores = {}
    Timers = {c}
    Manual = {}
    Gated = {}
    SemInit = 1
    SemMax = 1
    Requests <- LockRequests
    Closable = {e}
    AsyncOwners = {}
    MaxSuspend = 1
    MaxApc = 0
    MaxDepth = 1
INVARIANTS NoLostWakeup MutexOwnership LeavesNothing
PROPERTIES NoOvertaking
SYMMETRY Symmetry
CHECK_DEADLOCK FALSE
