SPECIFICATION FairSpec
CONSTANTS
    t1 = t1  t2 = t2  t3 = t3  e = e  m = m  s = s  c = c  None = None
    Threads = {t1, t2}
    Events = {}
    Mutexes = {m}
    Semaphores = {s}
    Timers = {}
    Manual = {}
    Gated = {t2}
    SemInit = 1
    SemMax = 1
    Requests <- CallRequests
    Closable = {s}
    AsyncOwners = {t1}
    MaxSuspend = 1
    MaxApc = 1
    MaxDepth = 1
INVARIANTS SignalsConserved
PROPERTIES SuspendedStaysInside WaitsEnd
CHECK_DEADLOCK FALSE
