SPECIFICATION LiveSpec
CONSTANTS t1 = t1  t2 = t2  s1 = s1  s2 = s2  o1 = o1  o2 = o2  p1 = p1
  None = None  Abandoned = Abandoned
  Threads = {t1, t2}  Socks = {s1, s2}  Starts <- StartsDef
  Ops = {o1, o2}  Listeners = {s2}  Ported = {o1}  Callers = {t1}
  Skip = TRUE  Posts = {p1}  Servers = {t2}  MaxArrivals = 2  MaxPolled = 1  MaxCancels = 1
INVARIANTS DeliveredOnce NobodySleepsOn BytesInOrder
PROPERTIES EverythingEnds
CHECK_DEADLOCK FALSE
