SPECIFICATION LiveSpec
CONSTANTS None = None
  Threads = {t1, t2}  Msgs = {m1, m2, m3}  MaxDepth = 3  Kinds = {"sync", "notify", "callback"}
  Deadlines = {TRUE, FALSE}  MayEnd = {t1}
INVARIANTS RecordsKept AnswersReach
PROPERTIES EveryoneHears
CHECK_DEADLOCK FALSE
