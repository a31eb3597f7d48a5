SPECIFICATION FairSpec
CONSTANTS
  t1 = t1  t2 = t2  t3 = t3
  Threads = {t1, t2, t3}  Keys = {k1, k2}  Patience <- PatienceDef  None = None
INVARIANTS Rendezvous
PROPERTIES FirstComeFirstPaired Returns
