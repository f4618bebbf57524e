SPECIFICATION FairSpec
CONSTANTS
  t1 = t1  t2 = t2  p = p
  f1 = f1  f2 = f2
  a1 = a1  a2 = a2
  Threads = {t1, p}
  Fences = {f1}
  Actions = {a1}
  Isr = Isr
  Worker = Worker
  NoOne = NoOne
  Wrap = 16
  FirstSeqno = 14
  MaxSeqnos = 1
  Unserialized = {}
  MayWait = {t1}
  PowerThread = p
CHECK_DEADLOCK FALSE
INVARIANTS
  SignaledHasPassed
PROPERTIES
  WorkCleansUp
