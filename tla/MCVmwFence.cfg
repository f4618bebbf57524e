SPECIFICATION Spec
CONSTANTS
  t1 = t1  t2 = t2  p = p
  f1 = f1  f2 = f2
  a1 = a1  a2 = a2
  Threads = {t1, t2}
  Fences = {f1, f2}
  Actions = {a1, a2}
  Isr = Isr
  Worker = Worker
  NoOne = NoOne
  Wrap = 16
  FirstSeqno = 14
  MaxSeqnos = 2
  Unserialized = {}
  MayWait = {}
  PowerThread = NoOne
CHECK_DEADLOCK FALSE
SYMMETRY Symmetry
INVARIANTS
  RefsAreHolders
  GoalWatchesAction
  
PROPERTIES
  EventsSentProperly
  
