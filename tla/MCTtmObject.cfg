SPECIFICATION Spec
CONSTANTS
  f1 = f1  f2 = f2  o1 = o1
  t1 = t1  t2 = t2
  Files = {f1, f2}
  Objs = {o1}
  Threads = {t1, t2}
  Refs = {1, 2}
  Dmabufs = {1, 2}
  MaxFds = 1
  MaxDup = 2
  Disciplined = TRUE
  NULL = NULL
SYMMETRY Alike
CHECK_DEADLOCK FALSE
INVARIANTS
  RefcountIsHolders
  ReleasedForGood
  WritersAreGrabs
  DmabufIsKnown
  FilesOutliveObjects
