SPECIFICATION MCSpec
CONSTANTS
  x = x  y = y
  v1 = v1  v2 = v2  c1 = c1
  Buffers = {x, y}
  Validators = {v1, v2}
  Lists <- MCLists
  CpuUsers = {c1}
  s1 = s1  Swappers = {s1}
  Worker = Worker
  o1 = o1  Owners = {o1}
  NoOne = NoOne
  Ids = {1, 2}
  Wrap = 8
  MaxSeq = 3
SYMMETRY Alike
CHECK_DEADLOCK FALSE
INVARIANTS
  ListKrefCounts
  FreedIsQuiet
  ReservationHeld
PROPERTIES
  MemoryIsIdle
  NoCpuWriterOfFenced
