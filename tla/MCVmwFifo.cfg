SPECIFICATION LiveSpec
CONSTANTS
  t1 = t1  t2 = t2
  Threads = {t1, t2}
  NoOne = NoOne
  Min = 3
  Max = 8
  Sizes = {2, 4}
  StaticSize = 3
CHECK_DEADLOCK FALSE
PROPERTIES
  RingIsQueue
  ReserveReturns
