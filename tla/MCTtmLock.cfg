SPECIFICATION FairSpec
CONSTANTS
  r1 = r1
  w1 = w1
  w2 = w2
  v1 = v1
  s1 = s1
  Readers <- MCReaders
  Writers <- MCWriters
  Vters <- MCVters
  Suspenders <- MCSuspenders
INVARIANTS
  MutualExclusion
  PendingHasWaiter
  NoLostWakeup
PROPERTIES
  NoReaderOvertakes
  SuspendGranted
