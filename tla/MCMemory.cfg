\* Memory: two buffers of two pages, two zones, one privileged client.
\* Backing: a buffer of three pages and one of one, one id, and pages for all but one.
\* Ranges: three buffers in a range of five pages.
\* Mappings: two buffers of two pages, two mappings, two pages of memory.
SPECIFICATION Spec
CONSTANTS
  Idle = Idle
  Tbufs = {o1, o2}
  TtmPages = 2
  Clients = {c1, c2}
  Admin = {c2}
  MaxMem = 1
  EmerMem = 2
  SwapLimit = 1
  Retries = 1
  Nobody = Nobody
  Backed = {q1, q2}
  PagesOf <- PagesOfDef
  Addresses <- AddressesDef
  GmrIds = {0}
  PageLimits = {3}
  MapModes = {"map_populate"}
  PerRemap = 2
  PerDescPage = 2
  PerPtPage = 2
  BackFaults = {"nomem", "lockup"}
  Nil = Nil
  MmSize = 5
  MmUsers = {o1, o2, o3}
  MmRequests <- MmRequestsDef
  UnusedTarget = 3
  MmFaults = {"kernel", "atomic"}
  Vbufs = {o1, o2}
  Vmas = {o1, o2}
  BufPages = 2
  Addrs = {0, 2}
  MapFrom = {0}
  Slots = {0}
  PhysPages = 2
  Prefault = 2
  NoOne = NoOne
SYMMETRY Sym
INVARIANTS MemAccounted   
