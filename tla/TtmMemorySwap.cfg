\* Two buffers of two pages, two zones, one privileged client.
SPECIFICATION MemSpec
CONSTANTS
  Tbufs = {b1, b2}
  TtmPages = 2
  Clients = {c1, c2}
  Admin = {c2}
  MaxMem = 1
  EmerMem = 2
  SwapLimit = 1
  Retries = 1
  Nobody = Nobody
INVARIANT SwappedOnce
