CONSTANTS
  c1 = c1  s1 = s1  s2 = s2  h1 = h1  h2 = h2  u1 = u1  q1 = q1 t1 = t1  t2 = t2
  None = None
  Ctx = {c1}
  Srf = {s1, s2}
  Shd = {h1, h2}
  UserBo = {u1}
  QueryBo = {q1}
  Threads = {t1, t2}
  Submitter = t1
  Scenarios <- MCShaders
  NumIds = 1
  MaxCmds = 2
  FifoFails = {"create", "bind", "emit"}
  Readd = TRUE
SPECIFICATION Spec
CHECK_DEADLOCK FALSE
PROPERTY RevertRestores
