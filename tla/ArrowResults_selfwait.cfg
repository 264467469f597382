SPECIFICATION Spec
CONSTANTS
  c1 = c1
  c2 = c2
  r1 = r1
  r2 = r2
  Ctx = {c1, c2}
  Res = {r1, r2}
  Home <- HomeShared
  MaxRows = 1
  MaxBatch = 2
  MaxDepth = 2
  Closable = {c1, c2}
  PoolStreams = {}
  Reentrant = TRUE
  NoCtx = NoCtx
  NoRes = NoRes
INVARIANT NoSelfWait
CHECK_DEADLOCK FALSE
