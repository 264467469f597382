SPECIFICATION Spec
CONSTANTS
  c1 = c1
  c2 = c2
  r1 = r1
  r2 = r2
  Ctx = {c1}
  Res = {r2}
  Home <- HomeAlone
  MaxRows = 2
  MaxBatch = 2
  MaxDepth = 1
  Closable = {c1}
  PoolStreams = {}
  Reentrant = FALSE
  NoCtx = NoCtx
  NoRes = NoRes
INVARIANT NoEndPastFailure
CHECK_DEADLOCK FALSE
