SPECIFICATION FairSpec
CONSTANTS
  c1 = c1
  c2 = c2
  r1 = r1
  r2 = r2
  Ctx = {c1, c2}
  Res = {r2}
  Home <- HomeAlone
  MaxRows = 0
  MaxBatch = 1
  MaxDepth = 2
  Closable = {c1, c2}
  PoolStreams = {r2}
  Reentrant = FALSE
  NoCtx = NoCtx
  NoRes = NoRes
PROPERTY ReleaseCompletes
PROPERTY StatementIsAnswered
CHECK_DEADLOCK FALSE
