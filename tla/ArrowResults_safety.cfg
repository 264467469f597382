SPECIFICATION Spec
CONSTANTS
  c1 = c1
  c2 = c2
  r1 = r1
  r2 = r2
  Ctx = {c1, c2}
  Res = {r1, r2}
  Home <- HomeShared
  MaxRows = 1
  MaxBatch = 2
  MaxDepth = 2
  Closable = {c1}
  PoolStreams = {r2}
  Reentrant = FALSE
  NoCtx = NoCtx
  NoRes = NoRes
INVARIANT TypeOK
INVARIANT TrackedIsLive
INVARIANT OpenIsKnown
INVARIANT NoTruncatedEnd
INVARIANT NoSelfWait
INVARIANT IInv
PROPERTY VerdictIsFinal
PROPERTY ImplementsDelivery
CHECK_DEADLOCK FALSE
