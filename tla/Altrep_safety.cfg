SPECIFICATION Spec
CONSTANTS
  c1 = c1
  c2 = c2
  f1 = f1
  f2 = f2
  Conn = {c1, c2}
  Frame = {f1, f2}
  Home <- HomeApart
  NCols = 2
  Habits = {}
  MaxRuns = 2
  MaxDepth = 5
  NoConn = NoConn
  NoFrame = NoFrame
INVARIANT TypeOK
INVARIANT HeldWhileNeeded
INVARIANT ScansWhole
INVARIANT HandlerScoped
INVARIANT DepthScoped
INVARIANT NoSelfWait
INVARIANT RunsOnce
PROPERTY InterruptReported
PROPERTY ImplementsLazyFrame
