CONSTANTS
  n1 = n1
  f1 = f1
  f2 = f2
  t1 = t1
  WriteView = WriteView
  NoFrame = NoFrame
  Name <- MCName
  Frame <- MCFrame
  Table <- MCTable
  MaxFills = 1
  DefaultPolicy = "strict"
  Interrupts = FALSE
SPECIFICATION Spec
SYMMETRY Symmetry
INVARIANT ViewIsLiveAlways
