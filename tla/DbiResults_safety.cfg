SPECIFICATION FairSpec
CONSTANTS
  r1 = r1
  r2 = r2
  Result <- MCResult
  Kind <- MCKind
  MaxBound = 2
  MaxRows = 2
  None = None
INVARIANT TypeOK
INVARIANT AnswerAccounted
INVARIANT CompletedTellsAll
INVARIANT BindsKeepTheirRows
PROPERTY ReadsToTheEnd
CHECK_DEADLOCK FALSE
