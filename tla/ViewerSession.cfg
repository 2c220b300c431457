SPECIFICATION Spec
CHECK_DEADLOCK FALSE
CONSTANTS
  Files <- MCFiles
  NumVis = 3
  NumCol = 3
  Tab = 2
  MaxOpens = 2
  MaxH = 2
INVARIANTS
  TypeOK
  OwnerFrees
  TopLineExists
  LinesAreRuns
PROPERTIES
  EndsInside
  ViewShown
