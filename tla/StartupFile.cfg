SPECIFICATION Spec
CHECK_DEADLOCK FALSE
CONSTANTS
  MaxVal = 3
  MaxEdits = 1
  Trees <- MCTrees
  Slips <- MCSlips
  Argvs <- MCArgvs
INVARIANTS
  RoundTrip
  OwnPassword
  AsWritten
