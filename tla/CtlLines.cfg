SPECIFICATION FairSpec
CHECK_DEADLOCK FALSE
CONSTANTS
  BufSize = 4
  Lens = {2, 3, 5}
  MaxLines = 3
INVARIANTS
  TypeOK
  RoomLeft
PROPERTIES
  DeliversLines
  EveryLine
