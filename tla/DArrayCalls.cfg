SPECIFICATION Spec
CHECK_DEADLOCK FALSE
CONSTANTS
  Item = {0, 1}
  Junk = Junk
  MaxElem = 5
INVARIANTS
  TypeOK
  Reclaims
PROPERTIES
  IsSequence
