SPECIFICATION Spec
CHECK_DEADLOCK FALSE
CONSTANTS
  Listings <- MCListings
  FileSizes = {0, 1, 2, 5}
  Known = {0, 2, 5, 7}
  PacketMax = 3
  BufInit = 4
  SizeAt = 4
  Fields = 8
INVARIANTS
  TypeOK
  ListsAll
  ViewInside
  ViewWhole
