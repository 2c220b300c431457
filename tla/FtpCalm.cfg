CONSTANTS
  Dirs = {d0, d1}
  Home = d0
  Names = {f1, f2}
  MaxXfer = 2
  StartDir = d1
  Env = {}
  Pace = "calm"
  RecvMax = 2
  MaxQueue = 1
  Chunks = 2
SPECIFICATION FairSpec
INVARIANTS
  TypeOK
  NoUseAfterFree
  FaithfulCopy
  PanelMatches
PROPERTIES
  Settles
  Completes
  Fetches
CHECK_DEADLOCK FALSE
