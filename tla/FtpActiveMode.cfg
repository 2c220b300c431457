CONSTANTS
  Dirs = {d0}
  Home = d0
  Names = {f1}
  MaxXfer = 0
  StartDir = "none"
  Env = {"nopasv"}
  Pace = "calm"
  RecvMax = 1
  MaxQueue = 1
  Chunks = 1
SPECIFICATION Spec
INVARIANTS
  ActiveLists
CHECK_DEADLOCK FALSE
