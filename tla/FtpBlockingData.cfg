CONSTANTS
  Dirs = {d0}
  Home = d0
  Names = {f1}
  MaxXfer = 0
  StartDir = "none"
  Env = {}
  Pace = "calm"
  RecvMax = 2
  MaxQueue = 1
  Chunks = 2
SPECIFICATION Spec
INVARIANTS
  DataLoopReady
CHECK_DEADLOCK FALSE
