CONSTANTS
  Dirs = {d0}
  Home = d0
  Names = {f1, f2, f3}
  MaxXfer = 3
  StartDir = "none"
  Env = {}
  Pace = "calm"
  RecvMax = 2
  MaxQueue = 2
  Chunks = 1
SPECIFICATION Spec
INVARIANTS
  FaithfulCopy
CHECK_DEADLOCK FALSE
