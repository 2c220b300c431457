CONSTANTS
  Dirs = {d0}
  Home = d0
  Names = {f1}
  MaxXfer = 2
  StartDir = "none"
  Env = {"reject", "abort", "nopasv", "noport", "noconn", "nosock", "timeout", "split", "drop", "predial"}
  Pace = "eager"
  RecvMax = 2
  MaxQueue = 2
  Chunks = 1
SPECIFICATION Spec
INVARIANTS
  LoginFirst
  AssertBusy
  CurXferLive
CHECK_DEADLOCK FALSE
