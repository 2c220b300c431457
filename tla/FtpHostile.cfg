CONSTANTS
  Dirs = {d0}
  Home = d0
  Names = {f1}
  MaxXfer = 1
  StartDir = "none"
  Env = {"earlykeys", "multiline", "badlogin", "idle421", "crossed", "dataclose", "nopasv", "noport", "nosock"}
  Pace = "eager"
  RecvMax = 2
  MaxQueue = 2
  Chunks = 1
SPECIFICATION Spec
INVARIANTS
  HandlersAgree
  WaitShallow
PROPERTIES
  NotReentered
CHECK_DEADLOCK FALSE
