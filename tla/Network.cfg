SPECIFICATION Spec
CONSTANTS
  Parts = {"net"}
  IdeTasks = {1, 2}
  SectorNr = 2
  IdeScenes = {{"read"}}
  FdTasks = {1, 2}
  Cylinder = 2
  Tracks = 3
  Requests <- Sectors
  Bufs = {1, 2, 3, 4, 5}
  Near = {1}
  Gateway = 1
  Far = {2}
  RxNr = 2
  TxNr = 2
  Life = 1
  Delay = 1
  Retry = 1
  Traffic = {{"reply", "ping"}, {"reply", "echo"}, {"request", "other", "reply", "far"}, {"ping", "far"}}
  Lossy = {}
CHECK_DEADLOCK FALSE
INVARIANT PbufsOwned
PROPERTY PacketsLeave
