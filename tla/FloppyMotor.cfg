SPECIFICATION Spec
CONSTANTS
  Parts = {"floppy"}
  IdeTasks = {1, 2}
  SectorNr = 2
  IdeScenes = {{"read"}}
  FdTasks = {1, 2}
  Cylinder = 2
  Tracks = 3
  Requests <- Sectors
  Bufs = {1, 2, 3, 4, 5}
  Near = {1}
  Gateway = 1
  Far = {2}
  RxNr = 2
  TxNr = 1
  Life = 1
  Delay = 1
  Retry = 1
  Traffic = {{"ping"}}
  Lossy = {}
CHECK_DEADLOCK FALSE
INVARIANT MotorRuns
