SPECIFICATION System
CONSTANTS
  Parts <- AllParts
  Pcbs = {t1, t2, t3}
  Started = {t1, t2}
  Mortal = {t2}
  Values = {0}
  None = None
  Dead = Dead
  TaskNr = 4
  Signals = {1, 9, 14, 17}
  Handled = {9, 14}
  MaxFrames = 1
  Calls <- MCCalls
  Files = 3
  Careless = {}
  Procs = {1, 2}
  Dirs = {0}
  PerTable = 4
  MmapAddr = 2
  StackAddr = 3
  Program <- MCProgram
  Plans = {{1, 2}, {0, 3}}
  Reckless = {}
  KPages = {1, 2, 3, 4}
  TotalBlock <- MCTotalBlock
  BufCount = 1
  Large = {2}
 
INVARIANT ParentsLive
INVARIANT WaitsForAReason
INVARIANT StopsKnown
INVARIANT AlarmsOwned
INVARIANT FramesCounted
INVARIANT MemoryPrivate
INVARIANT HeapSound
CHECK_DEADLOCK FALSE
