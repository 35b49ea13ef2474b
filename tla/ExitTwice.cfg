SPECIFICATION System
CONSTANTS
  Parts = {"tasks"}
  Pcbs = {t1, t2, t3}
  Started = {t1, t2}
  Mortal = {t2}
  Values = {0}
  None = None
  Dead = Dead
  TaskNr = 4
  Signals = {1, 9, 14, 17}
  Handled = {9, 14}
  MaxFrames = 1
  Calls <- MCCalls
  Files = 3
  Careless = {}
  Procs = {1, 2}
  Dirs = {0}
  PerTable = 4
  MmapAddr = 2
  StackAddr = 3
  Program <- MCProgram
  Plans = {{1, 2}, {0, 3}}
  Reckless = {}
  KPages = {1, 2, 3, 4}
  TotalBlock <- MCTotalBlock
  BufCount = 1
  Large = {2}
INVARIANT ExitsOnce
CHECK_DEADLOCK FALSE
