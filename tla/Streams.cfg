SPECIFICATION System
CONSTANTS
  Length = 4
  Readers = {r1}
  Writers = {w1}
  MaxCount = 5
  Total = 12
  None = None
  LineTasks = {1, 2}
  MaxRead = 2
  Numbers = 5
  Width = 2
  Height = 2
  MemLines = 4
  TabStop = 2
  ArgNr = 2
  ArgMax = 2
  Glyphs = {"a"}
  Blank = " "
  Finals = {"G", "A", "B", "C", "D", "E", "F", "d", "H", "J", "K", "L", "M", "P", "@", "s", "u", "m"}
CHECK_DEADLOCK FALSE
INVARIANT SleepsForAReason
INVARIANT SleepsForKeys
PROPERTY ImplementsChannel
PROPERTY Delivered
PROPERTY ImplementsScreen
