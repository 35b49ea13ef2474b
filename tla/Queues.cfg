CONSTANTS
  Tasks = {t1, t2, t3, t4}
  None = None
  Callers = {t1, t2, t3, t4}
  Nobody = None
  MaxRepeat = 2
  Sectors <- MCSectors
SPECIFICATION System
INVARIANT MutualExclusion
INVARIANT NoLostWakeup
PROPERTY HandedOn
INVARIANT OneHasDrive
PROPERTY ElevatorOrder
PROPERTY Served
PROPERTY ImplementsBlockDevice
