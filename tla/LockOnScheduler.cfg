CONSTANTS
  Slots = 4
  Priority <- MCPriority
  UserTasks = {1, 2, 3}
  Delays = {}
  None = None
SPECIFICATION FairLockSpec
PROPERTY ImplementsLock
PROPERTY StarvedFromBehind
