CONSTANTS
  Slots = 3
  Priority <- MCPriority
  UserTasks = {1, 2}
  Delays = {0, 2}
SPECIFICATION FairSpec
INVARIANT TimeoutOwned
PROPERTY TimedWaitEnds
