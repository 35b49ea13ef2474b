CONSTANTS
  t1 = t1
  t2 = t2
  t3 = t3
  Tasks = {t1, t2, t3}
  N = 2
  Blocks = {1, 2, 3}
  Uses <- MCUses
  Values = {0, 1}
  MaxHeld = 1
  None = None
SPECIFICATION Spec
INVARIANT WakeupPerBuffer
INVARIANT OneBufferPerBlock
INVARIANT SeesLatest
