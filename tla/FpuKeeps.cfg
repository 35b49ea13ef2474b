CONSTANTS
  Pcbs = {t1, t2}
  Started = {t1, t2}
  Mortal = {}
  Values = {0, 1}
  None = None
  Dead = Dead
SPECIFICATION Spec
INVARIANTS KeepsEnvironment
