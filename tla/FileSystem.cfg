SPECIFICATION Spec
CONSTANTS
  Devs = {1, 2, 3}
  LastNr <- MCLastNr
  InodeNr = 9
  SuperNr = 3
  Tasks = {t1, t2}
  First = t1
  Paths <- MCPaths
  NewPaths <- MCNewPaths
  Wants <- MCWants
  FileNr = 3
  Scopes <- MCScopes
  Misuse = {}
  Inodes = {1, 2}
  Width = 2
  Direct = 1
  BlockBits = 14
  Maps = 1
  FirstData = 3
  Zones = 14
  Lengths = {3}
  MaxSize = 7
  Users = {u1, u2, u3}
  Nrs = {1, 2}
  Places = {i1, i2, i3}
  NoPlace = none
INVARIANT CountsExact
INVARIANT LinksExact
INVARIANT MountsConsistent
INVARIANT CwdNamed
INVARIANT OnlyFullStops
INVARIANT FilesIndependent
INVARIANT BlocksOwnedOnce
INVARIANT OneSlotPerInode
CHECK_DEADLOCK FALSE
