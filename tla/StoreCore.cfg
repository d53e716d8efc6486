\* Two processes, whole writes, crashes anywhere.
SPECIFICATION Spec
CONSTANTS
  Proc = {p1, p2}
  Id = {r1, r2}
  MaxInode = 3
  MaxLines = 2
  FaultyOps = {}
INVARIANTS StoreKeepsItsPromises WritersOwnThePath
PROPERTY ImplementsRecordStore
CHECK_DEADLOCK FALSE
