\* Appends on a disk that fills up, fair scheduling.
SPECIFICATION FairSpec
CONSTANTS
  Proc = {p1, p2}
  Id = {r1, r2}
  MaxInode = 3
  MaxLines = 1
  FaultyOps = {"append"}
INVARIANT LossBoundedByTears
PROPERTY CallsEnd
CHECK_DEADLOCK FALSE
