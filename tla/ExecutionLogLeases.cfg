SPECIFICATION Spec
CONSTANTS
  Goals = {g}
  Gates = {k}
  Scopes = {goal, s}
  GoalScope = goal
  LeaseScopes = {goal, s}
  Holders = {a, b}
  Moments = {0, 1}
  Ttls = {1}
  Verdicts = {"pass"}
  Targets = {}
  Forgotten = {}
  MaxSeq = 5
  MaxGates = 1
  MaxLeases = 1
  NoScope = NoScope
  Nobody = Nobody
CHECK_DEADLOCK FALSE
INVARIANTS
  TypeOK
  
  FencesIncrease
  SupersededTokensNeverWrite
  LeasesAreHonoured
  
