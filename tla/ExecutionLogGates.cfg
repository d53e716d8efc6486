SPECIFICATION Spec
CONSTANTS
  Goals = {g}
  Gates = {k}
  Scopes = {goal}
  GoalScope = goal
  LeaseScopes = {}
  Holders = {}
  Moments = {0}
  Ttls = {1}
  Verdicts = {"pass", "fail"}
  Targets = {"pending", "passed", "failed", "waived"}
  Forgotten = {g}
  MaxSeq = 6
  MaxGates = 1
  MaxLeases = 1
  NoScope = NoScope
  Nobody = Nobody
CHECK_DEADLOCK FALSE
INVARIANTS
  
  EvidenceIsFresh
  SatisfiedWasEarned
