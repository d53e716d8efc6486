SPECIFICATION DSpec
CONSTANTS
  Goals = {g}
  Gates = {k}
  Scopes = {goal}
  GoalScope = goal
  LeaseScopes = {}
  Holders = {}
  Moments = {0}
  Ttls = {1}
  Verdicts = {}
  Targets = {}
  Forgotten = {g}
  MaxSeq = 3
  MaxGates = 1
  MaxLeases = 1
  NoScope = NoScope
  Nobody = Nobody
  Clients = {c, d}
  MaxCalls = 3
  Unset = Unset
CHECK_DEADLOCK FALSE
INVARIANTS
  AnswersAreTrue
  InconsistencyLatches
PROPERTIES
  BareRetriesAreAcknowledged
