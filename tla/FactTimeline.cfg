SPECIFICATION CSpec
CONSTANTS
  Callers = {1}
  Values = {"v", "w"}
  MaxNow = 2
  MaxCalls = 2
  Forever = 9
  Stale = 1
  NoCall = NoCall
CHECK_DEADLOCK FALSE
INVARIANT NewestIsCanonical
