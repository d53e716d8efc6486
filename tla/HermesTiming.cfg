SPECIFICATION HSpec
CONSTANTS
  Instances = {p, q}
  Turns = {t}
  Phases = {active, tool}
  Active = active
  Cohort = cohort
  Subjects = {active, tool, cohort}
  Elapsed = {1}
  Outcomes = {completed}
  Completed = completed
  Aborted = completed
  MinSamples = 5
  Window = 100
  None = None
  Clean = Clean
  Torn = Torn
  MaxTurns = 2
  MaxUnstarted = 1
  MaxRuns = 6
  MaxChain = 0
  MaxTears = 1
  TornWithin = 1
  MaxRestores = 0
  RestoreWithin = 0
  MaxLines <- TwelveLines
CHECK_DEADLOCK FALSE
INVARIANTS
  TurnsAreRecorded
PROPERTIES
  TurnsDrain
