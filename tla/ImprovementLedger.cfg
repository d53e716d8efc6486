SPECIFICATION Spec
CONSTANTS
  Proposals = {p}
  Artifacts = {a}
  Revisions = {m, n}
  Digests = {d, e}
  Kinds = {k}
  Verdicts = {pass, fail}
  Pass = pass
  None = None
  Clean = Clean
  Torn = Torn
  MaxLines = 6
  MaxTears = 2
  TornWithin = 2
SYMMETRY Symmetry
CHECK_DEADLOCK FALSE
INVARIANTS
  PromotionsWereEarned
  ActivationsFormAChain
  WritersReplayCleanly
  
