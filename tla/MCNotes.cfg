SPECIFICATION NotesSpec
CONSTANTS
  Parameters <- Small
  v1 = v1
  v2 = v2
  policy = policy
  said = said
  hostA = hostA
  hostB = hostB
  subjectA = subjectA
  completed = completed
  aborted = aborted
  alpha = alpha
  beta = beta
  gamma = gamma
  delta = delta
  Clean = Clean
  Torn = Torn
  NoNote = NoNote
  Nil = Nil
CHECK_DEADLOCK FALSE
INVARIANTS
  NotesKeepTheirStory
  
  
  SweepsSpareTheRest
