SPECIFICATION LedgersSpec
CONSTANTS
  Parameters <- Small
  v1 = v1
  v2 = v2
  policy = policy
  said = said
  hostA = hostA
  hostB = hostB
  subjectA = subjectA
  completed = completed
  aborted = aborted
  Clean = Clean
  Torn = Torn
  Nil = Nil
SYMMETRY Symmetry
CHECK_DEADLOCK FALSE
INVARIANTS
  DelaysAreExplained
  WhatWasAnsweredStands
  
  CorrectionsWereEarned
  

  
