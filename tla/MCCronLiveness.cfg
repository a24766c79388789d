SPECIFICATION FairSpec
CHECK_DEADLOCK FALSE
CONSTANTS
  a = a
  b = b
  Scheduler = {a}
  Nobody = Nobody
  Generation = {1, 2}
  NoGeneration = 0
  Occurrences = {1, 3}
  EndOfTime = 3
  CatchUp = 1
  QueueDepth = 1
  Setups <- LivenessSetups
PROPERTY
  DueIsAdmitted
