SPECIFICATION Spec
CHECK_DEADLOCK FALSE
CONSTANTS
  a = a
  b = b
  Scheduler = {a, b}
  Nobody = Nobody
  Generation = {1, 2}
  NoGeneration = 0
  Occurrences = {1, 2}
  EndOfTime = 2
  CatchUp = 1
  QueueDepth = 1
  Setups <- SafetySetups
SYMMETRY Symmetry
INVARIANTS
  EmittedOnce
  OneEmissionInFlight
  NoFiringForgotten
PROPERTIES
  IssueIsKept
