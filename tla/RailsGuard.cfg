SPECIFICATION Spec
CONSTANTS
  a1 = a1
  a2 = a2
  a3 = a3
  m1 = m1
  None = None
  Attempts = {a1, a2, a3, m1}
  Cost <- Costs
  Cap <- Caps
  Budget = 3
  Threshold = 2
  Unfed = TRUE
  MaxFailures = 3
  MaxRestarts = 1
SYMMETRY Episodes
INVARIANTS
  
  PauseIsPrompt
PROPERTIES
  
  TripsAndCloses
CHECK_DEADLOCK FALSE
