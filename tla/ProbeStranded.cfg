SPECIFICATION FairSpec
CONSTANTS
  a1 = a1
  a2 = a2
  a3 = a3
  m1 = m1
  None = None
  Attempts = {a1, m1}
  Cost <- Costs
  Cap <- NoCaps
  Budget = 9
  Threshold = 1
  Unfed = TRUE
  MaxFailures = 3
  MaxRestarts = 0
PROPERTIES
  ProbeResolves
CHECK_DEADLOCK FALSE
