SPECIFICATION FairSpec
CONSTANTS
  e1 = e1
  e2 = e2
  series = series
  m1 = m1
  m2 = m2
  NoIntent = NoIntent
  Idle = Idle
  Intents = {m1, m2}
  Sources = {"en"}
  Groups = {m1, m2}
  GroupOf <- TitleOf
  WindowK = 1
  Slots = 3
  Backpressure = 2
  MaxAttempts = 2
  Operators = {}
  Actions = {}
  MaxRetries = 0
  MaxRestarts = 1
  Faults = {"lost_job", "reject", "foreign"}
INVARIANTS
  WindowRespected
PROPERTIES
  LifecycleSpec
  InFlightResolves
  RetriesComeBack
CHECK_DEADLOCK FALSE
