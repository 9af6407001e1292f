SPECIFICATION Spec
CONSTANTS
  e1 = e1
  e2 = e2
  series = series
  NoIntent = NoIntent
  Idle = Idle
  Intents = {e1, e2}
  Sources = {"en"}
  Groups = {series}
  GroupOf <- TitleOf
  WindowK = 2
  Slots = 3
  Backpressure = 2
  MaxAttempts = 2
  Operators = {"o1", "o2"}
  Actions = {"release", "exclude"}
  MaxRetries = 0
  MaxRestarts = 1
  Faults = {"reject", "lost_job", "abort", "withdraw"}
SYMMETRY Episodes
INVARIANTS
  TypeOK
  NeverCorrupts
  OurWorkIsDoneOnce
PROPERTIES
  OwnWorkCounts
  NormativeTransitions
CHECK_DEADLOCK FALSE
