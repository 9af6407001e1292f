SPECIFICATION Spec
CONSTANTS
  e1 = e1
  e2 = e2
  series = series
  NoIntent = NoIntent
  Idle = Idle
  Intents = {e1, e2}
  Sources = {"en"}
  Groups = {series}
  GroupOf <- TitleOf
  WindowK = 2
  Slots = 3
  Backpressure = 2
  MaxAttempts = 2
  Operators = {}
  Actions = {}
  MaxRetries = 0
  MaxRestarts = 0
  Faults = {"provider"}
SYMMETRY Episodes
INVARIANTS
  NeverCorrupts
CHECK_DEADLOCK FALSE
