SPECIFICATION Spec
CONSTANTS
  e1 = e1
  e2 = e2
  series = series
  NoIntent = NoIntent
  Idle = Idle
  Intents = {e1, e2}
  Sources = {"en"}
  Groups = {series}
  GroupOf <- TitleOf
  WindowK = 2
  Slots = 3
  Backpressure = 2
  MaxAttempts = 1
  Operators = {"o1"}
  Actions = {"retry"}
  MaxRetries = 1
  MaxRestarts = 0
  Faults = {"provider", "lost_reply", "slow_job", "other_means"}
SYMMETRY Episodes
INVARIANTS
  PairExclusive
  AttemptCeiling
PROPERTIES
  OneJobPerAttempt
CHECK_DEADLOCK FALSE
