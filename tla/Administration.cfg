SPECIFICATION Spec
CONSTANTS
  Operators = {u1}
  PresetNames = {"Observe", "Balanced", "Mine"}
  BuiltIns = {"Observe", "Balanced"}
  Observe = "Observe"
  ProfileNames = {"p1", "p2"}
  LayerValues <- MCLayerValues
  Scopes <- MCScopes
  Items <- MCItems
  ExclusionRules <- MCExclusionRules
  MaxEdits = 4
  Idle = Idle
  Item <- MCItem
  Want <- MCWant
  Postures <- MCPostures
  Rules <- MCRules
  Subs <- MCSubs
  MaxAge = 2
  Recency <- MCRecency
  MonitoredBonus = 20
  WatchBonus = 15
  Base = 10
  NoRow = NoRow
  Candidates <- MCCandidates
  RailSettings <- MCRailSettings
  Limits = {1, 2, 5}
  Statistics <- MCStatistics
  NoStatistics = NoStatistics
  NoBudget = NoBudget
  Names = {ann, bob}
  Clerks = {c1}
  LoadOrder <- MCLoadOrder
  Settings = {s1, s2}
  NoUser = NoUser
  NoSettings = NoSettings
  NoOrder = NoOrder
  MaxStarts = 3
  DayLength = 3
  WeekLength = 2
  Acting = {o1, o2}
  Ledger <- MCLedger
  Asked <- MCAsked
  Conversions <- MCConversions
  MaxRequests = 2
  MaxActs = 2
  NoMedia = NoMedia
  NoRequest = NoRequest
  NoAct = NoAct
INVARIANTS
  PolicyRowsAgree
  NearestLayerWins
  PriorityIsExplained
  PlanIsTrue
  PassIsPreviewed
  MemoryAgrees
  OpenExactlyInOpenings
  AuditTellsAll
  NeverActsOnOthers
PROPERTIES
  DecisionsAreSteady
  NobodyIsLockedOut
CHECK_DEADLOCK FALSE
