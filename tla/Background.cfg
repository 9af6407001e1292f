SPECIFICATION Spec
CONSTANTS
  Subscribers = {t1, t2}
  Topics = {"jobs", "intents"}
  PrefixesOf <- MCPrefixesOf
  Filters <- MCFilters
  AllTopics = AllTopics
  Closed = Closed
  QueueLimit = 2
  MaxEvents = 4
  Routes = {r1, r2}
  Events = {"breaker_tripped"}
  Digest = "daily_digest"
  Notifiers = {n1, n2}
  Idle = Idle
  NoRoute = NoRoute
  LastDay = 3
  MaxPerDay = 2
  TrailingDays = 2
  NoRollup = NoRollup
  Sources = {s1, s2}
  Titles = {"dune", "arrival"}
  Reports <- MCReports
  MinPlays = 2
  TTL = 1
  NoRow = NoRow
  NoReport = NoReport
  NoRun = NoRun
  NoFindings = NoFindings
  MaxTurns = 2
  Wants = {"ep1", "ep2", "film"}
  KindOf <- MCKindOf
  PageSize = 1
  Syncers = {"loop"}
  Quiet = TRUE
  MaxStamp = 2
  None = None
  Null = Null
  Twins = {"bazarr_instance"}
  MaxRows = 4
INVARIANTS
  NoStorm
  StatisticsAreTrue
  BoostFollowsActivity
  WithdrawnIsGone
  
PROPERTIES
  FeedSpec
  
  CompletedPassIsExact
CHECK_DEADLOCK FALSE
