SPECIFICATION Spec
CONSTANTS
  Consumers = {"socketio", "requests", "progress"}
  StreamOf <- MCStreamOf
  Instances = {"attic", "home"}
  ByName <- MCByName
  Reachable = {"home"}
  MaxRestarts = 1
  Sleeping = Sleeping
  Ended = Ended
  Bazarrs = {"attic"}
  Lingarrs = {"ling"}
  SweepOrder <- MCSweepOrder
  Unreadable = {"ling"}
  MaxVersion = 2
  MaxWrites = 3
  NoRow = NoRow
  NoLink = NoLink
  Waiting = Waiting
  Shows = {"abbey"}
  Films = {"film"}
  LibrarySyncs = {"loop", "operator"}
  LibraryLoop = "loop"
  LibraryPage = 1
  MaxChanges = 1
  Unmirrored = Unmirrored
  NoSync = NoSync
  Counted = {"lone", "spare"}
  ListOrder <- MCListOrder
  MaxFiles = 1
  NoActuals = NoActuals
  NoPass = NoPass
PROPERTIES
  
  ChangesAreRead
  OutagesAreShown
  
  MirrorCatchesUp
CHECK_DEADLOCK FALSE
