SPECIFICATION NodeSpec
CONSTANTS
  MaxStreams = 2
  MaxMessages = 3
  DrainBatch = 2
  MaxMishaps = 2
  Values = {"v1", "v2"}
  MaxBuckets = 2
  MaxOthers = 1
  MaxChanges = 1
  MaxTables = 1
  MaxTroubles = 2
  Centrals = {c1, c2}
  WallMargin = 3
  MaxRestarts = 1
  MaxStops = 1
  MaxEdits = 2
  Turns = {t1, t2}
  NoTurn = none
  MayReturn = FALSE
  MaxDocuments = 3
  MaxPlugs = 3
  MaxSilences = 2
  Displays = {d1}
  NoDisplay = none
  Codes = {"brightness"}
  Settings = {0, 1}
  Unset = unset
  MaxPictures = 2
  MaxSwaps = 3
  MaxHands = 1
  MaxCrashes = 1
  MaxSilentDisplays = 1
  Timetables <- HourTimetables
  MaxHour = 1
  MaxOrders = 2
  MaxReplugs = 1
  MaxNoAnswers = 1
INVARIANTS
  NodeTypeOK
  RowsAreTrue
  OwnTokenIsTrue
  MarginCovers
PROPERTIES
  AdoptedStays
  ReaderCatchesUp
  
  PersonsValueStays
  
CHECK_DEADLOCK FALSE
