SPECIFICATION PlayingSpec
CONSTANTS
  f1 = f1
  f2 = f2
  Self = p
  Players = {p}
  Frames = {f1}
  NoPlayer = none
  Cues = {1}
  Assignments <- OneFrame
  Timelines <- AllPlaced
  Start <- StartOne
  End <- EndOne
  Prepare = 1
  Fresh = 1
  KeepReports = 1
  MaxTime = 2
  MaxEdits = 1
  MaxReports = 3
  MaxUpsets = 1
  MaxPosts = 1
  MaxHitches = 1
  Scenes <- TwoScenes
  SceneDrafts <- TwoEdits
  Windows <- TwoWhens
  Programs = {1}
  Drafts <- TwoDrafts
  Requests <- ThreeRequests
  Jumps = {1, 3}
  Lag = {0, 2}
  History = 2
  QueueLimit = 1
  MaxInstant = 6
  MaxCommands = 2
INVARIANTS
  PlayingTypeOK
  OnlyGranted
  HeldIsPrepared
  RevokedStaysOff
  JumpsAgree
  ProtectedStaysVisible
  SuccessorLiesOver
  WindowsPlayOnce
PROPERTIES
  LateJoinIsFresh
CHECK_DEADLOCK FALSE
