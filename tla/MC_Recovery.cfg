SPECIFICATION RecoverySpec
CONSTANTS
  Contents = {c1}
  NoContent = none
  Polls = {poll}
  Socket = ws
  MaxQueue = 1
  MaxChanges = 0
  MaxFaults = 1
  f1 = f1
  f2 = f2
  Self = p
  Players = {p}
  Frames = {f1}
  NoPlayer = none
  Cues = {1}
  Assignments <- OneFrame
  Timelines <- AllPlaced
  Start <- StartOne
  End <- EndOne
  Prepare = 1
  Fresh = 1
  KeepReports = 8
  MaxTime = 2
  MaxEdits = 0
  MaxReports = 8
  MaxUpsets = 0
  MaxPosts = 1
  MaxHitches = 1
PROPERTIES
  DeliveryRecovers
  GrantsRecover
CHECK_DEADLOCK FALSE
