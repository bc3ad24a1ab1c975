SPECIFICATION Protocol
CONSTANTS
  f1 = f1
  f2 = f2
  Self = p
  Players = {p}
  Frames = {f1, f2}
  NoPlayer = none
  Cues = {1}
  Assignments <- OneCue
  Timelines <- AllPlaced
  Start <- StartOne
  End <- EndOne
  Prepare = 1
  Fresh = 1
  KeepReports = 1
  MaxTime = 2
  MaxEdits = 1
  MaxReports = 1
  MaxUpsets = 0
  MaxPosts = 1
  MaxHitches = 0
CHECK_DEADLOCK FALSE
PROPERTIES
  LateJoinIsFresh
