SPECIFICATION Protocol
CONSTANTS
  f1 = f1
  f2 = f2
  Self = p
  Players = {p}
  Frames = {f1}
  NoPlayer = none
  Cues = {1}
  Assignments <- OneFrame
  Timelines <- AllPlaced
  Start <- StartOne
  End <- EndOne
  Prepare = 1
  Fresh = 1
  KeepReports = 1
  MaxTime = 0
  MaxEdits = 1
  MaxReports = 2
  MaxUpsets = 0
  MaxPosts = 1
  MaxHitches = 0
CHECK_DEADLOCK FALSE
PROPERTIES
  ReportIsHeard
