SPECIFICATION Spec
CONSTANTS
  f1 = f1
  f2 = f2
  Players = {p, q}
  Frames = {f1, f2}
  NoPlayer = none
  Cues = {1}
  Assignments <- OneCue
  Timelines <- OnlyOne
  Start <- StartOne
  End <- EndOne
  Prepare = 1
  Fresh = 1
  MaxTime = 1
  MaxEdits = 2
  MaxReports = 1
  MaxUpsets = 0
SYMMETRY WallSymmetry
CHECK_DEADLOCK FALSE
INVARIANTS
  ForecastReturns
