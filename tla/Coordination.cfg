SPECIFICATION WallSpec
CONSTANTS
  f1 = f1
  f2 = f2
  Players = {p, q}
  Frames = {f1, f2}
  NoPlayer = none
  Cues = {1, 2}
  Assignments <- TwoCues
  Timelines <- OneOrTwo
  Start <- StartOne
  End <- EndOne
  Prepare = 1
  Fresh = 1
  MaxTime = 3
  MaxEdits = 1
  MaxReports = 2
  MaxUpsets = 1
SYMMETRY WallSymmetry
CHECK_DEADLOCK FALSE
INVARIANTS
  TypeOK
  SkippedHoldsNoGrant
  OneForecast
  GrantMatchesOffer
PROPERTIES
  CommitsTogether
  StartedStays
  HeldGrantStands
