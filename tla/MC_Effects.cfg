SPECIFICATION EffectsSpec
CONSTANTS
  Slots = {s1, s2}
  Handles = {h1}
  Retry = 1
  MaxWait = 1
  MaxExtras = 1
  MaxUpsets = 1
  MaxWestons = 3
  MaxMarks = 2
  MaxTroubles = 1
  MayArmLate = FALSE
INVARIANTS
  EffectsTypeOK
  
  BackoffIsKept
  StartsHaveACause
PROPERTIES
  
  SwitchEnds
  VictimIsStarted
CHECK_DEADLOCK FALSE
