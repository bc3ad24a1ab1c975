SPECIFICATION BrokerFairSpec
CONSTANTS
  MaxWestons = 2
  MaxMarks = 1
  MaxTroubles = 0
  MayArmLate = FALSE
PROPERTY VictimIsStartedAlways
CHECK_DEADLOCK FALSE
