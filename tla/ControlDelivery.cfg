SPECIFICATION Spec
CONSTANTS
  Contents = {c1, c2}
  NoContent = none
  Polls = {poll}
  Socket = ws
  MaxQueue = 1
  MaxUpsets = 1
  MaxChanges = 1
SYMMETRY ContentSymmetry
CHECK_DEADLOCK FALSE
INVARIANTS
  TypeOK
  LatestIsInstalled
  ReceiptNamesInstalled
  SequenceNamesOneDelivery
PROPERTIES
  NeverGoesBack
  CurrentUntilChanged
