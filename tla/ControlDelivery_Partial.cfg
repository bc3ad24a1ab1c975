SPECIFICATION Spec
CONSTANTS
  Contents = {c1, c2}
  NoContent = none
  Polls = {poll}
  Socket = ws
  MaxQueue = 1
  MaxChanges = 1
  MaxUpsets = 0
CHECK_DEADLOCK FALSE
INVARIANTS
  PartialNeverCounts
