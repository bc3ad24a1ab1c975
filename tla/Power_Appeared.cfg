SPECIFICATION PowerSpec
CONSTANTS
  Timetables <- HourTimetables
  MaxHour = 1
  MaxOrders = 1
  MaxReplugs = 3
  MaxNoAnswers = 0
PROPERTY AppearedIsLookedAt
CHECK_DEADLOCK FALSE
