SPECIFICATION Spec
CONSTANTS
  DayLen = 6
  WeekLen = 3
  LastDay = 6
  Windows <- EvenWindows
  MaxDelay = 3
  HolidayChoices <- HolidayLists
INVARIANTS TypeOK InSync
PROPERTIES HolidaysToTheEnd PassFollowsPass
CHECK_DEADLOCK FALSE
