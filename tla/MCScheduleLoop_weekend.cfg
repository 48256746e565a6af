SPECIFICATION Spec
CONSTANTS
  DayLen = 6
  WeekLen = 3
  LastDay = 6
  Windows <- SampleWindow
  MaxDelay = 3
  HolidayChoices <- NoHolidays
INVARIANTS SleepAtWeekend
CHECK_DEADLOCK FALSE
