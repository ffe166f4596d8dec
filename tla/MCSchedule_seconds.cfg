CONSTANTS
  NSec = 3
  NMin = 2
  NHour = 1
  NWeek = 3
  MonthDays <- ThreeMonths
  IntSize = 32
  MaxDays = 12
  MaxYears = 4
  MinNow = 66
  MaxNow = 131
  MaxLate = 1
  Offsets <- UTC
  TimesOfDay <- NoTimeOfDay
  Crons <- SecondsOfAMinute
  Periods <- SomePeriods
SPECIFICATION Spec
CHECK_DEADLOCK FALSE
INVARIANT NoSecondMissed
