CONSTANTS
  NSec = 2
  NMin = 1
  NHour = 2
  NWeek = 3
  MonthDays <- ThreeMonths
  IntSize = 32
  MaxDays = 12
  MaxYears = 4
  MinNow = 44
  MaxNow = 87
  MaxLate = 1
  Offsets <- UTC
  TimesOfDay <- NoTimeOfDay
  Crons <- ManyCrons
  Periods <- SomePeriods
SPECIFICATION Spec
CHECK_DEADLOCK FALSE
INVARIANT NoMatchMissed
