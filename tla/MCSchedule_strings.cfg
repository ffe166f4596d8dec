CONSTANTS
  NSec = 3
  NMin = 1
  NHour = 2
  NWeek = 3
  MonthDays <- ThreeMonths
  IntSize = 32
  MaxDays = 12
  MaxYears = 4
  MinNow = 66
  MaxNow = 131
  MaxLate = 1
  Offsets <- AroundUTC
  TimesOfDay <- AnyTimeOfDay
  Crons <- ManyCrons
  Periods <- SomePeriods
SPECIFICATION Spec
CHECK_DEADLOCK FALSE
INVARIANTS TimeOfDayKept ScheduleKept
