------------------------------- MODULE TimeParser -------------------------------
(***************************************************************************)
(* The times of day that wflow/timer/private/time_parser.cpp reads from    *)
(* strings such as "22:00:00": which second of the clock they stand for.   *)
(* Times are seconds since the epoch; a day has DaySeconds of them.        *)
(***************************************************************************)
EXTENDS Integers

CONSTANT DaySeconds   (* a positive number                                  *)

(* A string as the parser classes it: a schedule, a time of day or an      *)
(* interval, or one of these that cannot be read; the empty string is such *)
(* an interval, and a schedule that cannot be read is left to Cron.        *)
isTime(k) == k \in {"time", "badTime"}
isSchedule(k) == k = "schedule"
isInterval(k) == ~(isTime(k) \/ isSchedule(k))
isGood(k) == k \in {"time", "interval", "schedule"}

(* The start of the local day, as the code takes it: the last midnight of  *)
(* UTC, moved by the offset of local time.                                 *)
BegDay(now, gmtoff) == (now \div DaySeconds) * DaySeconds - gmtoff

(* Variant of MakeTime: a time of day that is past is not put off.         *)
MakeTimeToday(now, gmtoff, tod) == BegDay(now, gmtoff) + tod

(* make_time() of a time of day tod, at the time now.                      *)
MakeTime(now, gmtoff, tod) ==
  LET ready == BegDay(now, gmtoff) + tod
  IN  IF ready < now THEN ready + DaySeconds ELSE ready

-----------------------------------------------------------------------------
(* What the string means: the local clock shows tod.                       *)
Shows(t, gmtoff, tod) == (t + gmtoff) % DaySeconds = tod

(* Is the date the same here and in UTC.                                   *)
SameDate(now, gmtoff) == now \div DaySeconds = (now + gmtoff) \div DaySeconds

(* The first such second that is not past.                                 *)
IsNextTime(t, now, gmtoff, tod) ==
  /\ Shows(t, gmtoff, tod)
  /\ now <= t /\ t < now + DaySeconds

=============================================================================
