--------------------------------- MODULE Schedule ---------------------------------
(***************************************************************************)
(* What workflow makes of a string with a time: the post of a task at that *)
(* time, a timer that starts at it, or a timer that keeps to it as its     *)
(* schedule.  The clock is whole seconds, as std::time() gives it.         *)
(*                                                                         *)
(* A timer is one that takes no time and is run with its queue in order:   *)
(* what becomes of its flag and of slow handlers is in Timers.             *)
(***************************************************************************)
EXTENDS Cron

CONSTANTS MinNow, MaxNow,  (* the seconds that are looked at              *)
          MaxLate,     (* how late a run may be, in seconds               *)
          Offsets,     (* the values of tm_gmtoff                         *)
          TimesOfDay,  (* the times of day that strings name              *)
          Crons,       (* the cron expressions that strings are           *)
          Periods      (* the intervals that strings name, and delays     *)

(* A time of day that can be read is one the clock shows (a leap second,   *)
(* which %S would read as well, is left out), and all times are after 1970. *)
ASSUME TimesAssumption ==
  /\ MinNow \in Int /\ MaxNow \in Int /\ MaxLate \in Nat
  /\ Offsets \subseteq Int /\ Periods \subseteq Nat
  /\ TimesOfDay \subseteq 0..SecondsOfDay - 1
  /\ \A o \in Offsets : MinNow + o >= 0
  /\ Crons \subseteq [sec : SUBSET Item, min : SUBSET Item, hour : SUBSET Item,
                      mday : SUBSET Item, mon : SUBSET Item, wday : SUBSET Item]

INSTANCE TimeParser WITH DaySeconds <- SecondsOfDay

Users == {"post", "start", "schedule"}
NoTime == -2
NoCron == <<>>

VARIABLES
  now,      (* std::time(nullptr)                                         *)
  gmtoff,   (* how far local time is ahead of UTC                         *)
  user,     (* which call has been given the string                       *)
  str,      (* the string: its kind and what it names                     *)
  cron,     (* what make_cron() makes of it, if it is a schedule          *)
  made,     (* when due was computed, NoTime before the call              *)
  delay,    (* the period of the timer, 0 for a day                       *)
  due,      (* when the task is to run, NoTime if it is not               *)
  late      (* history: has it ever been run after its time               *)

vars == <<now, gmtoff, user, str, cron, made, delay, due, late>>

Strings ==
  [kind : {"time"}, tod : TimesOfDay] \cup
  [kind : {"schedule"}, expr : Crons] \cup
  [kind : {"interval"}, delay : Periods] \cup
  [kind : {"badTime", "badInterval", "empty"}]

Init ==
  /\ now \in MinNow..MaxNow
  /\ gmtoff \in Offsets
  /\ user = "none"
  /\ str \in Strings
  /\ cron = IF isSchedule(str.kind) THEN makeCron(str.expr) ELSE NoCron
  /\ made = NoTime /\ delay = 0 /\ due = NoTime /\ late = FALSE

Readable == isGood(str.kind) /\ (isSchedule(str.kind) => isCron(cron))

(* A schedule is read in local time, by mktime() and localtime_r(); that   *)
(* there is no next time is a time like any other to those who ask.        *)
FromLocal(t) == IF t = INVALID THEN INVALID ELSE t - gmtoff
CronNext == FromLocal(cronNext(cron, now + gmtoff))

(* make_time_point() of a string that can be read.                         *)
MakeTimePoint ==
  CASE isTime(str.kind) -> MakeTime(now, gmtoff, str.tod)
    [] isSchedule(str.kind) -> CronNext
    [] isInterval(str.kind) -> now + str.delay

Use(u, period, first) ==
  /\ user = "none"
  /\ user' = u
  /\ made' = now /\ delay' = period /\ due' = first
  /\ UNCHANGED <<now, gmtoff, str, cron, late>>

(* post() of a task goes at once with a string that cannot be read.        *)
Post == Use("post", 0, IF Readable THEN MakeTimePoint ELSE now)

(* A timer with a start and a period then waits for one period, or starts  *)
(* at once if the string is empty.                                         *)
CreateFrom(period) ==
  Use("start", period, IF Readable THEN MakeTimePoint
                       ELSE IF str.kind = "empty" THEN now ELSE now + period)

(* A timer with a first delay and a period, which needs no string.         *)
CreateDelayed(start, period) ==
  str.kind = "empty" /\ Use("start", period, now + start)

(* A timer with a schedule is then not made.  A time of day gives it the   *)
(* period 0, and with an interval it starts at once.                       *)
CreateScheduled ==
  CASE ~Readable -> Use("schedule", 0, NoTime)
    [] Readable /\ isInterval(str.kind) -> Use("schedule", str.delay, now)
    [] OTHER -> Use("schedule", 0, MakeTimePoint)

(* The delay that a run of a timer posts the next one with.                *)
MakeDelay ==
  IF user = "schedule" /\ isSchedule(str.kind) THEN CronNext - now
  ELSE IF delay = 0 THEN SecondsOfDay ELSE delay

(* A run of the timer, which ends within the second.                       *)
Run ==
  /\ user \in {"start", "schedule"} /\ due # NoTime
  /\ now >= due
  /\ made' = now
  /\ due' = now + MakeDelay
  /\ late' = (late \/ now > due)
  /\ UNCHANGED <<now, gmtoff, user, str, cron, delay>>

(* The clock moves on to the next run, or a little past it.                *)
Elapse ==
  /\ user \in {"start", "schedule"} /\ now < due
  /\ \E d \in 0..MaxLate : now' = due + d
  /\ now' <= MaxNow
  /\ UNCHANGED <<gmtoff, user, str, cron, made, delay, due, late>>

Next ==
  \/ Post \/ CreateScheduled
  \/ \E period \in Periods : CreateFrom(period)
  \/ \E start, period \in Periods : CreateDelayed(start, period)
  \/ Run \/ Elapse

Spec == Init /\ [][Next]_vars

-----------------------------------------------------------------------------
(* A string with a time of day means the next second at which the local    *)
(* clock shows it, where the local date is that of UTC; and a timer with   *)
(* such a schedule keeps to it as long as each of its runs is in time      *)
(* (time_parser.cpp:133-153, timer_manager_base.cpp:59, 85-91).            *)
TimeOfDayKept ==
  str.kind = "time" /\ user # "none" =>
    /\ user = "post" /\ SameDate(made, gmtoff)
         => IsNextTime(due, made, gmtoff, str.tod)
    /\ user = "schedule" /\ ~late => Shows(due, gmtoff, str.tod)

(* The same whatever the dates are, as workflow.hpp says of the string.    *)
PostedInTime ==
  str.kind = "time" /\ user = "post" => IsNextTime(due, made, gmtoff, str.tod)

(* A string with a schedule means the first second after the present one   *)
(* that fits it, whichever lists, ranges and steps it is written with,     *)
(* whichever fields have to move and however many carry into the next; this *)
(* where every month has the days that the schedule names, not both a day  *)
(* of the month and a weekday are named, and not both some seconds and     *)
(* some values of another field (croncpp.h:366-468, 532-829).              *)
ScheduleKept ==
  str.kind = "schedule" /\ user = "schedule" /\ due # NoTime =>
    (IsSimple(str.expr) => IsNextMatch(Meaning(str.expr), due + gmtoff, made + gmtoff))

(* The same where some seconds of some minutes, hours or days are named, as *)
(* workflow.hpp says of a schedule.                                        *)
NoSecondMissed ==
  str.kind = "schedule" /\ user = "schedule" /\ due # NoTime =>
    LET when == Meaning(str.expr)
    IN  NumbersFit(str.expr) /\ EveryMonthHas(when) /\ DaysAreSimple(when)
          => IsNextMatch(when, due + gmtoff, made + gmtoff)

(* The same for every schedule that something fits.                        *)
NoMatchMissed ==
  (str.kind = "schedule" /\ user = "schedule" /\ due \notin {INVALID, NoTime}) =>
    IsNextMatch(Meaning(str.expr), due + gmtoff, made + gmtoff)

=============================================================================
