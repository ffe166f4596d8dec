----------------------------------- MODULE Cron -----------------------------------
(***************************************************************************)
(* Schedules as croncpp.h has them, which wflow's timers use: what it      *)
(* reads from the six fields of an expression, and its search for the next *)
(* time.  From the given time it moves one field of the date after another *)
(* to the next value the schedule allows, and starts again whenever a      *)
(* higher field had to move.  Every change of a field is followed by       *)
(* mktime(), which carries what is too much in one field into the next.    *)
(*                                                                         *)
(* The sizes of the fields are constants, so that a small calendar can be  *)
(* searched completely; every year is alike and the clock never jumps.     *)
(***************************************************************************)
EXTENDS Integers, Sequences, FiniteSetsExt, SequencesExt

CONSTANTS NSec, NMin, NHour,   (* how many seconds, minutes, hours there are *)
          NWeek,               (* days in a week                          *)
          MonthDays,           (* the lengths of the months               *)
          IntSize,             (* how many values a cron_int has (256)    *)
          MaxDays,             (* how many days are tried (366)           *)
          MaxYears             (* CRON_MAX_YEARS_DIFF                     *)

ASSUME CalendarAssumption ==
  /\ {NSec, NMin, NHour, NWeek, IntSize, MaxDays, MaxYears} \subseteq Nat \ {0}
  /\ MonthDays \in Seq(Nat \ {0}) /\ MonthDays # <<>>
  /\ \A m \in DOMAIN MonthDays : NWeek <= MonthDays[m]

INVALID == -1
NMon == Len(MonthDays)
Months == 0..NMon - 1
NDay == Max(ToSet(MonthDays))
SecondsOfDay == NSec * NMin * NHour

-----------------------------------------------------------------------------
(* Reading an expression.  A field is a set of items such as "*", "3", or  *)
(* "1-3", each with or without a step, or a single "?".                    *)

NoStep == -1
Item == [form : {"*", "?", "one", "range"}, first : Nat, last : Nat,
         step : Nat \cup {NoStep}]
BAD == {INVALID}

toCronInt(n) == n % IntSize

(* The first and the last value of an item, <<>> if there are none.        *)
makeRange(item, minval, maxval) ==
  LET r == CASE item.form = "*" -> <<minval, maxval>>
             [] item.form = "one" -> <<toCronInt(item.first), toCronInt(item.first)>>
             [] item.form = "range" -> <<toCronInt(item.first), toCronInt(item.last)>>
             [] item.form = "?" -> <<1, 0>>
  IN  IF minval <= r[1] /\ r[1] <= r[2] /\ r[2] <= maxval THEN r ELSE <<>>

(* The loop over the bits, whose counter is a cron_int.                    *)
stepFrom(first, last, delta) ==
  LET bit(k) == (first + k * delta) % IntSize
      ends == Min({k \in 0..IntSize : bit(k) > last \/ k = IntSize})
  IN  {bit(k) : k \in 0..ends - 1}

setItem(item, minval, maxval) ==
  LET r == makeRange(item, minval, maxval)
      last == IF item.step # NoStep /\ item.form # "range" THEN maxval ELSE r[2]
      delta == IF item.step = NoStep THEN 1 ELSE toCronInt(item.step)
  IN  IF r = <<>> \/ delta = 0 THEN BAD
      ELSE stepFrom(r[1] - minval, last - minval, delta)

(* The bits of a field; they are numbered from 0.                          *)
setCronField(items, minval, maxval) ==
  LET bits == UNION {setItem(i, minval, maxval) : i \in items}
  IN  IF items = {} \/ INVALID \in bits THEN BAD ELSE bits

Star == [form |-> "*", first |-> 0, last |-> 0, step |-> NoStep]
setCronDays(items, minval, maxval) ==
  setCronField(IF \E i \in items : items = {i} /\ i.form = "?" /\ i.step = NoStep
               THEN {Star} ELSE items, minval, maxval)

makeCron(expr) ==
  [sec |-> setCronField(expr.sec, 0, NSec - 1),
   min |-> setCronField(expr.min, 0, NMin - 1),
   hour |-> setCronField(expr.hour, 0, NHour - 1),
   mday |-> setCronDays(expr.mday, 1, NDay),
   mon |-> setCronField(expr.mon, 1, NMon),
   wday |-> setCronDays(expr.wday, 0, NWeek - 1)]

isCron(cex) == \A f \in DOMAIN cex : cex[f] # BAD

-----------------------------------------------------------------------------
(* mktime() and localtime_r(), as the header uses them.                    *)

DaysBefore[mon \in 0..NMon] ==
  IF mon = 0 THEN 0 ELSE DaysBefore[mon - 1] + MonthDays[mon]
YearDays == DaysBefore[NMon]

ASSUME DaysAssumption == YearDays <= MaxDays

Seconds(date) ==
  LET days == date.year * YearDays + DaysBefore[date.mon] + date.mday - 1
  IN  ((days * NHour + date.hour) * NMin + date.min) * NSec + date.sec

LocalTime(t) ==
  LET day == t \div SecondsOfDay
      mon == Max({m \in Months : DaysBefore[m] <= day % YearDays})
  IN  [sec |-> t % NSec,
       min |-> (t \div NSec) % NMin,
       hour |-> (t \div (NSec * NMin)) % NHour,
       mday |-> (day % YearDays) - DaysBefore[mon] + 1,
       mon |-> mon,
       year |-> day \div YearDays,
       wday |-> day % NWeek]

mktime(date) == LocalTime(Seconds(date))

-----------------------------------------------------------------------------
(* Moving the fields.                                                      *)

addToField(date, f, n) == mktime([date EXCEPT ![f] = @ + n])
setField(date, f, n) == mktime([date EXCEPT ![f] = n])
resetField(date, f) == setField(date, f, IF f = "mday" THEN 1 ELSE 0)

(* The fields of a date, which is a right one, are reset all at once.      *)
resetAllFields(date, marked) ==
  mktime([f \in DOMAIN date |-> IF f \notin marked THEN date[f]
                                ELSE IF f = "mday" THEN 1 ELSE 0])

NextField(f) == CASE f = "sec" -> "min"
                  [] f = "min" -> "hour"
                  [] f = "hour" -> "mday"
                  [] f = "mon" -> "year"

(* The next bit from value on, or else the first of all.                   *)
nextSetBit(target, value) ==
  LET on == {i \in target : i >= value}
  IN  IF on = {} THEN Min(target) ELSE Min(on)

(* The value of field f for which target is set, and the date moved to it, *)
(* which is after the next higher field has moved if the value is lower.   *)
MoveTo(val, date, f, marked) ==
  [val |-> val,
   date |-> IF val = date[f] THEN date
            ELSE resetAllFields(
                   setField(IF val > date[f] THEN date
                            ELSE resetField(addToField(date, NextField(f), 1), f),
                            f, val),
                   marked)]

findNextField(target, date, f, marked) ==
  MoveTo(nextSetBit(target, date[f]), date, f, marked)

(* Day by day, until both the day of the month and the weekday are right.  *)
findNextDay(cex, date, marked) ==
  LET day(k) == IF k = 0 THEN date ELSE resetAllFields(addToField(date, "mday", k), marked)
      fits(k) == day(k).mday - 1 \in cex.mday /\ day(k).wday \in cex.wday
      found == day(Min({k \in 0..MaxDays : fits(k) \/ k = MaxDays}))
  IN  [val |-> found.mday, date |-> found]

Fields == <<"sec", "min", "hour", "mday", "mon">>

FindIn(f, cex, date, marked) ==
  IF f = "mday" THEN findNextDay(cex, date, marked)
                ELSE findNextField(cex[f], date, f, marked)

(* A search is the date it has come to and the calls of find_next() that   *)
(* are under way, the innermost first: which field each is at, and which   *)
(* it has marked.                                                          *)
Dates == [sec : Nat, min : Nat, hour : Nat, mday : Nat, mon : Months, year : Int, wday : Nat]
Calls == [at : 1..Len(Fields) + 1, marked : SUBSET ToSet(Fields)]
Searches == [ok : BOOLEAN, date : Dates, calls : Seq(Calls)]

NewCall == [at |-> 1, marked |-> {}]
Begin(date) == [ok |-> TRUE, date |-> date, calls |-> <<NewCall>>]
Failed(s) == [s EXCEPT !.ok = FALSE, !.calls = <<>>]

(* What follows a field for which r was found.  If that is another value,  *)
(* all is searched again from there before the call goes on; but not for   *)
(* the seconds, which are only not marked then.                            *)
FieldDone(s, r, dot) ==
  LET call == Head(s.calls)
      f == Fields[call.at]
      moved == r.val # s.date[f]
      goesOn == [at |-> call.at + 1,
                 marked |-> IF moved THEN call.marked ELSE call.marked \cup {f}]
  IN  IF moved /\ f = "mon" /\ r.date.year - dot > MaxYears THEN Failed(s)
      ELSE [s EXCEPT !.date = r.date,
                     !.calls = (IF moved /\ f # "sec" THEN <<NewCall>> ELSE <<>>)
                               \o <<goesOn>> \o Tail(s.calls)]

SearchStep(cex, dot, s) ==
  LET call == Head(s.calls)
  IN  IF call.at > Len(Fields) THEN [s EXCEPT !.calls = Tail(@)]
      ELSE FieldDone(s, FindIn(Fields[call.at], cex, s.date, call.marked), dot)

findNext(cex, date) ==
  LET search[s \in Searches] ==
        IF s.calls = <<>> THEN s ELSE search[SearchStep(cex, date.year, s)]
  IN  search[Begin(date)]

TimeFound(found) == IF found.ok THEN Seconds(found.date) ELSE INVALID

(* Variant of cronNext: a time that fits already is taken for the next.    *)
cronNextOrNow(cex, now) == TimeFound(findNext(cex, LocalTime(now)))

(* The next time of schedule cex after now, INVALID if none is found.      *)
AfterFound(found, cex, now) ==
  IF ~found.ok \/ Seconds(found.date) # now THEN TimeFound(found)
  ELSE TimeFound(findNext(cex, addToField(found.date, "sec", 1)))

cronNext(cex, now) == AfterFound(findNext(cex, LocalTime(now)), cex, now)

-----------------------------------------------------------------------------
(* What an expression means: the values of the date that every field names, *)
(* and the seconds at which the date has them.                             *)

ValuesOf(items, values) ==
  {v \in values : \E i \in items :
     LET first == IF i.form \in {"*", "?"} THEN Min(values) ELSE i.first
         last == CASE i.form = "range" -> i.last
                   [] i.form = "one" /\ i.step = NoStep -> first
                   [] OTHER -> Max(values)
     IN  v \in first..last /\ (i.step = NoStep \/ (v - first) % i.step = 0)}

Meaning(expr) ==
  [sec |-> ValuesOf(expr.sec, 0..NSec - 1),
   min |-> ValuesOf(expr.min, 0..NMin - 1),
   hour |-> ValuesOf(expr.hour, 0..NHour - 1),
   mday |-> ValuesOf(expr.mday, 1..NDay),
   mon |-> {v - 1 : v \in ValuesOf(expr.mon, 1..NMon)},
   wday |-> ValuesOf(expr.wday, 0..NWeek - 1)]

(* The expressions whose numbers fit a cron_int, with the steps.           *)
NumbersFit(expr) ==
  \A f \in DOMAIN expr : \A i \in expr[f] :
    /\ i.first < IntSize /\ i.last < IntSize
    /\ i.step + NSec + NMin + NHour + NDay + NMon + NWeek < IntSize

Matches(when, t) ==
  LET date == LocalTime(t)
  IN  \A f \in {"sec", "min", "hour", "mday", "mon", "wday"} : date[f] \in when[f]

(* t is the first of them after now.                                       *)
IsNextMatch(when, t, now) ==
  /\ t > now /\ Matches(when, t)
  /\ \A u \in now + 1..t - 1 : ~Matches(when, u)

(* The schedules for which the search cannot meet a month without the day  *)
(* it has come to, ...                                                     *)
EveryMonthHas(when) == \/ when.mon = Months
                       \/ when.mday \subseteq 1..Min(ToSet(MonthDays))

(* ... and those for which it cannot move to the same day of another month, *)
(* which it takes for no move at all.                                      *)
DaysAreSimple(when) == \/ when.wday = 0..NWeek - 1
                       \/ when.mday = 1..NDay

(* Those whose seconds do not have to move to one of several and then stay *)
(* there while a higher field moves as well, for they are not reset then.  *)
SecondsAreSimple(when) ==
  \/ when.sec = 0..NSec - 1
  \/ \E s \in 0..NSec - 1 : when.sec = {s}
  \/ /\ when.min = 0..NMin - 1 /\ when.hour = 0..NHour - 1
     /\ when.mday = 1..NDay /\ when.wday = 0..NWeek - 1 /\ when.mon = Months

IsSimple(expr) ==
  LET when == Meaning(expr)
  IN  NumbersFit(expr) /\ EveryMonthHas(when) /\ DaysAreSimple(when) /\ SecondsAreSimple(when)

=============================================================================
