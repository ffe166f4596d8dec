------------------------------- MODULE MCSchedule -------------------------------
(* A small calendar for the time strings and the schedules: days of four   *)
(* or six seconds, weeks of three days, years of three months.             *)
EXTENDS Schedule, TLC

ThreeMonths == <<4, 3, 4>>
AroundUTC == {-1, 0, 1}
UTC == {0}
AnyTimeOfDay == 0..SecondsOfDay - 1
SomePeriods == {0, 3}
NoTimeOfDay == {}

(* Some texts for each field, "*" among them.                              *)
One(n) == [form |-> "one", first |-> n, last |-> n, step |-> NoStep]
From(n, s) == [form |-> "one", first |-> n, last |-> n, step |-> s]
Span(m, n, s) == [form |-> "range", first |-> m, last |-> n, step |-> s]
Unspecified == [form |-> "?", first |-> 0, last |-> 0, step |-> NoStep]

(* Two seconds of every minute, or of some.                                *)
AtSeconds(m) == [sec |-> {One(0), One(2)}, min |-> m, hour |-> {Star},
                 mday |-> {Star}, wday |-> {Star}, mon |-> {Star}]

ManyCrons == [sec : {{One(1)}, {From(0, 1)}}, min : {{One(0)}}, hour : {{One(1)}, {Star}},
              mday : {{One(1)}, {One(4)}, {Star}}, wday : {{One(0)}, {Unspecified}},
              mon : {{One(1), From(3, 2)}, {Span(1, 3, NoStep)}}]
              \cup {[sec |-> {One(1)}, min |-> {Star}, hour |-> {Star}, mday |-> {Star},
                     wday |-> {Star}, mon |-> m] : m \in {{One(4)}, {Span(3, 2, 1)}}}
              \cup {AtSeconds({Star})}
SecondsOfAMinute == {AtSeconds({One(1)})}
NoSchedule == {}
=============================================================================
