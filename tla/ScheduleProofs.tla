----------------------------- MODULE ScheduleProofs -----------------------------
(***************************************************************************)
(* Proofs about Schedule, for any calendar, any times of day, any cron     *)
(* expressions and any offsets of local time: TimeOfDayKept, which is      *)
(* short, and ScheduleKept, which takes the rest of the module.            *)
(*                                                                         *)
(* A search of the next time is a loop over dates.  That it has a result   *)
(* is LoopExists, for the module says which fields a date has but not that *)
(* the loop ends.  While the search is on its way it has skipped no time   *)
(* that fits (FieldMoves, DaysMove, MonthsMove), so it is not beyond the   *)
(* first one; and every step takes something from what is left up to there *)
(* (StepKeeps), so it ends.  Where it ends every field fits.  There is a   *)
(* first time, at most a year ahead (FirstMatch), so that the search does  *)
(* not give up.  Last, the bits of an expression are what it means         *)
(* (MeaningIs).                                                            *)
(***************************************************************************)
EXTENDS Schedule, FiniteSetTheorems, SequenceTheorems, TLAPS

-----------------------------------------------------------------------------
(* Induction, by the least number.                                         *)

(* Induction: every set of natural numbers has a least one, for the sets   *)
(* 0..n are finite and their inclusion is well founded.                    *)
LEMMA LeastNat ==
  ASSUME NEW S \in SUBSET Nat, S # {}
  PROVE  \E n \in S : \A k \in S : n <= k
<1> DEFINE below == {0..n : n \in S}
<1>1. below \subseteq FiniteSubsetsOf(Nat) /\ below # {}
  <2>1. \A n \in S : 0..n \subseteq Nat /\ IsFiniteSet(0..n)
    BY FS_Interval
  <2>2. QED
    BY <2>1 DEF FiniteSubsetsOf
<1>2. IsWellFoundedOn(StrictSubsetOrdering(Nat), FiniteSubsetsOf(Nat))
  BY FS_StrictSubsetOrderingWellFounded
<1> HIDE DEF below
<1>3. PICK b \in below : \A c \in below : ~(<<c, b>> \in StrictSubsetOrdering(Nat))
  BY <1>1, <1>2, WFMin
<1>4. PICK n \in S : b = 0..n
  BY DEF below
<1>5. ASSUME NEW k \in S PROVE n <= k
  <2>1. 0..k \in below
    BY DEF below
  <2>2. ~(<<0..k, 0..n>> \in StrictSubsetOrdering(Nat))
    BY <1>3, <1>4, <2>1
  <2>3. ~(0..k \subseteq 0..n /\ 0..k # 0..n)
    BY <2>2 DEF StrictSubsetOrdering
  <2>4. n \in Nat /\ k \in Nat
    OBVIOUS
  <2>5. SUFFICES ASSUME k < n PROVE FALSE
    BY <2>4
  <2>6. 0..k \subseteq 0..n /\ n \in 0..n /\ n \notin 0..k
    BY <2>4, <2>5
  <2>7. QED
    BY <2>3, <2>6
<1>6. QED
  BY <1>5

(* A set of integers that are not below a has a least one.                 *)
LEMMA MinOf ==
  ASSUME NEW S \in SUBSET Int, S # {}, NEW a \in Int, \A x \in S : a <= x
  PROVE  Min(S) \in S /\ \A y \in S : Min(S) <= y
<1> DEFINE T == {x - a : x \in S}
<1>1. T \in SUBSET Nat /\ T # {}
  <2>1. \A x \in S : x - a \in Nat
    OBVIOUS
  <2>2. QED
    BY <2>1
<1> HIDE DEF T
<1>2. PICK n \in T : \A k \in T : n <= k
  BY <1>1, LeastNat
<1>3. PICK x \in S : n = x - a
  BY DEF T
<1>4. ASSUME NEW y \in S PROVE x <= y
  <2>1. y - a \in T
    BY DEF T
  <2>2. x - a <= y - a /\ x \in Int /\ y \in Int
    BY <1>2, <1>3, <2>1
  <2>3. QED
    BY <2>2
<1>5. QED
  BY <1>4 DEF Min

(* A set of integers that are not above b has a greatest one.              *)
LEMMA MaxOf ==
  ASSUME NEW S \in SUBSET Int, S # {}, NEW b \in Int, \A x \in S : x <= b
  PROVE  Max(S) \in S /\ \A y \in S : y <= Max(S)
<1> DEFINE T == {b - x : x \in S}
<1>1. T \in SUBSET Nat /\ T # {}
  <2>1. \A x \in S : b - x \in Nat
    OBVIOUS
  <2>2. QED
    BY <2>1
<1> HIDE DEF T
<1>2. PICK n \in T : \A k \in T : n <= k
  BY <1>1, LeastNat
<1>3. PICK x \in S : n = b - x
  BY DEF T
<1>4. ASSUME NEW y \in S PROVE x >= y
  <2>1. b - y \in T
    BY DEF T
  <2>2. b - x <= b - y /\ x \in Int /\ y \in Int
    BY <1>2, <1>3, <2>1
  <2>3. QED
    BY <2>2
<1>5. QED
  BY <1>4 DEF Max

(* What holds of 0, and of n + 1 where it holds of n, holds of every       *)
(* natural number.                                                         *)
LEMMA Induction ==
  ASSUME NEW S, 0 \in S, \A n \in Nat : n \in S => n + 1 \in S
  PROVE  Nat \subseteq S
<1> DEFINE bad == Nat \ S
<1> SUFFICES ASSUME bad # {} PROVE FALSE
  OBVIOUS
<1>1. PICK n \in bad : \A k \in bad : n <= k
  BY LeastNat
<1>2. n # 0 /\ n - 1 \in Nat /\ n - 1 \in S
  BY <1>1
<1>3. QED
  BY <1>2

-----------------------------------------------------------------------------
(* The calendar.                                                           *)

(* The sizes of the calendar.                                              *)
LEMMA Sizes ==
  /\ NSec \in Nat \ {0} /\ NMin \in Nat \ {0} /\ NHour \in Nat \ {0}
  /\ NWeek \in Nat \ {0} /\ IntSize \in Nat \ {0}
  /\ MaxDays \in Nat \ {0} /\ MaxYears \in Nat \ {0}
  /\ NMon \in Nat \ {0} /\ DOMAIN MonthDays = 1..NMon
  /\ \A m \in 1..NMon : MonthDays[m] \in Nat \ {0} /\ NWeek <= MonthDays[m]
<1>1. /\ MonthDays \in Seq(Nat \ {0}) /\ MonthDays # <<>>
      /\ \A m \in DOMAIN MonthDays : NWeek <= MonthDays[m]
  BY CalendarAssumption
<1>2. NMon \in Nat /\ NMon # 0 /\ DOMAIN MonthDays = 1..NMon
  BY <1>1 DEF NMon
<1>3. \A m \in 1..NMon : MonthDays[m] \in Nat \ {0}
  BY <1>1, <1>2
<1>4. QED
  BY <1>1, <1>2, <1>3, CalendarAssumption

(* How many days of the year come before a month: a sum.                   *)
LEMMA DaysBeforeIs ==
  /\ DaysBefore \in [0..NMon -> Nat] /\ DaysBefore[0] = 0
  /\ \A m \in 1..NMon : DaysBefore[m] = DaysBefore[m - 1] + MonthDays[m]
<1> DEFINE Adds(n, g) == /\ g \in [0..n -> Nat] /\ g[0] = 0
                        /\ \A m \in 1..n : g[m] = g[m - 1] + MonthDays[m]
           S == {n \in Nat : n > NMon \/ \E g : Adds(n, g)}
           F(g) == [mon \in 0..NMon |-> IF mon = 0 THEN 0 ELSE g[mon - 1] + MonthDays[mon]]
<1>1. 0 \in S
  <2>1. Adds(0, [m \in 0..0 |-> 0])
    OBVIOUS
  <2>2. QED
    BY <2>1
<1>2. ASSUME NEW n \in Nat, n \in S PROVE n + 1 \in S
  <2>1. CASE n + 1 > NMon
    BY <2>1
  <2>2. CASE n + 1 <= NMon
    <3>1. PICK g : Adds(n, g)
      <4>1. ~(n > NMon)
        BY <2>2, Sizes
      <4> HIDE DEF Adds
      <4>2. QED
        BY <1>2, <4>1
    <3>2. MonthDays[n + 1] \in Nat
      BY <2>2, Sizes
    <3> DEFINE h == [m \in 0..n + 1 |-> IF m = n + 1 THEN g[n] + MonthDays[n + 1] ELSE g[m]]
    <3>3. h \in [0..n + 1 -> Nat] /\ h[0] = 0
      BY <3>1, <3>2
    <3>4. ASSUME NEW m \in 1..n + 1 PROVE h[m] = h[m - 1] + MonthDays[m]
      <4>1. CASE m = n + 1
        BY <4>1
      <4>2. CASE m # n + 1
        <5>1. m \in 1..n /\ m - 1 \in 0..n /\ m \in 0..n
          BY <4>2
        <5>2. h[m] = g[m] /\ h[m - 1] = g[m - 1]
          BY <5>1
        <5>3. QED
          BY <3>1, <5>1, <5>2
      <4>3. QED
        BY <4>1, <4>2
    <3>5. Adds(n + 1, h)
      BY <3>3, <3>4
    <3> HIDE DEF Adds
    <3>6. QED
      BY <3>5
  <2>3. n + 1 > NMon \/ n + 1 <= NMon
    BY Sizes
  <2> HIDE DEF S
  <2>4. QED
    BY <2>1, <2>2, <2>3
<1>3. PICK g : Adds(NMon, g)
  <2> HIDE DEF Adds
  <2>1. NMon \in S
    BY <1>1, <1>2, Induction, Sizes
  <2>2. QED
    BY <2>1, Sizes
<1>4. g = F(g)
  BY <1>3, Sizes
<1>5. DaysBefore = F(DaysBefore)
  BY <1>4 DEF DaysBefore
<1>6. ASSUME NEW m \in 1..NMon
      PROVE  DaysBefore[m] = DaysBefore[m - 1] + MonthDays[m]
  BY <1>5, Sizes
<1>7. DaysBefore[0] = 0 /\ DOMAIN DaysBefore = 0..NMon
  BY <1>5, Sizes
<1>8. \A m \in 0..NMon : DaysBefore[m] \in Nat
  <2> DEFINE T == {n \in Nat : n > NMon \/ DaysBefore[n] \in Nat}
  <2>1. 0 \in T
    BY <1>7
  <2>2. ASSUME NEW n \in Nat, n \in T PROVE n + 1 \in T
    <3>1. CASE n + 1 > NMon
      BY <3>1
    <3>2. CASE n + 1 <= NMon
      <4>1. DaysBefore[n + 1] = DaysBefore[n] + MonthDays[n + 1]
        BY <1>6, <3>2
      <4>2. DaysBefore[n] \in Nat /\ MonthDays[n + 1] \in Nat
        BY <2>2, <3>2, Sizes
      <4>3. QED
        BY <4>1, <4>2
    <3>3. QED
      BY <3>1, <3>2, Sizes
  <2>3. Nat \subseteq T
    BY <2>1, <2>2, Induction
  <2>4. QED
    BY <2>3, Sizes
<1>9. QED
  <2>1. DaysBefore = [m \in 0..NMon |-> DaysBefore[m]]
    BY <1>5
  <2>2. QED
    BY <1>6, <1>7, <1>8, <2>1

(* The days before a month and those of it are before every later month.   *)
LEMMA DaysBeforeGrows ==
  ASSUME NEW m \in 0..NMon - 1, NEW n \in 0..NMon, m < n
  PROVE  DaysBefore[m] + MonthDays[m + 1] <= DaysBefore[n]
<1> DEFINE T == {k \in Nat : m + 1 + k > NMon \/
                              DaysBefore[m] + MonthDays[m + 1] <= DaysBefore[m + 1 + k]}
<1>1. 0 \in T
  BY DaysBeforeIs, Sizes
<1>2. ASSUME NEW k \in Nat, k \in T PROVE k + 1 \in T
  <2>1. CASE m + 1 + k + 1 > NMon
    BY <2>1
  <2>2. CASE m + 1 + k + 1 <= NMon
    <3> DEFINE j == m + 1 + k
    <3>1. DaysBefore[j + 1] = DaysBefore[j] + MonthDays[j + 1]
      BY <2>2, DaysBeforeIs, Sizes
    <3>2. DaysBefore[j] \in Nat /\ MonthDays[j + 1] \in Nat
      BY <2>2, DaysBeforeIs, Sizes
    <3>3. DaysBefore[m] \in Nat /\ MonthDays[m + 1] \in Nat
      BY DaysBeforeIs, Sizes
    <3>4. DaysBefore[m] + MonthDays[m + 1] <= DaysBefore[j]
      BY <1>2, <2>2, Sizes
    <3>5. QED
      BY <3>1, <3>2, <3>3, <3>4
  <2>3. QED
    BY <2>1, <2>2, Sizes
<1>3. n - (m + 1) \in T
  <2>1. n - (m + 1) \in Nat
    BY Sizes
  <2> HIDE DEF T
  <2>2. Nat \subseteq T
    BY <1>1, <1>2, Induction
  <2>3. QED
    BY <2>1, <2>2
<1>4. QED
  BY <1>3, Sizes

(* The longest month, the shortest, and the year.                          *)
LEMMA MonthSizes ==
  /\ NDay \in Nat \ {0} /\ \A m \in 1..NMon : MonthDays[m] <= NDay
  /\ \E m \in 1..NMon : MonthDays[m] = NDay
  /\ Min(ToSet(MonthDays)) \in Nat \ {0}
  /\ \A m \in 1..NMon : Min(ToSet(MonthDays)) <= MonthDays[m]
  /\ YearDays \in Nat \ {0} /\ \A m \in 1..NMon : MonthDays[m] <= YearDays
<1> DEFINE S == ToSet(MonthDays)
<1>1. S = {MonthDays[m] : m \in 1..NMon}
  BY Sizes DEF ToSet
<1>2. \A m \in 1..NMon : MonthDays[m] <= YearDays /\ YearDays \in Nat
  <2> SUFFICES ASSUME NEW m \in 1..NMon PROVE MonthDays[m] <= YearDays /\ YearDays \in Nat
    OBVIOUS
  <2>1. DaysBefore[m - 1] + MonthDays[m - 1 + 1] <= DaysBefore[NMon]
    BY DaysBeforeGrows, Sizes
  <2>2. DaysBefore[m - 1] \in Nat /\ DaysBefore[NMon] \in Nat /\ MonthDays[m] \in Nat
    BY DaysBeforeIs, Sizes
  <2>3. QED
    BY <2>1, <2>2, Sizes DEF YearDays
<1>3. MonthDays[1] \in S /\ 1 \in 1..NMon
  BY <1>1, Sizes
<1> HIDE DEF S
<1>4. S \in SUBSET Int /\ S # {} /\ \A x \in S : 0 <= x /\ x \in Nat \ {0} /\ x <= YearDays
  BY <1>1, <1>2, <1>3, Sizes
<1>5. Min(S) \in S /\ \A y \in S : Min(S) <= y
  BY <1>4, MinOf
<1>6. YearDays \in Nat \ {0}
  BY <1>2, <1>3, Sizes
<1>7. Max(S) \in S /\ \A y \in S : y <= Max(S)
  <2>1. /\ S \in SUBSET Int /\ S # {} /\ YearDays \in Int
        /\ \A x \in S : x <= YearDays
    BY <1>4, <1>6
  <2>2. QED
    BY <2>1, MaxOf
<1>8. QED
  BY <1>1, <1>2, <1>4, <1>5, <1>6, <1>7 DEF S, NDay

-----------------------------------------------------------------------------
(* Quotients and remainders.                                               *)

(* A number is so many days and the seconds of one.                        *)
LEMMA Divide ==
  ASSUME NEW D \in Nat \ {0}, NEW a \in Int
  PROVE  /\ a \div D \in Int /\ a % D \in 0..D - 1
         /\ a = ((a \div D) * D) + (a % D)
OBVIOUS

(* What is left of a number of so many days and some seconds.              *)
LEMMA Remain ==
  ASSUME NEW D \in Nat \ {0}, NEW q \in Int, NEW r \in 0..D - 1
  PROVE  ((q * D) + r) % D = r
OBVIOUS

(* How many whole days it is.                                              *)
LEMMA Quotient ==
  ASSUME NEW D \in Nat \ {0}, NEW q \in Int, NEW r \in 0..D - 1
  PROVE  ((q * D) + r) \div D = q
OBVIOUS

(* What products are like, to cite where the factors are not numbers.      *)
LEMMA Products ==
  /\ \A a, b \in Nat \ {0} : a * b \in Nat \ {0}
  /\ \A a, b \in Int : a * b \in Int /\ a * b = b * a
  /\ \A a, b, c \in Int : (a + b) * c = (a * c) + (b * c) /\ (a - b) * c = (a * c) - (b * c)
  /\ \A a, b, c \in Int : (a * b) * c = a * (b * c)
  /\ \A a, b \in Int, c \in Nat : a <= b => a * c <= b * c
<1>1. \A a, b \in Nat \ {0} : a * b \in Nat \ {0}
  OBVIOUS
<1>2. \A a, b \in Int : a * b \in Int /\ a * b = b * a
  OBVIOUS
<1>3. \A a, b, c \in Int : (a + b) * c = (a * c) + (b * c) /\ (a - b) * c = (a * c) - (b * c)
  OBVIOUS
<1>4. \A a, b, c \in Int : (a * b) * c = a * (b * c)
  OBVIOUS
<1>5. \A a, b \in Int, c \in Nat : a <= b => a * c <= b * c
  OBVIOUS
<1>6. QED
  BY <1>1, <1>2, <1>3, <1>4, <1>5

(* To divide by a product is to divide by one factor after the other.      *)
LEMMA DivideTwice ==
  ASSUME NEW a \in Nat \ {0}, NEW b \in Nat \ {0}, NEW t \in Int
  PROVE  t \div (a * b) = (t \div a) \div b
<1> DEFINE q == t \div a
           r == t % a
           p == q \div b
           s == q % b
<1>1. q \in Int /\ r \in 0..a - 1 /\ t = (q * a) + r
  BY Divide
<1>2. p \in Int /\ s \in 0..b - 1 /\ q = (p * b) + s
  BY <1>1, Divide
<1> HIDE DEF q, r, p, s
<1>3. a * b \in Nat \ {0}
  OBVIOUS
<1>4. t = (p * (a * b)) + ((s * a) + r)
  <2>1. q * a = ((p * b) * a) + (s * a)
    BY <1>2
  <2>2. (p * b) * a = p * (a * b)
    BY <1>2
  <2>3. p * (a * b) \in Int /\ s * a \in Int
    BY <1>2
  <2>4. QED
    BY <1>1, <2>1, <2>2, <2>3
<1>5. (s * a) + r \in 0..(a * b) - 1
  <2>1. s * a <= (b - 1) * a /\ 0 <= s * a /\ s * a \in Int
    BY <1>2
  <2>2. (b - 1) * a = (a * b) - a
    OBVIOUS
  <2>3. QED
    BY <1>1, <1>3, <2>1, <2>2
<1>6. ((p * (a * b)) + ((s * a) + r)) \div (a * b) = p
  BY <1>2, <1>3, <1>5, Quotient
<1>7. QED
  BY <1>4, <1>6 DEF p, q

(* The next value, going round, that is in target, and the numbers which   *)
(* have it.                                                                *)
LEMMA NextBit ==
  ASSUME NEW N \in Nat \ {0}, NEW target \in SUBSET (0..N - 1), target # {}, NEW q \in Int,
         NEW val, val = nextSetBit(target, q % N),
         NEW r, r = q + (val - (q % N)) + (IF val < q % N THEN N ELSE 0)
  PROVE  /\ val \in target /\ r \in Int /\ q <= r /\ r % N = val
         /\ val = q % N => r = q
         /\ (val # q % N) => q < r
         /\ q % N \in target => val = q % N
         /\ \A p \in q..r - 1 : p % N \notin target
<1> DEFINE d == q \div N
           m == q % N
           on == {i \in target : i >= m}
<1>1. d \in Int /\ m \in 0..N - 1 /\ q = (d * N) + m
  BY Divide
<1>2. \A i \in target : i \in Int /\ 0 <= i /\ i < N
  OBVIOUS
<1>3. val = IF on = {} THEN Min(target) ELSE Min(on)
  BY DEF nextSetBit
<1>4. Min(target) \in target /\ \A y \in target : Min(target) <= y
  BY <1>2, MinOf
<1>5. CASE on # {}
  <2>1. on \in SUBSET Int /\ \A i \in on : 0 <= i
    BY <1>2
  <2>2. Min(on) \in on /\ \A y \in on : Min(on) <= y
    <3> HIDE DEF on
    <3>1. 0 \in Int
      OBVIOUS
    <3>2. QED
      BY <1>5, <2>1, <3>1, MinOf
  <2> HIDE DEF d, m
  <2>3. val \in target /\ val \in Int /\ val >= m /\ 0 <= val /\ val < N
    BY <1>2, <1>3, <1>5, <2>2
  <2>4. r = q + (val - m)
    BY <1>1, <2>3 DEF m
  <2>5. r = (d * N) + val /\ d * N \in Int
    BY <1>1, <2>3, <2>4
  <2>6. r % N = val
    <3>1. val \in 0..N - 1
      BY <2>3
    <3>2. QED
      BY <1>1, <2>5, <3>1, Remain
  <2>7. ASSUME NEW p \in q..r - 1 PROVE p % N \notin target
    <3> DEFINE x == p - (d * N)
    <3>1. p = (d * N) + x /\ x \in 0..N - 1 /\ m <= x /\ x < val
      BY <1>1, <2>3, <2>5
    <3> HIDE DEF x
    <3>2. ((d * N) + x) % N = x
      BY <1>1, <3>1, Remain
    <3>3. p % N = x
      BY <3>1, <3>2
    <3>4. x \notin target
      <4>1. x \in target => x \in on
        BY <1>1, <3>1
      <4>2. x \in on => val <= x
        BY <1>3, <1>5, <2>2
      <4>3. QED
        BY <2>3, <3>1, <4>1, <4>2
    <3>5. QED
      BY <3>3, <3>4
  <2>8. m \in target => val = m
    <3>1. m \in target => m \in on
      BY <1>1
    <3>2. QED
      BY <1>1, <1>3, <1>5, <2>2, <2>3, <3>1
  <2>9. q <= r /\ (val = m => r = q) /\ (val # m => q < r) /\ r \in Int
    BY <1>1, <2>3, <2>4
  <2>10. QED
    BY <2>3, <2>6, <2>7, <2>8, <2>9 DEF m
<1>6. CASE on = {}
  <2>1. val = Min(target) /\ val \in target /\ val \in Int /\ 0 <= val /\ val < N
    BY <1>2, <1>3, <1>4, <1>6
  <2>2. val < m
    BY <1>1, <1>6, <2>1
  <2> HIDE DEF d, m, on
  <2>3. r = q + (val - m) + N
    BY <2>2 DEF m
  <2>4. (d + 1) * N = (d * N) + N /\ d * N \in Int /\ (d + 1) * N \in Int /\ d + 1 \in Int
    BY <1>1
  <2>5. r = ((d + 1) * N) + val
    BY <1>1, <2>1, <2>3, <2>4
  <2>6. r % N = val
    <3>1. val \in 0..N - 1
      BY <2>1
    <3>2. QED
      BY <2>4, <2>5, <3>1, Remain
  <2>7. ASSUME NEW p \in q..r - 1 PROVE p % N \notin target
    <3>1. CASE p < (d + 1) * N
      <4> DEFINE x == p - (d * N)
      <4>1. p = (d * N) + x /\ x \in 0..N - 1 /\ m <= x
        BY <1>1, <2>4, <2>5, <3>1
      <4> HIDE DEF x
      <4>2. ((d * N) + x) % N = x
        BY <1>1, <4>1, Remain
      <4>3. x \notin target
        BY <1>1, <1>6, <4>1 DEF on
      <4>4. QED
        BY <4>1, <4>2, <4>3
    <3>2. CASE p >= (d + 1) * N
      <4> DEFINE x == p - ((d + 1) * N)
      <4>1. p = ((d + 1) * N) + x /\ x \in 0..N - 1 /\ x < val
        BY <1>1, <2>1, <2>4, <2>5, <3>2
      <4> HIDE DEF x
      <4>2. (((d + 1) * N) + x) % N = x
        BY <2>4, <4>1, Remain
      <4>3. x \notin target
        BY <1>4, <2>1, <4>1
      <4>4. QED
        BY <4>1, <4>2, <4>3
    <3>3. QED
      BY <2>4, <3>1, <3>2
  <2>8. m \notin target
    BY <1>1, <1>6 DEF on
  <2>9. q < r /\ r \in Int /\ val # m
    BY <1>1, <2>1, <2>2, <2>3
  <2>10. QED
    BY <2>1, <2>6, <2>7, <2>8, <2>9 DEF m
<1>7. QED
  BY <1>5, <1>6

-----------------------------------------------------------------------------
(* A string with a time of day.                                            *)

(* Where the string is a time of day: a task is posted at the time it was  *)
(* read for; a timer has the period of a day and, while it is in time,     *)
(* is at the right second.                                                 *)
KeptInv ==
  /\ gmtoff \in Offsets /\ str \in Strings
  /\ user \in Users \cup {"none"} /\ late \in BOOLEAN
  /\ str.kind = "time" =>
       /\ now \in Int /\ due \in Int /\ delay \in Nat
       /\ user = "post" => made \in Int /\ due = MakeTime(made, gmtoff, str.tod)
       /\ user = "schedule" => delay = 0 /\ (~late => Shows(due, gmtoff, str.tod))

(* A day has seconds.                                                      *)
LEMMA DayFacts == SecondsOfDay \in Nat \ {0}
<1>1. /\ NSec \in Nat \ {0} /\ NMin \in Nat \ {0} /\ NHour \in Nat \ {0}
  BY CalendarAssumption
<1>2. \A a, b \in Nat \ {0} : a * b \in Nat \ {0}
  OBVIOUS
<1>3. NSec * NMin \in Nat \ {0}
  BY <1>1, <1>2
<1>4. QED
  BY <1>1, <1>2, <1>3 DEF SecondsOfDay

(* What make_time() makes of a time of day: a second at which the clock    *)
(* shows it, and where the dates agree the next one.                       *)
LEMMA MadeTime ==
  ASSUME NEW n \in Int, NEW g \in Int, NEW s \in 0..SecondsOfDay - 1
  PROVE  /\ MakeTime(n, g, s) \in Int
         /\ Shows(MakeTime(n, g, s), g, s)
         /\ SameDate(n, g) => IsNextTime(MakeTime(n, g, s), n, g, s)
<1> DEFINE D == SecondsOfDay
           q == n \div D
           ready == q * D - g + s
           m == MakeTime(n, g, s)
<1>1. D \in Nat \ {0} /\ s \in 0..D - 1
  BY DayFacts
<1>2. q \in Int /\ n % D \in 0..D - 1 /\ n = (q * D) + (n % D)
  BY <1>1, Divide
<1>3. m = IF ready < n THEN ready + D ELSE ready
  BY DEF MakeTime, BegDay
<1> HIDE DEF D, q, m
<1>4. q * D \in Int
  BY <1>1, <1>2
<1>5. ready \in Int /\ m \in Int
  BY <1>1, <1>3, <1>4
<1>6. m + g = (q * D) + s \/ m + g = ((q + 1) * D) + s
  <2>1. (q + 1) * D = (q * D) + D
    BY <1>1, <1>2
  <2>2. QED
    BY <1>1, <1>3, <1>4, <2>1
<1>7. (m + g) % D = s
  <2>1. q + 1 \in Int
    BY <1>2
  <2>2. ((q * D) + s) % D = s /\ (((q + 1) * D) + s) % D = s
    BY <1>1, <1>2, <2>1, Remain
  <2>3. QED
    BY <1>6, <2>2
<1>8. Shows(m, g, s)
  BY <1>7 DEF Shows, D
<1>9. ASSUME SameDate(n, g) PROVE n <= m /\ m < n + D
  <2>1. (n + g) \div D = q /\ n + g \in Int
    BY <1>9 DEF SameDate, D, q
  <2>2. (n + g) % D \in 0..D - 1 /\ n + g = (q * D) + ((n + g) % D)
    BY <1>1, <2>1, Divide
  <2>3. PICK r \in 0..D - 1 : n + g = (q * D) + r
    BY <2>2
  <2>4. QED
    BY <1>1, <1>3, <1>4, <2>3
<1>10. QED
  BY <1>5, <1>8, <1>9 DEF IsNextTime, m, D

(* A day later the clock shows the same.                                   *)
LEMMA NextDay ==
  ASSUME NEW t \in Int, NEW g \in Int, NEW s \in Int, Shows(t, g, s)
  PROVE  Shows(t + SecondsOfDay, g, s)
<1> DEFINE D == SecondsOfDay
           a == t + g
<1>1. D \in Nat \ {0} /\ a \in Int
  BY DayFacts
<1>2. /\ a \div D \in Int /\ a % D \in 0..D - 1
      /\ a = ((a \div D) * D) + (a % D)
  BY <1>1, Divide
<1>3. PICK q \in Int, r \in 0..D - 1 : a = (q * D) + r /\ r = a % D
  BY <1>2
<1>4. r = s
  BY <1>3 DEF Shows
<1>5. (t + D) + g = ((q + 1) * D) + r
  <2> HIDE DEF D
  <2>1. (q + 1) * D = (q * D) + D /\ q * D \in Int
    BY <1>1, <1>3
  <2>2. QED
    BY <1>1, <1>3, <2>1
<1>6. ((t + D) + g) % D = r
  <2>1. q + 1 \in Int /\ r \in 0..D - 1
    BY <1>3
  <2>2. (((q + 1) * D) + r) % D = r
    BY <1>1, <2>1, Remain
  <2>3. QED
    BY <1>5, <2>2
<1>7. QED
  BY <1>4, <1>6 DEF Shows

(* A string with a time of day is nothing else.                            *)
LEMMA TimeStrings ==
  ASSUME str \in Strings, str.kind = "time"
  PROVE  /\ str.tod \in 0..SecondsOfDay - 1
         /\ isTime(str.kind) /\ isGood(str.kind) /\ ~isSchedule(str.kind) /\ ~isInterval(str.kind)
         /\ Readable
<1>1. str.tod \in TimesOfDay
  BY DEF Strings
<1>2. QED
  BY <1>1, TimesAssumption DEF isTime, isGood, isSchedule, isInterval, Readable

(* KeptInv holds at first.                                                 *)
LEMMA InitKept == Init => KeptInv
<1> SUFFICES ASSUME Init PROVE KeptInv
  OBVIOUS
<1>1. /\ gmtoff \in Offsets /\ str \in Strings /\ user = "none" /\ late = FALSE
      /\ due = NoTime /\ delay = 0 /\ now \in MinNow..MaxNow
  BY DEF Init
<1>2. now \in Int
  BY <1>1, TimesAssumption
<1>3. due \in Int
  BY <1>1 DEF NoTime
<1>4. user # "post" /\ user # "schedule" /\ delay \in Nat
  BY <1>1
<1>5. late \in BOOLEAN
  BY <1>1
<1>6. QED
  BY <1>1, <1>2, <1>3, <1>4, <1>5 DEF KeptInv

(* A call that is given the string.                                        *)
LEMMA KeptCalls ==
  ASSUME KeptInv, str.kind = "time",
         \/ Post \/ CreateScheduled
         \/ \E period \in Periods : CreateFrom(period)
         \/ \E start, period \in Periods : CreateDelayed(start, period)
  PROVE  KeptInv'
<1> DEFINE first == MakeTime(now, gmtoff, str.tod)
<1>1. /\ str.tod \in 0..SecondsOfDay - 1 /\ Readable /\ ~isInterval(str.kind)
      /\ MakeTimePoint = first
  BY TimeStrings DEF KeptInv, MakeTimePoint
<1>2. now \in Int /\ gmtoff \in Int /\ gmtoff \in Offsets /\ str \in Strings
  BY TimesAssumption DEF KeptInv
<1>3. first \in Int /\ Shows(first, gmtoff, str.tod)
  BY <1>1, <1>2, MadeTime
<1>4. ASSUME NEW u \in Users, NEW p \in Nat, Use(u, p, first), u = "schedule" => p = 0
      PROVE  KeptInv'
  <2>1. /\ user' = u /\ made' = now /\ delay' = p /\ due' = first
        /\ UNCHANGED <<now, gmtoff, str, cron, late>>
    BY <1>4 DEF Use
  <2>2. QED
    BY <1>2, <1>3, <1>4, <2>1 DEF KeptInv
<1>5. CASE Post
  <2>1. Use("post", 0, first)
    BY <1>1, <1>5 DEF Post
  <2>2. QED
    BY <1>4, <2>1 DEF Users
<1>6. CASE CreateScheduled
  <2>1. Use("schedule", 0, first)
    BY <1>1, <1>6 DEF CreateScheduled
  <2>2. QED
    BY <1>4, <2>1 DEF Users
<1>7. CASE \E period \in Periods : CreateFrom(period)
  <2>1. PICK period \in Periods : Use("start", period, first)
    BY <1>1, <1>7 DEF CreateFrom
  <2>2. QED
    BY <1>4, <2>1, TimesAssumption DEF Users
<1>8. CASE \E start, period \in Periods : CreateDelayed(start, period)
  BY <1>8 DEF CreateDelayed
<1>9. QED
  BY <1>5, <1>6, <1>7, <1>8

(* A run that is in time is at the right second, and so is the next.       *)
LEMMA KeptRun ==
  ASSUME KeptInv, str.kind = "time", Run
  PROVE  KeptInv'
<1>1. /\ UNCHANGED <<now, gmtoff, user, str, delay>> /\ user # "post"
      /\ now >= due /\ due' = now + MakeDelay /\ late' = (late \/ now > due)
  BY DEF Run
<1>2. /\ now \in Int /\ due \in Int /\ delay \in Nat /\ gmtoff \in Int
      /\ str.tod \in 0..SecondsOfDay - 1 /\ SecondsOfDay \in Nat
  BY TimesAssumption, TimeStrings, DayFacts DEF KeptInv
<1>3. MakeDelay = IF delay = 0 THEN SecondsOfDay ELSE delay
  BY TimeStrings DEF MakeDelay, KeptInv
<1>4. due' \in Int
  BY <1>1, <1>2, <1>3
<1>5. ASSUME user = "schedule", ~late' PROVE Shows(due', gmtoff, str.tod)
  <2>1. late' = TRUE \/ (late = FALSE /\ ~(now > due))
    BY <1>1 DEF KeptInv
  <2>2. ~late /\ now = due
    BY <1>1, <1>2, <1>5, <2>1
  <2>3. due' = due + SecondsOfDay
    BY <1>1, <1>3, <1>5, <2>2 DEF KeptInv
  <2>4. Shows(due, gmtoff, str.tod)
    BY <1>5, <2>2 DEF KeptInv
  <2>5. QED
    BY <1>2, <2>3, <2>4, NextDay
<1>6. QED
  BY <1>1, <1>4, <1>5 DEF KeptInv

(* Other steps do not change what the string is, nor which second a timer  *)
(* is at.                                                                  *)
LEMMA KeptStep == KeptInv /\ [Next]_vars => KeptInv'
<1> SUFFICES ASSUME KeptInv, [Next]_vars PROVE KeptInv'
  OBVIOUS
<1>1. CASE str.kind # "time"
  <2>1. /\ UNCHANGED <<gmtoff, str>> /\ user' \in Users \cup {"none"}
        /\ late' \in BOOLEAN
    BY DEF Next, Post, CreateScheduled, CreateFrom, CreateDelayed, Use, Run, Elapse, vars,
           KeptInv, Users
  <2>2. QED
    BY <1>1, <2>1 DEF KeptInv
<1>2. CASE str.kind = "time"
  <2>1. CASE Elapse
    <3>1. /\ UNCHANGED <<gmtoff, user, str, made, delay, due, late>>
          /\ \E d \in 0..MaxLate : now' = due + d
      BY <2>1 DEF Elapse
    <3>2. now' \in Int
      BY <1>2, <3>1, TimesAssumption DEF KeptInv
    <3>3. QED
      BY <3>1, <3>2 DEF KeptInv
  <2>2. CASE UNCHANGED vars
    BY <2>2 DEF vars, KeptInv
  <2>3. QED
    BY <1>2, <2>1, <2>2, KeptCalls, KeptRun DEF Next
<1>3. QED
  BY <1>1, <1>2

(* A string with a time of day means the next second at which the local    *)
(* clock shows it, where the local date is that of UTC; and a timer with   *)
(* such a schedule keeps to it as long as each of its runs is in time      *)
(* (time_parser.cpp:133-153, timer_manager_base.cpp:59, 85-91).            *)
THEOREM TimeOfDayKeptHolds == Spec => []TimeOfDayKept
<1>1. KeptInv => TimeOfDayKept
  <2> SUFFICES ASSUME KeptInv, str.kind = "time", user # "none" PROVE TimeOfDayKept
    BY DEF TimeOfDayKept
  <2>1. gmtoff \in Int /\ str.tod \in 0..SecondsOfDay - 1
    BY TimesAssumption, TimeStrings DEF KeptInv
  <2>2. user = "post" /\ SameDate(made, gmtoff) => IsNextTime(due, made, gmtoff, str.tod)
    BY <2>1, MadeTime DEF KeptInv
  <2>3. QED
    BY <2>2 DEF KeptInv, TimeOfDayKept
<1>2. QED
  BY <1>1, InitKept, KeptStep, PTL DEF Spec

-----------------------------------------------------------------------------
(* Days, and the months they are in.                                       *)

(* The month and the day of the month of a day, and the first day of a     *)
(* month.                                                                  *)
MonthOf(day) == Max({m \in Months : DaysBefore[m] <= day % YearDays})
MdayOf(day) == (day % YearDays) - DaysBefore[MonthOf(day)] + 1
FirstDay(y, m) == (y * YearDays) + DaysBefore[m]

(* The numbers of the months.                                              *)
LEMMA MonthsAre == /\ Months = 0..NMon - 1 /\ 0 \in Months /\ NMon \in 0..NMon
                   /\ \A m \in Months : m \in 0..NMon /\ m + 1 \in 1..NMon /\ m \in Nat
BY Sizes DEF Months

(* The days before a month, and those of it, are days of the year.         *)
LEMMA DaysBeforeInYear ==
  ASSUME NEW m \in Months
  PROVE  /\ DaysBefore[m] \in Nat /\ MonthDays[m + 1] \in Nat \ {0}
         /\ DaysBefore[m + 1] = DaysBefore[m] + MonthDays[m + 1]
         /\ DaysBefore[m + 1] <= YearDays /\ DaysBefore[m] < YearDays
         /\ YearDays \in Nat \ {0}
<1>1. /\ m \in 0..NMon - 1 /\ NMon \in 0..NMon /\ m < NMon /\ m + 1 \in 1..NMon /\ m \in 0..NMon
      /\ m \in Int
  BY MonthsAre, Sizes
<1>2. DaysBefore[m] + MonthDays[m + 1] <= DaysBefore[NMon]
  BY <1>1, DaysBeforeGrows
<1>3. DaysBefore[m] \in Nat /\ DaysBefore[m + 1] = DaysBefore[m + 1 - 1] + MonthDays[m + 1]
  BY <1>1, DaysBeforeIs
<1>4. m + 1 - 1 = m
  BY <1>1
<1>5. MonthDays[m + 1] \in Nat \ {0}
  BY <1>1, Sizes
<1>6. QED
  BY <1>2, <1>3, <1>4, <1>5, MonthSizes DEF YearDays

(* A month has the days of the year from its first to the one before the   *)
(* next month.                                                             *)
LEMMA MonthOfDay ==
  ASSUME NEW yd \in 0..YearDays - 1, NEW m \in Months,
         DaysBefore[m] <= yd, yd < DaysBefore[m + 1]
  PROVE  m = Max({n \in Months : DaysBefore[n] <= yd})
<1> DEFINE S == {n \in Months : DaysBefore[n] <= yd}
<1>1. m \in S
  OBVIOUS
<1>2. ASSUME NEW n \in S PROVE n <= m
  <2> SUFFICES ASSUME n > m PROVE FALSE
    BY MonthsAre
  <2>1. m + 1 = n \/ m + 1 < n
    BY MonthsAre
  <2>2. CASE m + 1 < n
    <3>1. m + 1 \in 0..NMon - 1 /\ n \in 0..NMon /\ m + 1 \in Months
      BY <2>2, MonthsAre, Sizes
    <3>2. DaysBefore[m + 1] + MonthDays[m + 1 + 1] <= DaysBefore[n]
      BY <2>2, <3>1, DaysBeforeGrows
    <3>3. DaysBefore[m + 1] \in Nat /\ MonthDays[m + 1 + 1] \in Nat /\ DaysBefore[n] \in Nat
      BY <3>1, DaysBeforeInYear
    <3>4. QED
      BY <3>2, <3>3
  <2>3. CASE m + 1 = n
    BY <2>3, DaysBeforeInYear
  <2>4. QED
    BY <2>1, <2>2, <2>3
<1>3. S \in SUBSET Int /\ S # {} /\ m \in Int
  BY <1>1, MonthsAre
<1> HIDE DEF S
<1>4. Max(S) \in S /\ \A y \in S : y <= Max(S)
  BY <1>2, <1>3, MaxOf
<1>5. Max(S) = m
  <2>1. Max(S) <= m /\ m <= Max(S) /\ Max(S) \in Int /\ m \in Int
    BY <1>1, <1>2, <1>3, <1>4
  <2>2. QED
    BY <2>1
<1>6. QED
  BY <1>5 DEF S

(* Every day is a day of the month of a year ...                           *)
LEMMA DayIs ==
  ASSUME NEW day \in Int
  PROVE  /\ MonthOf(day) \in Months /\ day \div YearDays \in Int
         /\ MdayOf(day) \in 1..MonthDays[MonthOf(day) + 1]
         /\ day = FirstDay(day \div YearDays, MonthOf(day)) + MdayOf(day) - 1
<1> DEFINE yd == day % YearDays
           S == {n \in Months : DaysBefore[n] <= yd}
           m == Max(S)
<1>1. day \div YearDays \in Int /\ yd \in 0..YearDays - 1 /\ day = ((day \div YearDays) * YearDays) + yd
  BY MonthSizes, Divide
<1>2. YearDays \in Nat \ {0}
  BY MonthSizes
<1> HIDE DEF yd
<1>3. S \in SUBSET Int /\ S # {} /\ \A n \in S : n <= NMon
  <2>1. 0 \in S
    BY <1>1, MonthsAre, DaysBeforeIs
  <2>2. QED
    BY <2>1, MonthsAre
<1>4. m \in S /\ \A n \in S : n <= m
  <2> HIDE DEF S
  <2>1. NMon \in Int
    BY Sizes
  <2>2. QED
    BY <1>3, <2>1, MaxOf
<1> HIDE DEF m
<1>5. m \in Months /\ DaysBefore[m] <= yd
  BY <1>4
<1>6. yd < DaysBefore[m + 1]
  <2> SUFFICES ASSUME DaysBefore[m + 1] <= yd PROVE FALSE
    BY <1>1, <1>5, DaysBeforeInYear
  <2>1. CASE m + 1 \in Months
    <3>1. m + 1 \in S /\ m \in Int
      BY <2>1, <1>5, MonthsAre
    <3>2. QED
      BY <1>4, <3>1
  <2>2. CASE m + 1 \notin Months
    <3>1. m + 1 = NMon
      BY <2>2, <1>5, MonthsAre, Sizes
    <3>2. QED
      BY <3>1, <1>1, <1>2 DEF YearDays
  <2>3. QED
    BY <2>1, <2>2
<1>7. MonthOf(day) = m
  BY DEF MonthOf, m, S, yd
<1>8. MdayOf(day) = yd - DaysBefore[m] + 1
  BY <1>7 DEF MdayOf, yd
<1>9. /\ DaysBefore[m] \in Nat /\ MonthDays[m + 1] \in Nat
      /\ DaysBefore[m + 1] = DaysBefore[m] + MonthDays[m + 1]
  BY <1>5, DaysBeforeInYear
<1>10. MdayOf(day) \in 1..MonthDays[m + 1]
  BY <1>1, <1>5, <1>6, <1>8, <1>9
<1>11. (day \div YearDays) * YearDays \in Int
  BY <1>1, <1>2
<1>12. day = FirstDay(day \div YearDays, m) + MdayOf(day) - 1
  <2> DEFINE y == (day \div YearDays) * YearDays
  <2>1. FirstDay(day \div YearDays, m) = y + DaysBefore[m] /\ y \in Int /\ day = y + yd
    BY <1>1, <1>11 DEF FirstDay
  <2> HIDE DEF y
  <2>2. QED
    BY <1>1, <1>8, <1>9, <2>1
<1>13. QED
  BY <1>1, <1>5, <1>7, <1>10, <1>12

(* ... and of no other.                                                    *)
LEMMA DayOf ==
  ASSUME NEW y \in Int, NEW m \in Months, NEW v \in 1..MonthDays[m + 1]
  PROVE  LET day == FirstDay(y, m) + v - 1
         IN  /\ day \in Int /\ day \div YearDays = y /\ MonthOf(day) = m /\ MdayOf(day) = v
<1> DEFINE yd == DaysBefore[m] + v - 1
           day == (y * YearDays) + yd
<1>1. /\ DaysBefore[m] \in Nat /\ MonthDays[m + 1] \in Nat /\ YearDays \in Nat \ {0}
      /\ DaysBefore[m + 1] = DaysBefore[m] + MonthDays[m + 1]
      /\ DaysBefore[m + 1] <= YearDays
  BY DaysBeforeInYear
<1>2. yd \in 0..YearDays - 1 /\ DaysBefore[m] <= yd /\ yd < DaysBefore[m + 1] /\ v \in Int
  BY <1>1
<1>3. y * YearDays \in Int
  BY <1>1
<1>4. FirstDay(y, m) + v - 1 = day /\ day \in Int
  BY <1>1, <1>2, <1>3 DEF FirstDay
<1>5. yd - DaysBefore[m] + 1 = v
  BY <1>1, <1>2
<1> HIDE DEF yd
<1>6. day % YearDays = yd /\ day \div YearDays = y
  BY <1>1, <1>2, Remain, Quotient
<1> HIDE DEF day
<1>7. MonthOf(day) = m
  BY <1>2, <1>6, MonthOfDay DEF MonthOf
<1>8. MdayOf(day) = v
  BY <1>5, <1>6, <1>7 DEF MdayOf
<1>9. QED
  BY <1>4, <1>6, <1>7, <1>8

-----------------------------------------------------------------------------
(* Times, and the dates they have.                                         *)

(* Fields that move by themselves, in seconds, and how many values each    *)
(* has.                                                                    *)
Unit(f) == CASE f = "sec" -> 1 [] f = "min" -> NSec [] f = "hour" -> NSec * NMin
             [] f = "mday" -> SecondsOfDay
Size(f) == CASE f = "sec" -> NSec [] f = "min" -> NMin [] f = "hour" -> NHour
DayAt(t) == t \div SecondsOfDay
MonthAt(t) == MonthOf(DayAt(t))
YearAt(t) == DayAt(t) \div YearDays

(* The units and sizes of the fields are numbers, a day is what they make. *)
LEMMA Units ==
  /\ \A f \in {"sec", "min", "hour"} : Unit(f) \in Nat \ {0} /\ Size(f) \in Nat \ {0}
  /\ NSec * NMin \in Nat \ {0} /\ SecondsOfDay \in Nat \ {0}
  /\ SecondsOfDay = (NSec * NMin) * NHour
<1>1. NSec * NMin \in Nat \ {0}
  BY Sizes, Products
<1>2. SecondsOfDay \in Nat \ {0} /\ SecondsOfDay = (NSec * NMin) * NHour
  BY <1>1, Sizes, Products DEF SecondsOfDay
<1>3. QED
  BY <1>1, <1>2, Sizes DEF Unit, Size

(* A time is so many days, hours, minutes and seconds.                     *)
LEMMA TimeIs ==
  ASSUME NEW t \in Int
  PROVE  /\ DayAt(t) \in Int /\ t \div NSec \in Int /\ t \div (NSec * NMin) \in Int
         /\ t % NSec \in 0..NSec - 1 /\ (t \div NSec) % NMin \in 0..NMin - 1
         /\ (t \div (NSec * NMin)) % NHour \in 0..NHour - 1
         /\ t = ((t \div NSec) * NSec) + (t % NSec)
         /\ t \div NSec = ((t \div (NSec * NMin)) * NMin) + ((t \div NSec) % NMin)
         /\ t \div (NSec * NMin) = (DayAt(t) * NHour) + ((t \div (NSec * NMin)) % NHour)
<1>1. t \div NSec \in Int /\ t % NSec \in 0..NSec - 1 /\ t = ((t \div NSec) * NSec) + (t % NSec)
  BY Sizes, Divide
<1>2. t \div (NSec * NMin) = (t \div NSec) \div NMin
  BY Sizes, DivideTwice
<1>3. DayAt(t) = (t \div (NSec * NMin)) \div NHour
  BY Sizes, Units, DivideTwice DEF DayAt
<1> DEFINE m == t \div NSec
           h == t \div (NSec * NMin)
<1>4. /\ h \in Int /\ m % NMin \in 0..NMin - 1 /\ m = (h * NMin) + (m % NMin)
  <2> HIDE DEF m
  <2>1. m \in Int
    BY <1>1 DEF m
  <2>2. h = m \div NMin
    BY <1>2 DEF m
  <2> HIDE DEF h
  <2>3. QED
    BY <2>1, <2>2, Sizes, Divide
<1>5. /\ DayAt(t) \in Int /\ h % NHour \in 0..NHour - 1 /\ h = (DayAt(t) * NHour) + (h % NHour)
  <2> HIDE DEF h
  <2>1. DayAt(t) = h \div NHour /\ h \in Int
    BY <1>3, <1>4 DEF h
  <2>2. NHour \in Nat \ {0}
    BY Sizes
  <2>3. /\ h \div NHour \in Int /\ h % NHour \in 0..NHour - 1
        /\ h = ((h \div NHour) * NHour) + (h % NHour)
    BY <2>1, <2>2, Divide
  <2>4. QED
    BY <2>1, <2>3
<1>6. QED
  BY <1>1, <1>4, <1>5

(* The date of a time is a date.                                           *)
LEMMA LocalTimeIs ==
  ASSUME NEW t \in Int
  PROVE  /\ LocalTime(t) = [sec |-> t % NSec, min |-> (t \div NSec) % NMin,
                            hour |-> (t \div (NSec * NMin)) % NHour,
                            mday |-> MdayOf(DayAt(t)), mon |-> MonthAt(t),
                            year |-> YearAt(t), wday |-> DayAt(t) % NWeek]
         /\ LocalTime(t) \in Dates
<1>1. LocalTime(t) = [sec |-> t % NSec, min |-> (t \div NSec) % NMin,
                      hour |-> (t \div (NSec * NMin)) % NHour,
                      mday |-> MdayOf(DayAt(t)), mon |-> MonthAt(t),
                      year |-> YearAt(t), wday |-> DayAt(t) % NWeek]
  BY DEF LocalTime, DayAt, MonthAt, YearAt, MdayOf, MonthOf
<1>2. /\ t % NSec \in Nat /\ (t \div NSec) % NMin \in Nat /\ (t \div (NSec * NMin)) % NHour \in Nat
  <2>1. \A N \in Nat \ {0} : \A x \in 0..N - 1 : x \in Nat
    OBVIOUS
  <2>2. QED
    BY <2>1, TimeIs, Sizes
<1>3. MdayOf(DayAt(t)) \in Nat /\ MonthAt(t) \in Months /\ YearAt(t) \in Int
  <2>1. DayAt(t) \in Int
    BY TimeIs
  <2>2. MonthOf(DayAt(t)) + 1 \in 1..NMon
    BY <2>1, DayIs, MonthsAre
  <2>3. MonthDays[MonthOf(DayAt(t)) + 1] \in Nat
    BY <2>2, Sizes
  <2>4. QED
    BY <2>1, <2>3, DayIs DEF MonthAt, YearAt
<1>4. DayAt(t) % NWeek \in Nat
  <2>1. DayAt(t) \in Int /\ NWeek \in Nat \ {0}
    BY TimeIs, Sizes
  <2>2. DayAt(t) % NWeek \in 0..NWeek - 1
    BY <2>1, Divide
  <2>3. QED
    BY <2>1, <2>2
<1>5. QED
  BY <1>1, <1>2, <1>3, <1>4 DEF Dates

(* The seconds of a date are those of its days and its hours.              *)
Total(day, h, m, s) == ((day * NHour + h) * NMin + m) * NSec + s

(* The time of a day, an hour, a minute and a second is their sum, ...     *)
LEMMA TotalAdds ==
  ASSUME NEW day \in Int, NEW h \in Int, NEW m \in Int, NEW s \in Int
  PROVE  /\ Total(day, h, m, s) \in Int
         /\ Total(day, h, m, s) = (day * SecondsOfDay) + (h * (NSec * NMin)) + (m * NSec) + s
<1> DEFINE x == day * NHour
           y == (x + h) * NMin
<1>1. x \in Int /\ y \in Int /\ (y + m) * NSec \in Int
  BY Sizes, Products
<1>2. y = (x * NMin) + (h * NMin)
  BY <1>1, Sizes, Products
<1>3. (y + m) * NSec = (y * NSec) + (m * NSec)
  BY <1>1, Sizes, Products
<1>4. y * NSec = ((x * NMin) * NSec) + ((h * NMin) * NSec)
  <2>1. x * NMin \in Int /\ h * NMin \in Int
    BY <1>1, Sizes, Products
  <2>2. QED
    BY <1>2, <2>1, Sizes, Products
<1>5. (h * NMin) * NSec = h * (NSec * NMin)
  BY Sizes, Products
<1>6. (x * NMin) * NSec = day * SecondsOfDay
  <2>1. (x * NMin) * NSec = x * (NSec * NMin) /\ NSec * NMin \in Int
    BY <1>1, Sizes, Products
  <2>2. (day * NHour) * (NSec * NMin) = day * (NHour * (NSec * NMin))
    BY <2>1, Sizes, Products
  <2>3. NHour * (NSec * NMin) = SecondsOfDay
    BY <2>1, Sizes, Units, Products
  <2>4. QED
    BY <2>1, <2>2, <2>3
<1>7. /\ (x * NMin) * NSec \in Int /\ (h * NMin) * NSec \in Int /\ m * NSec \in Int
  BY <1>1, Sizes, Products
<1>8. Total(day, h, m, s) = (y + m) * NSec + s
  BY DEF Total
<1> HIDE DEF x, y
<1>9. QED
  BY <1>1, <1>3, <1>4, <1>5, <1>6, <1>7, <1>8

(* ... so another day makes it another time by as many days, ...           *)
LEMMA DayShifts ==
  ASSUME NEW day \in Int, NEW h \in Int, NEW m \in Int, NEW s \in Int, NEW n \in Int
  PROVE  Total(n, h, m, s) = Total(day, h, m, s) + ((n - day) * SecondsOfDay)
<1> DEFINE D == SecondsOfDay
           A == NSec * NMin
<1>1. D \in Int /\ A \in Int /\ NSec \in Int
  BY Units, Sizes
<1>2. /\ Total(day, h, m, s) = (day * D) + (h * A) + (m * NSec) + s
      /\ Total(n, h, m, s) = (n * D) + (h * A) + (m * NSec) + s
  BY TotalAdds
<1> HIDE DEF D, A
<1>3. (n - day) * D = (n * D) - (day * D)
  BY <1>1, Products
<1>4. /\ day * D \in Int /\ h * A \in Int /\ m * NSec \in Int /\ n * D \in Int
  BY <1>1, Products
<1>5. Total(n, h, m, s) = Total(day, h, m, s) + ((n - day) * D)
  BY <1>2, <1>3, <1>4
<1>6. QED
  BY <1>5 DEF D, A

(* ... another hour by as many hours, ...                                  *)
LEMMA HourShifts ==
  ASSUME NEW day \in Int, NEW h \in Int, NEW m \in Int, NEW s \in Int, NEW n \in Int
  PROVE  Total(day, n, m, s) = Total(day, h, m, s) + ((n - h) * (NSec * NMin))
<1> DEFINE D == SecondsOfDay
           A == NSec * NMin
<1>1. D \in Int /\ A \in Int /\ NSec \in Int
  BY Units, Sizes
<1>2. /\ Total(day, h, m, s) = (day * D) + (h * A) + (m * NSec) + s
      /\ Total(day, n, m, s) = (day * D) + (n * A) + (m * NSec) + s
  BY TotalAdds
<1> HIDE DEF D, A
<1>3. (n - h) * A = (n * A) - (h * A)
  BY <1>1, Products
<1>4. /\ day * D \in Int /\ h * A \in Int /\ m * NSec \in Int /\ n * A \in Int
  BY <1>1, Products
<1>5. Total(day, n, m, s) = Total(day, h, m, s) + ((n - h) * A)
  BY <1>2, <1>3, <1>4
<1>6. QED
  BY <1>5 DEF D, A

(* ... another minute by as many minutes ...                               *)
LEMMA MinShifts ==
  ASSUME NEW day \in Int, NEW h \in Int, NEW m \in Int, NEW s \in Int, NEW n \in Int
  PROVE  Total(day, h, n, s) = Total(day, h, m, s) + ((n - m) * NSec)
<1> DEFINE D == SecondsOfDay
           A == NSec * NMin
<1>1. D \in Int /\ A \in Int /\ NSec \in Int
  BY Units, Sizes
<1>2. /\ Total(day, h, m, s) = (day * D) + (h * A) + (m * NSec) + s
      /\ Total(day, h, n, s) = (day * D) + (h * A) + (n * NSec) + s
  BY TotalAdds
<1> HIDE DEF D, A
<1>3. (n - m) * NSec = (n * NSec) - (m * NSec)
  BY <1>1, Products
<1>4. /\ day * D \in Int /\ h * A \in Int /\ m * NSec \in Int /\ n * NSec \in Int
  BY <1>1, Products
<1>5. Total(day, h, n, s) = Total(day, h, m, s) + ((n - m) * NSec)
  BY <1>2, <1>3, <1>4
<1>6. QED
  BY <1>5 DEF D, A

(* ... and another second by as many seconds.                              *)
LEMMA SecShifts ==
  ASSUME NEW day \in Int, NEW h \in Int, NEW m \in Int, NEW s \in Int, NEW n \in Int
  PROVE  Total(day, h, m, n) = Total(day, h, m, s) + (n - s)
<1> DEFINE x == (day * NHour + h) * NMin + m
           y == x * NSec
<1>1. day * NHour + h \in Int
  BY Sizes, Products
<1>2. x \in Int
  BY <1>1, Sizes, Products
<1>3. Total(day, h, m, n) = y + n /\ Total(day, h, m, s) = y + s
  BY DEF Total
<1> HIDE DEF x
<1>4. y \in Int
  BY <1>2, Sizes, Products
<1> HIDE DEF y
<1>5. QED
  BY <1>3, <1>4

(* mktime() of a date of localtime_r() is the time it was made of.         *)
LEMMA SecondsAre ==
  ASSUME NEW t \in Int
  PROVE  /\ Seconds(LocalTime(t)) = t
         /\ Total(DayAt(t), LocalTime(t).hour, LocalTime(t).min, LocalTime(t).sec) = t
<1> DEFINE d == LocalTime(t)
           day == FirstDay(d.year, d.mon) + d.mday - 1
<1>1. d.hour = (t \div (NSec * NMin)) % NHour /\ d.min = (t \div NSec) % NMin /\ d.sec = t % NSec
      /\ d.mday = MdayOf(DayAt(t)) /\ d.mon = MonthAt(t) /\ d.year = YearAt(t)
  BY LocalTimeIs
<1>2. day = DayAt(t)
  BY <1>1, TimeIs, DayIs DEF MonthAt, YearAt
<1>3. Total(DayAt(t), d.hour, d.min, d.sec) = t
  BY <1>1, TimeIs DEF Total
<1>4. Seconds(d) = Total(day, d.hour, d.min, d.sec)
  BY DEF Seconds, Total, FirstDay
<1>5. QED
  BY <1>2, <1>3, <1>4

(* The second, the minute and the hour of a time.                          *)
LEMMA FieldIs ==
  ASSUME NEW t \in Int, NEW f \in {"sec", "min", "hour"}
  PROVE  /\ LocalTime(t)[f] = (t \div Unit(f)) % Size(f)
         /\ LocalTime(t)[f] \in 0..Size(f) - 1 /\ LocalTime(t)[f] \in Int
         /\ t \div Unit(f) \in Int
<1>1. t \div 1 = t
  OBVIOUS
<1>2. \A N \in Nat \ {0} : \A x \in 0..N - 1 : x \in Int
  OBVIOUS
<1> DEFINE A == NSec * NMin
<1>3. /\ LocalTime(t)["sec"] = t % NSec
      /\ LocalTime(t)["min"] = (t \div NSec) % NMin
      /\ LocalTime(t)["hour"] = (t \div A) % NHour
  BY LocalTimeIs
<1>4. /\ t % NSec \in 0..NSec - 1 /\ (t \div NSec) % NMin \in 0..NMin - 1
      /\ (t \div A) % NHour \in 0..NHour - 1
      /\ t \div NSec \in Int /\ t \div A \in Int
  BY TimeIs
<1>5. /\ Unit("sec") = 1 /\ Unit("min") = NSec /\ Unit("hour") = A
      /\ Size("sec") = NSec /\ Size("min") = NMin /\ Size("hour") = NHour
  BY DEF Unit, Size
<1> HIDE DEF A
<1>6. CASE f = "sec"
  BY <1>1, <1>2, <1>3, <1>4, <1>5, <1>6, Sizes
<1>7. CASE f = "min"
  BY <1>2, <1>3, <1>4, <1>5, <1>7, Sizes
<1>8. CASE f = "hour"
  BY <1>2, <1>3, <1>4, <1>5, <1>8, Sizes
<1>9. QED
  BY <1>6, <1>7, <1>8

(* The other fields of its date, and the day they make.                    *)
LEMMA OtherFields ==
  ASSUME NEW t \in Int
  PROVE  LET d == LocalTime(t)
         IN  /\ d.mday = MdayOf(DayAt(t)) /\ d.mon = MonthAt(t) /\ d.year = YearAt(t)
             /\ d.wday = DayAt(t) % NWeek /\ d.sec = t % NSec
             /\ d.hour \in Int /\ d.min \in Int /\ d.sec \in Int /\ d.mday \in Int
             /\ d.mon \in Months /\ d.year \in Int /\ DayAt(t) \in Int
             /\ DayAt(t) = FirstDay(d.year, d.mon) + d.mday - 1
             /\ FirstDay(d.year, d.mon) \in Int
             /\ d.mday \in 1..MonthDays[d.mon + 1]
<1>1. LocalTime(t) \in Dates
  BY LocalTimeIs
<1>2. FirstDay(LocalTime(t).year, LocalTime(t).mon) \in Int
  <2> DEFINE y == LocalTime(t).year
             m == LocalTime(t).mon
  <2>1. y \in Int /\ m \in Months
    BY <1>1 DEF Dates
  <2> HIDE DEF y, m
  <2>2. DaysBefore[m] \in Nat /\ YearDays \in Nat
    BY <2>1, DaysBeforeInYear
  <2>3. y * YearDays \in Int
    BY <2>1, <2>2, Products
  <2>4. FirstDay(y, m) \in Int
    BY <2>2, <2>3 DEF FirstDay
  <2>5. QED
    BY <2>4 DEF y, m
<1>3. DayAt(t) \in Int
  BY TimeIs
<1>4. /\ LocalTime(t).mday = MdayOf(DayAt(t)) /\ LocalTime(t).mon = MonthAt(t)
      /\ LocalTime(t).year = YearAt(t)
      /\ LocalTime(t).wday = DayAt(t) % NWeek /\ LocalTime(t).sec = t % NSec
  BY LocalTimeIs
<1>5. /\ LocalTime(t).hour \in Int /\ LocalTime(t).min \in Int /\ LocalTime(t).sec \in Int
      /\ LocalTime(t).mday \in Int /\ LocalTime(t).mon \in Months /\ LocalTime(t).year \in Int
  BY <1>1 DEF Dates
<1>6. /\ MdayOf(DayAt(t)) \in 1..MonthDays[MonthAt(t) + 1]
      /\ DayAt(t) = FirstDay(YearAt(t), MonthAt(t)) + MdayOf(DayAt(t)) - 1
  BY <1>3, DayIs DEF MonthAt, YearAt
<1>7. QED
  BY <1>2, <1>3, <1>4, <1>5, <1>6

(* A field set to v is so many seconds more or less.                       *)
LEMMA SetIs ==
  ASSUME NEW t \in Int, NEW f \in {"sec", "min", "hour"}, NEW v \in Int
  PROVE  setField(LocalTime(t), f, v) = LocalTime(t + ((v - LocalTime(t)[f]) * Unit(f)))
<1> DEFINE d == LocalTime(t)
           e == [d EXCEPT ![f] = v]
           day == FirstDay(d.year, d.mon) + d.mday - 1
<1>1. d = [sec |-> d.sec, min |-> d.min, hour |-> d.hour, mday |-> d.mday, mon |-> d.mon,
           year |-> d.year, wday |-> d.wday]
  BY LocalTimeIs
<1>2. /\ d.sec \in Int /\ d.min \in Int /\ d.hour \in Int /\ DayAt(t) \in Int /\ day = DayAt(t)
  BY OtherFields
<1>3. t = Total(DayAt(t), d.hour, d.min, d.sec)
  BY SecondsAre
<1>4. Seconds(e) = Total(FirstDay(e.year, e.mon) + e.mday - 1, e.hour, e.min, e.sec)
  BY DEF Seconds, Total, FirstDay
<1>5. Unit("sec") = 1 /\ Unit("min") = NSec /\ Unit("hour") = NSec * NMin
  BY DEF Unit
<1> HIDE DEF d
<1>6. Seconds(e) = t + ((v - d[f]) * Unit(f))
  <2>1. CASE f = "sec"
    <3>1. Seconds(e) = Total(DayAt(t), d.hour, d.min, v)
      BY <1>1, <1>2, <1>4, <2>1
    <3>2. Total(DayAt(t), d.hour, d.min, v) = Total(DayAt(t), d.hour, d.min, d.sec) + (v - d.sec)
      BY <1>2, SecShifts
    <3>3. (v - d.sec) * 1 = v - d.sec
      BY <1>2
    <3>4. QED
      BY <1>3, <1>5, <2>1, <3>1, <3>2, <3>3
  <2>2. CASE f = "min"
    <3>1. Seconds(e) = Total(DayAt(t), d.hour, v, d.sec)
      BY <1>1, <1>2, <1>4, <2>2
    <3>2. Total(DayAt(t), d.hour, v, d.sec)
            = Total(DayAt(t), d.hour, d.min, d.sec) + ((v - d.min) * NSec)
      BY <1>2, MinShifts
    <3>3. QED
      BY <1>3, <1>5, <2>2, <3>1, <3>2
  <2>3. CASE f = "hour"
    <3>1. Seconds(e) = Total(DayAt(t), v, d.min, d.sec)
      BY <1>1, <1>2, <1>4, <2>3
    <3>2. Total(DayAt(t), v, d.min, d.sec)
            = Total(DayAt(t), d.hour, d.min, d.sec) + ((v - d.hour) * (NSec * NMin))
      BY <1>2, HourShifts
    <3>3. QED
      BY <1>3, <1>5, <2>3, <3>1, <3>2
  <2>4. QED
    BY <2>1, <2>2, <2>3
<1>7. QED
  BY <1>6 DEF setField, mktime, d

(* A date whose day is another, at the same time of day.                   *)
LEMMA DayMoves ==
  ASSUME NEW t \in Int, NEW e, NEW n \in Int,
         e.sec = LocalTime(t).sec, e.min = LocalTime(t).min, e.hour = LocalTime(t).hour,
         FirstDay(e.year, e.mon) + e.mday - 1 = DayAt(t) + n
  PROVE  mktime(e) = LocalTime(t + (n * SecondsOfDay))
<1> DEFINE d == LocalTime(t)
<1>1. d.sec \in Int /\ d.min \in Int /\ d.hour \in Int /\ DayAt(t) \in Int
  BY OtherFields
<1>2. Seconds(e) = Total(DayAt(t) + n, d.hour, d.min, d.sec)
  BY DEF Seconds, Total, FirstDay
<1>3. t = Total(DayAt(t), d.hour, d.min, d.sec)
  BY SecondsAre
<1> HIDE DEF d
<1>4. Total(DayAt(t) + n, d.hour, d.min, d.sec)
        = Total(DayAt(t), d.hour, d.min, d.sec) + (n * SecondsOfDay)
  <2> DEFINE day == DayAt(t) + n
  <2>1. day \in Int /\ day - DayAt(t) = n
    BY <1>1
  <2> HIDE DEF day
  <2>2. Total(day, d.hour, d.min, d.sec)
          = Total(DayAt(t), d.hour, d.min, d.sec) + ((day - DayAt(t)) * SecondsOfDay)
    BY <1>1, <2>1, DayShifts
  <2>3. QED
    BY <2>1, <2>2 DEF day
<1>5. Seconds(e) = t + (n * SecondsOfDay)
  BY <1>2, <1>3, <1>4
<1>6. QED
  BY <1>5 DEF mktime

(* To add to the day of the month is to move on by as many days.           *)
LEMMA AddDays ==
  ASSUME NEW t \in Int, NEW n \in Int
  PROVE  addToField(LocalTime(t), "mday", n) = LocalTime(t + (n * SecondsOfDay))
<1> DEFINE d == LocalTime(t)
           e == [d EXCEPT !.mday = @ + n]
<1>1. /\ e.sec = d.sec /\ e.min = d.min /\ e.hour = d.hour /\ e.year = d.year /\ e.mon = d.mon
      /\ e.mday = d.mday + n
  BY LocalTimeIs
<1>2. FirstDay(e.year, e.mon) + e.mday - 1 = DayAt(t) + n
  BY <1>1, OtherFields
<1> HIDE DEF d, e
<1>3. mktime(e) = LocalTime(t + (n * SecondsOfDay))
  BY <1>1, <1>2, DayMoves DEF d
<1>4. QED
  BY <1>3 DEF addToField, d, e

(* A year later is so many days later.                                     *)
LEMMA AddYear ==
  ASSUME NEW t \in Int
  PROVE  addToField(LocalTime(t), "year", 1) = LocalTime(t + (YearDays * SecondsOfDay))
<1> DEFINE d == LocalTime(t)
           e == [d EXCEPT !.year = @ + 1]
<1>1. /\ e.sec = d.sec /\ e.min = d.min /\ e.hour = d.hour /\ e.year = d.year + 1 /\ e.mon = d.mon
      /\ e.mday = d.mday
  BY LocalTimeIs
<1>2. FirstDay(e.year, e.mon) = FirstDay(d.year, d.mon) + YearDays
  <2>1. (d.year + 1) * YearDays = (d.year * YearDays) + YearDays /\ d.year * YearDays \in Int
    BY OtherFields, MonthSizes, Products
  <2>2. DaysBefore[d.mon] \in Int /\ YearDays \in Int
    BY OtherFields, DaysBeforeInYear
  <2> HIDE DEF d, e
  <2>3. QED
    BY <1>1, <2>1, <2>2 DEF FirstDay
<1>3. FirstDay(e.year, e.mon) + e.mday - 1 = DayAt(t) + YearDays
  <2>1. YearDays \in Int
    BY MonthSizes
  <2>2. QED
    BY <1>1, <1>2, <2>1, OtherFields
<1> HIDE DEF d, e
<1>4. mktime(e) = LocalTime(t + (YearDays * SecondsOfDay))
  BY <1>1, <1>3, DayMoves, MonthSizes DEF d
<1>5. QED
  BY <1>4 DEF addToField, d, e

(* Another month is as many days away as there are between the first days  *)
(* of the two.                                                             *)
LEMMA SetMonth ==
  ASSUME NEW t \in Int, NEW v \in Months
  PROVE  setField(LocalTime(t), "mon", v)
           = LocalTime(t + ((DaysBefore[v] - DaysBefore[LocalTime(t).mon]) * SecondsOfDay))
<1> DEFINE d == LocalTime(t)
           e == [d EXCEPT !.mon = v]
           n == DaysBefore[v] - DaysBefore[d.mon]
<1>1. /\ e.sec = d.sec /\ e.min = d.min /\ e.hour = d.hour /\ e.year = d.year /\ e.mon = v
      /\ e.mday = d.mday
  BY LocalTimeIs
<1>2. n \in Int /\ FirstDay(e.year, e.mon) = FirstDay(d.year, d.mon) + n
  <2>1. d.year * YearDays \in Int
    BY OtherFields, MonthSizes, Products
  <2>2. DaysBefore[d.mon] \in Int /\ DaysBefore[v] \in Int
    BY OtherFields, DaysBeforeInYear
  <2> HIDE DEF d, e
  <2>3. QED
    BY <1>1, <2>1, <2>2 DEF FirstDay
<1>3. FirstDay(e.year, e.mon) + e.mday - 1 = DayAt(t) + n
  BY <1>1, <1>2, OtherFields
<1> HIDE DEF d, e, n
<1>4. mktime(e) = LocalTime(t + (n * SecondsOfDay))
  BY <1>1, <1>2, <1>3, DayMoves DEF d
<1>5. QED
  BY <1>4 DEF setField, d, e, n

-----------------------------------------------------------------------------
(* Moving a field, and what it resets.                                     *)

(* A field that goes round makes the next one move.                        *)
LEMMA CarryIs ==
  ASSUME NEW t \in Int, NEW f \in {"sec", "min", "hour"}
  PROVE  addToField(LocalTime(t), NextField(f), 1) = LocalTime(t + (Size(f) * Unit(f)))
<1> DEFINE d == LocalTime(t)
<1>1. d.min \in Int /\ d.hour \in Int
  BY OtherFields
<1>2. \A g \in {"min", "hour"} : addToField(d, g, 1) = setField(d, g, d[g] + 1)
  BY DEF addToField, setField
<1>3. /\ Unit("min") = NSec /\ Unit("hour") = NSec * NMin /\ Unit("sec") = 1
      /\ Size("sec") = NSec /\ Size("min") = NMin /\ Size("hour") = NHour
  BY DEF Unit, Size
<1>4. /\ NextField("sec") = "min" /\ NextField("min") = "hour" /\ NextField("hour") = "mday"
  BY DEF NextField
<1>5. CASE f = "sec"
  <2>1. setField(d, "min", d.min + 1) = LocalTime(t + (((d.min + 1) - d.min) * Unit("min")))
    BY <1>1, SetIs
  <2>2. ((d.min + 1) - d.min) * NSec = NSec * 1
    BY <1>1, Sizes
  <2>3. QED
    BY <1>2, <1>3, <1>4, <1>5, <2>1, <2>2
<1>6. CASE f = "min"
  <2>1. setField(d, "hour", d.hour + 1) = LocalTime(t + (((d.hour + 1) - d.hour) * Unit("hour")))
    BY <1>1, SetIs
  <2>2. ((d.hour + 1) - d.hour) * (NSec * NMin) = NMin * NSec
    <3>1. (d.hour + 1) - d.hour = 1
      BY <1>1
    <3>2. \A x \in Int : 1 * x = x
      OBVIOUS
    <3>3. QED
      BY <3>1, <3>2, Sizes, Products
  <2>3. QED
    BY <1>2, <1>3, <1>4, <1>6, <2>1, <2>2
<1>7. CASE f = "hour"
  <2>1. 1 * SecondsOfDay = NHour * (NSec * NMin)
    BY Units, Sizes, Products
  <2>2. addToField(d, "mday", 1) = LocalTime(t + (1 * SecondsOfDay))
    BY AddDays
  <2>3. QED
    BY <1>3, <1>4, <1>7, <2>1, <2>2
<1>8. QED
  BY <1>5, <1>6, <1>7

(* Whole units change the quotient and not what is left.                   *)
LEMMA Shift ==
  ASSUME NEW U \in Nat \ {0}, NEW t \in Int, NEW k \in Int
  PROVE  /\ (t + (k * U)) \div U = (t \div U) + k
         /\ (t + (k * U)) % U = t % U
<1> DEFINE q == t \div U
           r == t % U
<1>1. q \in Int /\ r \in 0..U - 1 /\ t = (q * U) + r
  BY Divide
<1> HIDE DEF q, r
<1>2. (q + k) * U = (q * U) + (k * U) /\ q * U \in Int /\ k * U \in Int /\ q + k \in Int
  BY <1>1, Products
<1>3. t + (k * U) = ((q + k) * U) + r
  BY <1>1, <1>2
<1>4. /\ (((q + k) * U) + r) \div U = q + k /\ (((q + k) * U) + r) % U = r
  BY <1>1, <1>2, Remain, Quotient
<1>5. QED
  BY <1>3, <1>4 DEF q, r

(* What is left is the same once round.                                    *)
LEMMA RoundOnce ==
  ASSUME NEW N \in Nat \ {0}, NEW m \in Int
  PROVE  (m + N) % N = m % N
<1>1. PICK q \in Int, r \in 0..N - 1 : m = (q * N) + r /\ m % N = r
  BY Divide
<1>2. (q + 1) * N = (q * N) + N /\ q * N \in Int /\ q + 1 \in Int
  BY <1>1, Products
<1>3. m + N = ((q + 1) * N) + r
  BY <1>1, <1>2
<1>4. (((q + 1) * N) + r) % N = r
  BY <1>1, <1>2, Remain
<1>5. QED
  BY <1>1, <1>3, <1>4

(* A move of a field to its next value.                                    *)
LEMMA MoveIs ==
  ASSUME NEW t \in Int, NEW f \in {"sec", "min", "hour"}, NEW val \in 0..Size(f) - 1, NEW marked,
         val # LocalTime(t)[f],
         NEW k, k = (val - LocalTime(t)[f]) + (IF val < LocalTime(t)[f] THEN Size(f) ELSE 0)
  PROVE  MoveTo(val, LocalTime(t), f, marked).date
           = resetAllFields(LocalTime(t + (k * Unit(f))), marked)
<1> DEFINE c == LocalTime(t)[f]
           U == Unit(f)
           N == Size(f)
<1>1. U \in Nat \ {0} /\ N \in Nat \ {0} /\ c \in 0..N - 1 /\ c = (t \div U) % N /\ t \div U \in Int
  BY Units, FieldIs
<1>2. MoveTo(val, LocalTime(t), f, marked).date
        = resetAllFields(setField(IF val > c THEN LocalTime(t)
                                  ELSE setField(addToField(LocalTime(t), NextField(f), 1), f, 0),
                                  f, val),
                         marked)
  BY DEF MoveTo, resetField
<1>3. val \in Int /\ c \in Int /\ N \in Int
  BY <1>1
<1> HIDE DEF U, N
<1>4. CASE val > c
  <2>1. setField(LocalTime(t), f, val) = LocalTime(t + ((val - c) * U))
    BY <1>3, SetIs DEF U
  <2> HIDE DEF c
  <2>2. k = val - c
    BY <1>3, <1>4 DEF c, N
  <2>3. QED
    BY <1>2, <1>4, <2>1, <2>2 DEF U
<1>5. CASE val < c
  <2> DEFINE t2 == t + (N * U)
             t3 == t2 + ((0 - c) * U)
  <2>1. addToField(LocalTime(t), NextField(f), 1) = LocalTime(t2)
    BY CarryIs DEF N, U
  <2>2. N * U \in Int /\ t2 \in Int /\ (0 - c) * U \in Int /\ t3 \in Int
    BY <1>1, <1>3, Products
  <2>3. LocalTime(t2)[f] = c
    <3>1. LocalTime(t2)[f] = (t2 \div U) % N
      BY <2>2, FieldIs DEF U, N
    <3>2. t2 \div U = (t \div U) + N
      BY <1>1, Shift
    <3>3. ((t \div U) + N) % N = (t \div U) % N
      BY <1>1, RoundOnce
    <3>4. QED
      BY <1>1, <3>1, <3>2, <3>3
  <2>4. setField(LocalTime(t2), f, 0) = LocalTime(t3)
    BY <2>2, <2>3, SetIs DEF U
  <2>5. LocalTime(t3)[f] = 0
    <3>1. LocalTime(t3)[f] = (t3 \div U) % N
      BY <2>2, FieldIs DEF U, N
    <3>2. t3 \div U = (t2 \div U) + (0 - c)
      <4> HIDE DEF t2, c
      <4>1. 0 - c \in Int
        BY <1>3
      <4>2. QED
        BY <1>1, <2>2, <4>1, Shift
    <3>3. t2 \div U = (t \div U) + N
      BY <1>1, Shift
    <3>4. PICK q \in Int : t \div U = (q * N) + c
      BY <1>1, Divide
    <3>5. t3 \div U = ((q + 1) * N) + 0 /\ q + 1 \in Int
      <4>1. (q + 1) * N = (q * N) + N /\ q * N \in Int
        BY <1>1, Products
      <4> HIDE DEF t2, t3, c
      <4>2. QED
        BY <1>3, <3>2, <3>3, <3>4, <4>1
    <3>6. (((q + 1) * N) + 0) % N = 0
      <4>1. 0 \in 0..N - 1
        BY <1>1
      <4>2. QED
        BY <1>1, <3>5, <4>1, Remain
    <3>7. QED
      BY <3>1, <3>5, <3>6
  <2>6. setField(LocalTime(t3), f, val) = LocalTime(t3 + ((val - 0) * U))
    BY <1>3, <2>2, <2>5, SetIs DEF U
  <2>7. t3 + ((val - 0) * U) = t + (k * U)
    <3>1. k = (val - c) + N
      BY <1>5 DEF N
    <3>2. k * U = ((val - 0) * U) + ((0 - c) * U) + (N * U)
      <4> DEFINE a == val - 0
                 b == 0 - c
      <4>1. k = (a + b) + N /\ a \in Int /\ b \in Int /\ a + b \in Int
        BY <1>3, <3>1
      <4> HIDE DEF a, b
      <4>2. (a + b) * U = (a * U) + (b * U) /\ ((a + b) + N) * U = ((a + b) * U) + (N * U)
        BY <1>1, <1>3, <4>1, Products
      <4>3. k * U = (a * U) + (b * U) + (N * U)
        BY <4>1, <4>2
      <4>4. QED
        BY <4>3 DEF a, b
    <3>3. (val - 0) * U \in Int
      BY <1>1, <1>3, Products
    <3> HIDE DEF c
    <3>4. QED
      BY <2>2, <3>2, <3>3
  <2>8. QED
    BY <1>2, <1>3, <1>5, <2>1, <2>4, <2>6, <2>7 DEF U
<1>6. QED
  BY <1>3, <1>4, <1>5

(* What remains of the seconds when the fields that are marked are reset.  *)
Keep(t, marked) == IF "sec" \in marked THEN 0 ELSE t % NSec

(* The time of an hour, of a minute or of a day that some seconds have     *)
(* gone of.                                                                *)
LEMMA TotalOfParts ==
  ASSUME NEW t \in Int, NEW x \in Int
  PROVE  LET d == LocalTime(t)
         IN  /\ Total(DayAt(t), d.hour, d.min, x) = ((t \div NSec) * NSec) + x
             /\ Total(DayAt(t), d.hour, 0, x) = ((t \div (NSec * NMin)) * (NSec * NMin)) + x
             /\ \A day \in Int : Total(day, 0, 0, x) = (day * SecondsOfDay) + x
<1> DEFINE d == LocalTime(t)
           m == t \div NSec
           A == NSec * NMin
           h == t \div A
           D == SecondsOfDay
<1>1. /\ d.hour = h % NHour /\ d.min = m % NMin
  BY LocalTimeIs
<1>2. /\ m \in Int /\ h \in Int /\ m = (h * NMin) + (m % NMin) /\ h = (DayAt(t) * NHour) + (h % NHour)
  BY TimeIs
<1>3. D \in Int /\ A \in Int /\ \A a, b, c \in Int : Total(a, b, c, x) = (a * D) + (b * A) + (c * NSec) + x
  BY Units, TotalAdds
<1>4. Total(DayAt(t), d.hour, d.min, x) = (m * NSec) + x
  BY <1>1, <1>2 DEF Total
<1>5. Total(DayAt(t), d.hour, 0, x) = ((h * NMin) + 0) * NSec + x
  BY <1>1, <1>2 DEF Total
<1>6. ((h * NMin) + 0) * NSec = h * A
  <2>1. h * NMin \in Int /\ NSec \in Int /\ NMin \in Int
    BY <1>2, Sizes, Products
  <2>2. (h * NMin) + 0 = h * NMin
    BY <2>1
  <2>3. (h * NMin) * NSec = h * (NMin * NSec) /\ NMin * NSec = NSec * NMin
    BY <1>2, <2>1, Products
  <2>4. QED
    BY <2>2, <2>3
<1>7. ASSUME NEW day \in Int PROVE Total(day, 0, 0, x) = (day * D) + x
  <2>1. Total(day, 0, 0, x) = (day * D) + (0 * A) + (0 * NSec) + x
    BY <1>3
  <2>2. 0 * A = 0 /\ 0 * NSec = 0 /\ day * D \in Int
    BY <1>3, Sizes, Products
  <2>3. QED
    BY <2>1, <2>2
<1>8. QED
  BY <1>4, <1>5, <1>6, <1>7

(* The fields that are reset are at their first values, the others stay.   *)
LEMMA ResetTotal ==
  ASSUME NEW t \in Int, NEW marked \in SUBSET {"sec", "min", "hour", "mday"}
  PROVE  resetAllFields(LocalTime(t), marked)
           = LocalTime(Total(IF "mday" \in marked THEN FirstDay(LocalTime(t).year, LocalTime(t).mon)
                                                  ELSE DayAt(t),
                             IF "hour" \in marked THEN 0 ELSE LocalTime(t).hour,
                             IF "min" \in marked THEN 0 ELSE LocalTime(t).min,
                             Keep(t, marked)))
<1> DEFINE d == LocalTime(t)
           e == [f \in DOMAIN d |-> IF f \notin marked THEN d[f] ELSE IF f = "mday" THEN 1 ELSE 0]
           first == FirstDay(d.year, d.mon)
<1>1. DOMAIN d = {"sec", "min", "hour", "mday", "mon", "year", "wday"}
  BY LocalTimeIs
<1>2. /\ e.sec = Keep(t, marked) /\ e.min = (IF "min" \in marked THEN 0 ELSE d.min)
      /\ e.hour = (IF "hour" \in marked THEN 0 ELSE d.hour)
      /\ e.mday = (IF "mday" \in marked THEN 1 ELSE d.mday)
      /\ e.mon = d.mon /\ e.year = d.year
  BY <1>1, OtherFields DEF Keep
<1>3. resetAllFields(d, marked) = LocalTime(Seconds(e))
  BY DEF resetAllFields, mktime
<1>4. Seconds(e) = Total(FirstDay(e.year, e.mon) + e.mday - 1, e.hour, e.min, e.sec)
  BY DEF Seconds, Total, FirstDay
<1>5. first + d.mday - 1 = DayAt(t) /\ first \in Int
  BY OtherFields
<1>6. FirstDay(e.year, e.mon) + e.mday - 1 = IF "mday" \in marked THEN first ELSE DayAt(t)
  <2> HIDE DEF d, e
  <2>1. FirstDay(e.year, e.mon) = first
    BY <1>2
  <2> HIDE DEF first
  <2>2. QED
    BY <1>2, <1>5, <2>1
<1> HIDE DEF e
<1>7. QED
  BY <1>2, <1>3, <1>4, <1>6

(* The fields that are marked are the lower ones, so that time goes back   *)
(* to the beginning of the minute, the hour, the day or the month; the     *)
(* seconds stay where they are not marked.                                 *)
LEMMA ResetIs ==
  ASSUME NEW t \in Int, NEW marked \in SUBSET {"sec", "min", "hour", "mday"}
  PROVE  /\ marked = {} => resetAllFields(LocalTime(t), marked) = LocalTime(t)
         /\ marked \subseteq {"sec"} =>
              resetAllFields(LocalTime(t), marked) = LocalTime(((t \div NSec) * NSec) + Keep(t, marked))
         /\ "min" \in marked /\ marked \subseteq {"sec", "min"} =>
              resetAllFields(LocalTime(t), marked)
                = LocalTime(((t \div (NSec * NMin)) * (NSec * NMin)) + Keep(t, marked))
         /\ {"min", "hour"} \subseteq marked /\ marked \subseteq {"sec", "min", "hour"} =>
              resetAllFields(LocalTime(t), marked)
                = LocalTime((DayAt(t) * SecondsOfDay) + Keep(t, marked))
         /\ {"min", "hour", "mday"} \subseteq marked =>
              resetAllFields(LocalTime(t), marked)
                = LocalTime((FirstDay(YearAt(t), MonthAt(t)) * SecondsOfDay) + Keep(t, marked))
<1> DEFINE d == LocalTime(t)
           x == Keep(t, marked)
           reset == resetAllFields(d, marked)
           first == FirstDay(d.year, d.mon)
<1>1. x \in Int /\ DayAt(t) \in Int /\ first \in Int /\ first = FirstDay(YearAt(t), MonthAt(t))
  <2>1. DayAt(t) \in Int /\ first \in Int /\ d.year = YearAt(t) /\ d.mon = MonthAt(t)
    BY OtherFields
  <2>2. t % NSec \in Int
    BY TimeIs
  <2>3. x \in Int
    BY <2>2 DEF Keep
  <2>4. QED
    BY <2>1, <2>3
<1>2. reset = LocalTime(Total(IF "mday" \in marked THEN first ELSE DayAt(t),
                              IF "hour" \in marked THEN 0 ELSE d.hour,
                              IF "min" \in marked THEN 0 ELSE d.min, x))
  BY ResetTotal
<1>3. /\ Total(DayAt(t), d.hour, d.min, x) = ((t \div NSec) * NSec) + x
      /\ Total(DayAt(t), d.hour, 0, x) = ((t \div (NSec * NMin)) * (NSec * NMin)) + x
      /\ Total(DayAt(t), 0, 0, x) = (DayAt(t) * SecondsOfDay) + x
      /\ Total(first, 0, 0, x) = (first * SecondsOfDay) + x
  BY <1>1, TotalOfParts
<1>4. marked = {} => Total(DayAt(t), d.hour, d.min, x) = t
  BY SecondsAre, OtherFields DEF Keep
<1>5. /\ "mday" \notin marked /\ "hour" \notin marked /\ "min" \notin marked
           => reset = LocalTime(Total(DayAt(t), d.hour, d.min, x))
      /\ "mday" \notin marked /\ "hour" \notin marked /\ "min" \in marked
           => reset = LocalTime(Total(DayAt(t), d.hour, 0, x))
      /\ "mday" \notin marked /\ "hour" \in marked /\ "min" \in marked
           => reset = LocalTime(Total(DayAt(t), 0, 0, x))
      /\ "mday" \in marked /\ "hour" \in marked /\ "min" \in marked
           => reset = LocalTime(Total(first, 0, 0, x))
  BY <1>2
<1>6. first = FirstDay(YearAt(t), MonthAt(t))
  BY <1>1
<1> HIDE DEF d, x, reset, first
<1>7. /\ marked = {} => reset = LocalTime(t)
      /\ marked \subseteq {"sec"} => reset = LocalTime(((t \div NSec) * NSec) + x)
      /\ "min" \in marked /\ marked \subseteq {"sec", "min"} =>
           reset = LocalTime(((t \div (NSec * NMin)) * (NSec * NMin)) + x)
      /\ {"min", "hour"} \subseteq marked /\ marked \subseteq {"sec", "min", "hour"} =>
           reset = LocalTime((DayAt(t) * SecondsOfDay) + x)
      /\ {"min", "hour", "mday"} \subseteq marked => reset = LocalTime((first * SecondsOfDay) + x)
  BY <1>3, <1>4, <1>5
<1>8. QED
  BY <1>6, <1>7 DEF d, x, reset

-----------------------------------------------------------------------------
(* The second, the minute and the hour: none that fits is skipped.         *)

(* The later a time is, the later its minute, hour or day.                 *)
LEMMA DivideGrows ==
  ASSUME NEW U \in Nat \ {0}, NEW a \in Int, NEW b \in Int
  PROVE  /\ a <= b => a \div U <= b \div U
         /\ a < b * U => a \div U < b
         /\ a >= b * U => a \div U >= b
<1>1. /\ a \div U \in Int /\ (a \div U) * U <= a /\ a < ((a \div U) * U) + U
  BY Divide
<1>2. /\ b \div U \in Int /\ (b \div U) * U <= b /\ b < ((b \div U) * U) + U
  BY Divide
<1> DEFINE p == a \div U
           q == b \div U
<1> HIDE DEF p, q
<1>3. \A x, y \in Int : x < y => (x * U) + U <= y * U
  <2> SUFFICES ASSUME NEW x \in Int, NEW y \in Int, x < y PROVE (x * U) + U <= y * U
    OBVIOUS
  <2>1. (x + 1) * U = (x * U) + U /\ x + 1 \in Int /\ x + 1 <= y
    BY Products
  <2>2. (x + 1) * U <= y * U
    BY <2>1, Products
  <2>3. QED
    BY <2>1, <2>2
<1>4. p \in Int /\ q \in Int /\ p * U <= a /\ a < (p * U) + U /\ q * U <= b /\ b < (q * U) + U
  BY <1>1, <1>2 DEF p, q
<1>5. p * U \in Int /\ q * U \in Int /\ b * U \in Int
  BY <1>4, Products
<1>6. ASSUME a <= b PROVE p <= q
  <2> SUFFICES ASSUME q < p PROVE FALSE
    BY <1>4
  <2>1. (q * U) + U <= p * U
    BY <1>3, <1>4
  <2>2. QED
    BY <1>4, <1>5, <1>6, <2>1
<1>7. ASSUME a < b * U PROVE p < b
  <2> SUFFICES ASSUME ~(p < b) PROVE FALSE
    OBVIOUS
  <2>1. b <= p
    BY <1>4
  <2>2. b * U <= p * U
    BY <1>4, <2>1, Products
  <2>3. QED
    BY <1>4, <1>5, <1>7, <2>2
<1>8. ASSUME a >= b * U PROVE p >= b
  <2> SUFFICES ASSUME p < b PROVE FALSE
    BY <1>4
  <2>1. (p * U) + U <= b * U
    BY <1>3, <1>4
  <2>2. QED
    BY <1>4, <1>5, <1>8, <2>1
<1>9. QED
  BY <1>6, <1>7, <1>8 DEF p, q

(* The numbers from t up to u are in the blocks of U before r, or are some *)
(* of the K from b on.                                                     *)
OnTheWay(U, t, r, b, K, u) ==
  /\ t < u
  /\ \A w \in t..u - 1 : \/ w \div U \in (t \div U)..r - 1
                         \/ \E x \in 0..K - 1 : w = b + x

(* It is so for the first of a later block, and for every one after it.    *)
LEMMA Blocks ==
  ASSUME NEW U \in Nat \ {0}, NEW t \in Int, NEW r \in Int, t \div U < r, NEW K \in Nat,
         NEW b, b = r * U, NEW u, u = b + K
  PROVE  OnTheWay(U, t, r, b, K, u)
<1>1. b \in Int /\ t \div U \in Int
  BY Products, Divide
<1>2. t < b
  <2> SUFFICES ASSUME t >= b PROVE FALSE
    BY <1>1
  <2>1. t \div U >= r
    BY DivideGrows
  <2>2. QED
    BY <1>1, <2>1
<1>3. ASSUME NEW w \in t..u - 1
      PROVE  \/ w \div U \in (t \div U)..r - 1
             \/ \E x \in 0..K - 1 : w = b + x
  <2>1. w \in Int /\ t <= w /\ w < u
    BY <1>1
  <2>2. CASE w < b
    <3>1. w \div U < r /\ t \div U <= w \div U /\ w \div U \in Int
      BY <2>1, <2>2, DivideGrows, Divide
    <3>2. QED
      BY <1>1, <3>1
  <2>3. CASE w >= b
    <3> DEFINE x == w - b
    <3>1. x \in 0..K - 1 /\ w = b + x
      BY <1>1, <2>1, <2>3
    <3>2. QED
      BY <3>1
  <2>4. QED
    BY <1>1, <2>1, <2>2, <2>3
<1>4. t < u
  BY <1>1, <1>2
<1>5. QED
  BY <1>3, <1>4 DEF OnTheWay

-----------------------------------------------------------------------------
(* What a schedule may mean, and the bits that stand for it.               *)
Whens == [sec : (SUBSET (0..NSec - 1)) \ {{}}, min : (SUBSET (0..NMin - 1)) \ {{}},
          hour : (SUBSET (0..NHour - 1)) \ {{}}, mday : (SUBSET (1..NDay)) \ {{}},
          mon : (SUBSET Months) \ {{}}, wday : (SUBSET (0..NWeek - 1)) \ {{}}]
BitsOf(when) == [sec |-> when.sec, min |-> when.min, hour |-> when.hour,
                 mday |-> {v - 1 : v \in when.mday}, mon |-> when.mon, wday |-> when.wday]
NoneIn(when, t, u) == \A w \in t..u - 1 : ~Matches(when, w)

(* The values that a schedule names, and their bits.                       *)
LEMMA WhenIs ==
  ASSUME NEW when \in Whens
  PROVE  /\ \A f \in {"sec", "min", "hour"} : when[f] \in SUBSET (0..Size(f) - 1) /\ when[f] # {}
         /\ \A f \in {"sec", "min", "hour", "mon", "wday"} : BitsOf(when)[f] = when[f]
         /\ \A v \in Int : v - 1 \in BitsOf(when).mday <=> v \in when.mday
<1>1. \A f \in {"sec", "min", "hour"} : when[f] \in SUBSET (0..Size(f) - 1) /\ when[f] # {}
  BY DEF Whens, Size
<1>2. \A f \in {"sec", "min", "hour", "mon", "wday"} : BitsOf(when)[f] = when[f]
  BY DEF BitsOf
<1>3. ASSUME NEW v \in Int PROVE v - 1 \in BitsOf(when).mday <=> v \in when.mday
  <2>1. when.mday \subseteq Int
    BY MonthSizes DEF Whens
  <2>2. BitsOf(when).mday = {x - 1 : x \in when.mday}
    BY DEF BitsOf
  <2>3. QED
    BY <2>1, <2>2
<1>4. QED
  BY <1>1, <1>2, <1>3

(* A field of seconds, minutes or hours that has a right value stays.      *)
LEMMA FieldStays ==
  ASSUME NEW when \in Whens, NEW t \in Int, NEW f \in {"sec", "min", "hour"}, NEW marked
  PROVE  LET r == FindIn(f, BitsOf(when), LocalTime(t), marked)
         IN  /\ r.val \in when[f]
             /\ r.val = LocalTime(t)[f] => r.date = LocalTime(t)
             /\ LocalTime(t)[f] \in when[f] => r.val = LocalTime(t)[f]
<1> DEFINE N == Size(f)
           q == t \div Unit(f)
           c == LocalTime(t)[f]
           val == nextSetBit(when[f], c)
           k == (val - c) + (IF val < c THEN N ELSE 0)
<1>1. N \in Nat \ {0} /\ q \in Int /\ c = q % N
  BY FieldIs, Units
<1>2. when[f] \in SUBSET (0..N - 1) /\ when[f] # {} /\ BitsOf(when)[f] = when[f]
  BY WhenIs
<1>3. FindIn(f, BitsOf(when), LocalTime(t), marked) = MoveTo(val, LocalTime(t), f, marked)
  BY <1>2 DEF FindIn, findNextField
<1>4. val \in when[f] /\ (c \in when[f] => val = c)
  <2> DEFINE r == q + (val - (q % N)) + (IF val < q % N THEN N ELSE 0)
             target == when[f]
  <2>1. val = nextSetBit(target, q % N)
    BY <1>1
  <2>2. r = q + (val - (q % N)) + (IF val < q % N THEN N ELSE 0)
    OBVIOUS
  <2>3. N \in Nat \ {0} /\ q \in Int /\ target \in SUBSET (0..N - 1) /\ target # {}
    BY <1>1, <1>2
  <2> HIDE DEF N, q, val, r, target
  <2>4. val \in target /\ (q % N \in target => val = q % N)
    BY <2>1, <2>2, <2>3, NextBit
  <2> HIDE DEF c
  <2>5. QED
    BY <1>1, <2>4 DEF target
<1>5. QED
  BY <1>3, <1>4 DEF MoveTo

(* One that has another moves to the next time at which it has a right one, *)
(* where the fields below it are reset, or the seconds are the right one.  *)
LEMMA FieldMoves ==
  ASSUME NEW when \in Whens, NEW t \in Int, NEW f \in {"sec", "min", "hour"},
         NEW marked \in SUBSET {"sec", "min"},
         f = "sec" => marked = {},
         f = "min" => marked \subseteq {"sec"},
         f = "hour" => "min" \in marked,
         f # "sec" => \A x \in 0..Keep(t, marked) - 1 : x \notin when.sec,
         FindIn(f, BitsOf(when), LocalTime(t), marked).val # LocalTime(t)[f]
  PROVE  \E u \in Int :
           /\ FindIn(f, BitsOf(when), LocalTime(t), marked).date = LocalTime(u)
           /\ t < u /\ NoneIn(when, t, u)
           /\ f = "sec" => LocalTime(u).sec \in when.sec
<1> DEFINE N == Size(f)
           U == Unit(f)
           q == t \div U
           c == LocalTime(t)[f]
           val == nextSetBit(when[f], c)
           k == (val - c) + (IF val < c THEN N ELSE 0)
           r == q + (val - c) + (IF val < c THEN N ELSE 0)
           t1 == t + (k * U)
           date == FindIn(f, BitsOf(when), LocalTime(t), marked).date
<1>1. N \in Nat \ {0} /\ U \in Nat \ {0} /\ q \in Int /\ c = q % N /\ c \in Int
  BY FieldIs, Units
<1>2. when[f] \in SUBSET (0..N - 1) /\ when[f] # {} /\ BitsOf(when)[f] = when[f]
  BY WhenIs
<1>3. FindIn(f, BitsOf(when), LocalTime(t), marked) = MoveTo(val, LocalTime(t), f, marked)
  BY <1>2 DEF FindIn, findNextField
<1>4. val # c
  BY <1>3 DEF MoveTo
<1>5. /\ val \in when[f] /\ r \in Int /\ q < r /\ r % N = val
      /\ \A p \in q..r - 1 : p % N \notin when[f]
  <2>1. val = nextSetBit(when[f], q % N) /\ r = q + (val - (q % N)) + (IF val < q % N THEN N ELSE 0)
    BY <1>1
  <2>2. val # q % N
    BY <1>1, <1>4
  <2> DEFINE target == when[f]
  <2>3. /\ N \in Nat \ {0} /\ q \in Int /\ target \in SUBSET (0..N - 1) /\ target # {}
        /\ val = nextSetBit(target, q % N)
    BY <1>1, <1>2, <2>1
  <2> HIDE DEF N, q, val, r, c, target
  <2>4. /\ val \in target /\ r \in Int /\ q < r /\ r % N = val
        /\ \A p \in q..r - 1 : p % N \notin target
    <3>1. r = q + (val - (q % N)) + (IF val < q % N THEN N ELSE 0)
      BY <2>1
    <3>2. /\ val \in target /\ r \in Int /\ (val # q % N => q < r) /\ r % N = val
          /\ \A p \in q..r - 1 : p % N \notin target
      BY <2>3, <3>1, NextBit
    <3>3. QED
      BY <2>2, <3>2
  <2>5. QED
    BY <2>4 DEF target
<1>6. val \in 0..N - 1 /\ val \in Int /\ k \in Int /\ r = q + k
  BY <1>1, <1>2, <1>5
<1>7. date = resetAllFields(LocalTime(t1), marked)
  BY <1>3, <1>4, <1>6, MoveIs
<1>8. t1 \in Int /\ t1 \div U = r /\ t1 % U = t % U
  <2> HIDE DEF k, r, q, U
  <2>1. k * U \in Int
    BY <1>1, <1>6, Products
  <2>2. QED
    BY <1>1, <1>6, <2>1, Shift DEF q
<1>9. ASSUME NEW w \in Int, w \div U \in q..r - 1 PROVE ~Matches(when, w)
  <2>1. LocalTime(w)[f] = (w \div U) % N
    BY FieldIs
  <2>2. (w \div U) % N \notin when[f]
    BY <1>5, <1>9
  <2>3. QED
    BY <2>1, <2>2 DEF Matches
<1>10. CASE f = "sec"
  <2>1. date = LocalTime(t1)
    BY <1>7, <1>8, <1>10, ResetIs
  <2>2. U = 1 /\ \A x \in Int : x \div 1 = x
    BY <1>10 DEF Unit
  <2>3. t1 = r /\ q = t
    BY <1>8, <2>2
  <2>4. LocalTime(t1).sec = val
    <3>1. LocalTime(t1)[f] = (t1 \div U) % N
      BY <1>8, FieldIs
    <3>2. QED
      BY <1>5, <1>8, <1>10, <3>1
  <2>5. NoneIn(when, t, r)
    <3> SUFFICES ASSUME NEW w \in t..r - 1 PROVE ~Matches(when, w)
      BY DEF NoneIn
    <3>1. w \in Int /\ w \div U = w
      BY <1>5, <2>2
    <3>2. QED
      BY <1>9, <2>3, <3>1
  <2>6. QED
    BY <1>5, <1>8, <1>10, <2>1, <2>3, <2>4, <2>5
<1>11. CASE f # "sec"
  <2> DEFINE K == Keep(t, marked)
             b == r * U
             u == b + K
  <2>1. PICK g \in Nat \ {0} : U = g * NSec
    <3>1. f = "min" \/ f = "hour"
      BY <1>11
    <3>2. CASE f = "min"
      <4>1. U = 1 * NSec
        BY <3>2, Sizes DEF Unit
      <4>2. QED
        BY <4>1
    <3>3. CASE f = "hour"
      <4>1. U = NMin * NSec
        BY <3>3, Sizes, Products DEF Unit
      <4>2. QED
        BY <4>1, Sizes
    <3>4. QED
      BY <3>1, <3>2, <3>3
  <2>2. K \in 0..NSec - 1 /\ K \in Nat
    <3>1. t % NSec \in 0..NSec - 1 /\ NSec \in Nat \ {0}
      BY TimeIs, Sizes
    <3>2. K = 0 \/ K = t % NSec
      BY DEF Keep
    <3> HIDE DEF K
    <3>3. QED
      BY <3>1, <3>2
  <2>3. Keep(t1, marked) = K
    <3>1. k * U = (k * g) * NSec /\ k * g \in Int
      BY <1>6, <2>1, Sizes, Products
    <3>2. t1 % NSec = t % NSec
      <4> DEFINE j == k * g
      <4>1. j \in Int /\ t1 = t + (j * NSec)
        BY <3>1
      <4> HIDE DEF j, t1
      <4>2. QED
        BY <4>1, Sizes, Shift
    <3>3. QED
      BY <3>2 DEF Keep
  <2>4. date = LocalTime(u)
    <3> HIDE DEF t1, r, q, k, c, val
    <3>1. CASE f = "min"
      <4>1. U = NSec
        BY <3>1 DEF Unit
      <4>2. QED
        BY <1>7, <1>8, <2>3, <3>1, <4>1, ResetIs
    <3>2. CASE f = "hour"
      <4>1. U = NSec * NMin
        BY <3>2 DEF Unit
      <4>2. QED
        BY <1>7, <1>8, <2>3, <3>2, <4>1, ResetIs
    <3>3. QED
      BY <1>11, <3>1, <3>2
  <2> HIDE DEF U, r, q, t1, k, c, val, K
  <2>5. /\ t < u
        /\ \A w \in t..u - 1 : \/ w \div U \in (t \div U)..r - 1
                               \/ \E x \in 0..K - 1 : w = b + x
    <3>1. t \div U < r /\ U \in Nat \ {0} /\ r \in Int /\ K \in Nat
      BY <1>1, <1>5, <2>2 DEF q
    <3>2. b = r * U /\ u = b + K
      OBVIOUS
    <3> HIDE DEF b, u
    <3>3. OnTheWay(U, t, r, b, K, u)
      BY <3>1, <3>2, Blocks, Zenon
    <3>4. QED
      BY <3>3, Zenon DEF OnTheWay
  <2>6. u \in Int
    BY <1>1, <1>5, <2>2, Products
  <2>7. ASSUME NEW x \in 0..K - 1 PROVE ~Matches(when, (r * U) + x)
    <3>1. r * U = (r * g) * NSec /\ r * g \in Int /\ r * U \in Int
      BY <1>5, <2>1, Sizes, Products
    <3>2. x \in 0..NSec - 1
      BY <2>2, Sizes
    <3>3. (((r * g) * NSec) + x) % NSec = x
      BY <3>1, <3>2, Sizes, Remain
    <3>4. (r * U) + x \in Int
      BY <3>1
    <3>5. LocalTime((r * U) + x).sec = x
      BY <3>1, <3>3, <3>4, LocalTimeIs
    <3>6. x \notin when.sec
      BY <1>11 DEF K
    <3>7. QED
      BY <3>5, <3>6 DEF Matches
  <2>8. NoneIn(when, t, u)
    <3> SUFFICES ASSUME NEW w \in t..u - 1 PROVE ~Matches(when, w)
      BY DEF NoneIn
    <3>1. w \in Int
      BY <2>6
    <3> HIDE DEF u
    <3>2. CASE \E x \in 0..K - 1 : w = b + x
      BY <2>7, <3>2
    <3>3. CASE w \div U \in (t \div U)..r - 1
      BY <1>9, <3>1, <3>3 DEF q
    <3>4. QED
      BY <2>5, <3>2, <3>3
  <2>9. QED
    BY <1>11, <2>4, <2>5, <2>6, <2>8
<1>12. QED
  BY <1>10, <1>11

-----------------------------------------------------------------------------
(* The day.                                                                *)

DayFits(when, day) == MdayOf(day) \in when.mday /\ day % NWeek \in when.wday

(* Months follow one another.                                              *)
LEMMA MonthsInOrder ==
  ASSUME NEW y \in Int, NEW m \in Months, NEW z \in Int, NEW n \in Months,
         y < z \/ (y = z /\ m < n)
  PROVE  FirstDay(y, m) + MonthDays[m + 1] <= FirstDay(z, n)
<1>1. /\ DaysBefore[m] \in Nat /\ MonthDays[m + 1] \in Nat /\ YearDays \in Nat
      /\ DaysBefore[m + 1] = DaysBefore[m] + MonthDays[m + 1]
      /\ DaysBefore[m + 1] <= YearDays /\ DaysBefore[n] \in Nat
  BY DaysBeforeInYear
<1>2. y * YearDays \in Int /\ z * YearDays \in Int
  BY <1>1, Products
<1>3. CASE y < z
  <2>1. (y + 1) * YearDays = (y * YearDays) + YearDays /\ y + 1 \in Int /\ y + 1 <= z
    BY <1>1, <1>3, Products
  <2>2. (y + 1) * YearDays <= z * YearDays
    BY <1>1, <2>1, Products
  <2>3. QED
    BY <1>1, <1>2, <2>1, <2>2 DEF FirstDay
<1>4. CASE y = z /\ m < n
  <2>1. m \in 0..NMon - 1 /\ n \in 0..NMon
    BY MonthsAre
  <2>2. DaysBefore[m] + MonthDays[m + 1] <= DaysBefore[n]
    BY <1>4, <2>1, DaysBeforeGrows
  <2>3. QED
    BY <1>1, <1>2, <1>4, <2>2 DEF FirstDay
<1>5. QED
  BY <1>3, <1>4

(* There is a whole month between two days with the same day of the month. *)
LEMMA SameMday ==
  ASSUME NEW day \in Int, NEW k \in Nat \ {0}, MdayOf(day + k) = MdayOf(day)
  PROVE  \E m \in 1..NMon : MonthDays[m] <= k
<1> DEFINE y == day \div YearDays
           m == MonthOf(day)
           z == (day + k) \div YearDays
           n == MonthOf(day + k)
           v == MdayOf(day)
<1>1. day + k \in Int
  OBVIOUS
<1>2. /\ y \in Int /\ m \in Months /\ v \in 1..MonthDays[m + 1] /\ day = FirstDay(y, m) + v - 1
  BY DayIs
<1>3. /\ z \in Int /\ n \in Months /\ day + k = FirstDay(z, n) + v - 1
  BY <1>1, DayIs
<1> HIDE DEF y, m, z, n, v
<1>4. /\ FirstDay(y, m) \in Int /\ FirstDay(z, n) \in Int /\ MonthDays[m + 1] \in Nat
      /\ MonthDays[n + 1] \in Nat /\ v \in Int /\ m \in Int /\ n \in Int /\ m + 1 \in 1..NMon
  <2>1. /\ MonthDays[m + 1] \in Nat /\ MonthDays[n + 1] \in Nat /\ m \in Int /\ n \in Int
        /\ m + 1 \in 1..NMon /\ DaysBefore[m] \in Int /\ DaysBefore[n] \in Int /\ YearDays \in Int
    <3>1. m \in Months /\ n \in Months
      BY <1>2, <1>3
    <3>2. /\ DaysBefore[m] \in Nat /\ MonthDays[m + 1] \in Nat \ {0} /\ YearDays \in Nat \ {0}
          /\ DaysBefore[n] \in Nat /\ MonthDays[n + 1] \in Nat \ {0}
      BY <3>1, DaysBeforeInYear
    <3>3. m + 1 \in 1..NMon /\ m \in Nat /\ n \in Nat
      BY <3>1, MonthsAre
    <3>4. QED
      BY <3>2, <3>3
  <2>2. y * YearDays \in Int /\ z * YearDays \in Int
    BY <1>2, <1>3, <2>1, Products
  <2>3. FirstDay(y, m) \in Int /\ FirstDay(z, n) \in Int
    BY <2>1, <2>2 DEF FirstDay
  <2>4. v \in Int
    BY <1>2, <2>1
  <2>5. QED
    BY <2>1, <2>3, <2>4
<1>5. FirstDay(z, n) = FirstDay(y, m) + k
  BY <1>2, <1>3, <1>4
<1>6. y < z \/ (y = z /\ m < n)
  <2> SUFFICES ASSUME ~(y < z \/ (y = z /\ m < n)) PROVE FALSE
    OBVIOUS
  <2>1. CASE y = z /\ m = n
    BY <1>4, <1>5, <2>1
  <2>2. CASE z < y \/ (z = y /\ n < m)
    <3>1. FirstDay(z, n) + MonthDays[n + 1] <= FirstDay(y, m)
      BY <1>2, <1>3, <2>2, MonthsInOrder
    <3>2. QED
      BY <1>4, <1>5, <3>1
  <2>3. QED
    BY <1>2, <1>3, <1>4, <2>1, <2>2
<1>7. FirstDay(y, m) + MonthDays[m + 1] <= FirstDay(z, n)
  BY <1>2, <1>3, <1>6, MonthsInOrder
<1>8. QED
  BY <1>4, <1>5, <1>7

(* Some day soon fits a schedule.                                          *)
LEMMA SomeDay ==
  ASSUME NEW when \in Whens, DaysAreSimple(when), NEW day \in Int
  PROVE  \E k \in 0..MaxDays : /\ DayFits(when, day + k)
                               /\ when.wday # 0..NWeek - 1 => k < NWeek
<1>1. CASE when.wday = 0..NWeek - 1
  <2>1. PICK v \in when.mday, m1 \in 1..NMon : v \in 1..NDay /\ MonthDays[m1] = NDay
    BY MonthSizes DEF Whens
  <2> DEFINE m == m1 - 1
             y == day \div YearDays
             e == FirstDay(y, m) + v - 1
             f == FirstDay(y + 1, m) + v - 1
  <2>2. m \in Months /\ v \in 1..MonthDays[m + 1] /\ m + 1 = m1 /\ v \in Int
    BY <2>1, Sizes, MonthSizes DEF Months
  <2>3. y \in Int /\ y + 1 \in Int /\ day \in ((y * YearDays)..(y * YearDays) + YearDays - 1)
    BY MonthSizes, Divide
  <2> HIDE DEF y, m
  <2>4. e \in Int /\ MdayOf(e) = v /\ f \in Int /\ MdayOf(f) = v
    BY <2>2, <2>3, DayOf
  <2>5. /\ DaysBefore[m] \in Nat /\ DaysBefore[m] + v - 1 < YearDays /\ YearDays \in Nat
    BY <2>2, DaysBeforeInYear
  <2>6. f = e + YearDays /\ (y * YearDays) \in Int /\ e = (y * YearDays) + (DaysBefore[m] + v - 1)
    <3>1. (y + 1) * YearDays = (y * YearDays) + YearDays /\ (y * YearDays) \in Int
      BY <2>3, <2>5, Products
    <3>2. QED
      BY <2>2, <2>5, <3>1 DEF FirstDay
  <2> HIDE DEF e, f
  <2>7. \A x \in Int : x % NWeek \in when.wday
    BY <1>1, Sizes, Divide
  <2>8. YearDays <= MaxDays /\ MaxDays \in Nat
    BY DaysAssumption, Sizes
  <2>9. CASE day <= e
    <3> DEFINE k == e - day
    <3>1. k \in 0..MaxDays /\ day + k = e
      BY <2>2, <2>3, <2>4, <2>5, <2>6, <2>8, <2>9
    <3> HIDE DEF k
    <3>2. DayFits(when, day + k)
      BY <2>1, <2>4, <2>7, <3>1 DEF DayFits
    <3>3. QED
      BY <1>1, <3>1, <3>2
  <2>10. CASE day > e
    <3> DEFINE k == f - day
    <3>1. k \in 0..MaxDays /\ day + k = f
      BY <2>2, <2>3, <2>4, <2>5, <2>6, <2>8, <2>10
    <3> HIDE DEF k
    <3>2. DayFits(when, day + k)
      BY <2>1, <2>4, <2>7, <3>1 DEF DayFits
    <3>3. QED
      BY <1>1, <3>1, <3>2
  <2>11. QED
    BY <2>4, <2>9, <2>10
<1>2. CASE when.mday = 1..NDay
  <2>1. PICK w \in when.wday : w \in 0..NWeek - 1
    BY DEF Whens
  <2> DEFINE k == (w - day) % NWeek
             a == (w - day) \div NWeek
  <2>2. w - day \in Int /\ NWeek \in Nat \ {0}
    BY <2>1, Sizes
  <2>3. a \in Int /\ k \in 0..NWeek - 1 /\ w - day = (a * NWeek) + k
    BY <2>2, Divide
  <2> HIDE DEF a, k
  <2>4. day + k = ((0 - a) * NWeek) + w /\ 0 - a \in Int /\ k \in Int
    <3>1. (0 - a) * NWeek = (0 * NWeek) - (a * NWeek) /\ 0 * NWeek = 0 /\ a * NWeek \in Int
      BY <2>2, <2>3, Products
    <3>2. QED
      BY <2>1, <2>2, <2>3, <3>1
  <2>5. (day + k) % NWeek = w
    BY <2>1, <2>2, <2>4, Remain
  <2>6. day + k \in Int
    BY <2>4
  <2>7. MdayOf(day + k) \in 1..NDay
    <3>1. MonthOf(day + k) \in Months /\ MdayOf(day + k) \in 1..MonthDays[MonthOf(day + k) + 1]
      BY <2>6, DayIs
    <3>2. MonthDays[MonthOf(day + k) + 1] <= NDay /\ MonthDays[MonthOf(day + k) + 1] \in Nat
      BY <3>1, MonthsAre, MonthSizes, Sizes
    <3>3. QED
      BY <3>1, <3>2, MonthSizes
  <2>8. k \in 0..MaxDays /\ k < NWeek
    <3>1. 1 \in 1..NMon /\ NWeek <= MonthDays[1] /\ MonthDays[1] <= YearDays /\ MonthDays[1] \in Nat
      BY Sizes, MonthSizes
    <3>2. QED
      BY <2>2, <2>3, <3>1, DaysAssumption, MonthSizes, Sizes
  <2>9. QED
    BY <1>2, <2>1, <2>5, <2>7, <2>8 DEF DayFits
<1>3. QED
  BY <1>1, <1>2 DEF DaysAreSimple

(* The day that fits is k days from this one.                              *)
FirstFit(when, day, k) ==
  /\ k \in 0..MaxDays /\ DayFits(when, day + k)
  /\ \A n \in 0..k - 1 : ~DayFits(when, day + n)
  /\ k # 0 => MdayOf(day + k) # MdayOf(day)

(* It is found, and has another number in its month.                       *)
LEMMA FirstDayThatFits ==
  ASSUME NEW when \in Whens, DaysAreSimple(when), NEW day \in Int,
         NEW k, k = Min({n \in 0..MaxDays : DayFits(when, day + n) \/ n = MaxDays})
  PROVE  FirstFit(when, day, k)
<1> DEFINE S == {n \in 0..MaxDays : DayFits(when, day + n) \/ n = MaxDays}
<1>1. PICK j \in 0..MaxDays : /\ DayFits(when, day + j)
                              /\ when.wday # 0..NWeek - 1 => j < NWeek
  BY SomeDay
<1>2. S \in SUBSET Int /\ S # {} /\ j \in S /\ \A n \in S : 0 <= n
  BY <1>1
<1>3. k \in S /\ \A n \in S : k <= n
  <2> HIDE DEF S
  <2>1. Min(S) \in S /\ \A n \in S : Min(S) <= n
    BY <1>2, MinOf
  <2>2. QED
    BY <2>1 DEF S
<1>4. k \in 0..MaxDays /\ k <= j
  BY <1>2, <1>3
<1>5. DayFits(when, day + k)
  <2>1. CASE k = MaxDays
    <3>1. k = j
      BY <1>1, <1>4, <2>1, Sizes
    <3>2. QED
      BY <1>1, <3>1
  <2>2. CASE k # MaxDays
    BY <1>3, <2>2
  <2>3. QED
    BY <2>1, <2>2
<1>6. ASSUME NEW n \in 0..k - 1 PROVE ~DayFits(when, day + n)
  <2>1. n \in 0..MaxDays /\ ~(k <= n)
    BY <1>4, Sizes
  <2>2. QED
    BY <1>3, <2>1
<1>7. ASSUME k # 0 PROVE MdayOf(day + k) # MdayOf(day)
  <2>1. ~DayFits(when, day)
    <3>1. 0 \in 0..k - 1 /\ day + 0 = day
      BY <1>4, <1>7
    <3>2. QED
      BY <1>6, <3>1
  <2>2. CASE when.wday = 0..NWeek - 1
    <3>1. day % NWeek \in when.wday
      BY <2>2, Sizes, Divide
    <3>2. QED
      BY <1>5, <2>1, <3>1 DEF DayFits
  <2>3. CASE when.wday # 0..NWeek - 1
    <3>1. k < NWeek /\ k \in Nat \ {0}
      BY <1>1, <1>4, <1>7, <2>3, Sizes
    <3>2. ASSUME NEW m \in 1..NMon, MonthDays[m] <= k PROVE FALSE
      <4>1. NWeek <= MonthDays[m] /\ MonthDays[m] \in Int /\ NWeek \in Int
        BY Sizes
      <4>2. QED
        BY <3>1, <3>2, <4>1
    <3>3. QED
      BY <3>1, <3>2, SameMday
  <2>4. QED
    BY <2>2, <2>3
<1>8. QED
  BY <1>4, <1>5, <1>6, <1>7 DEF FirstFit

(* A day is whole minutes.                                                 *)
LEMMA DayOfMinutes ==
  /\ SecondsOfDay = (NMin * NHour) * NSec /\ NMin * NHour \in Nat \ {0}
  /\ NSec <= SecondsOfDay
<1>1. NMin * NHour \in Nat \ {0}
  BY Sizes, Products
<1>2. SecondsOfDay = (NMin * NHour) * NSec
  <2>1. (NSec * NMin) * NHour = NSec * (NMin * NHour) /\ NSec * (NMin * NHour) = (NMin * NHour) * NSec
    BY <1>1, Sizes, Products
  <2>2. QED
    BY <2>1, Units
<1>3. 1 * NSec <= (NMin * NHour) * NSec
  <2> DEFINE g == NMin * NHour
  <2>1. g \in Int /\ 1 <= g /\ NSec \in Nat
    BY <1>1, Sizes
  <2> HIDE DEF g
  <2>2. 1 * NSec <= g * NSec
    BY <2>1, Products
  <2>3. QED
    BY <2>2 DEF g
<1>4. QED
  BY <1>1, <1>2, <1>3, Sizes

(* The seconds after a reset are seconds, and do not depend on the day.    *)
LEMMA KeepIs ==
  ASSUME NEW t \in Int, NEW marked
  PROVE  /\ Keep(t, marked) \in 0..NSec - 1 /\ Keep(t, marked) \in Nat
         /\ \A n \in Int : t + (n * SecondsOfDay) \in Int
                            /\ Keep(t + (n * SecondsOfDay), marked) = Keep(t, marked)
<1>1. t % NSec \in 0..NSec - 1 /\ NSec \in Nat \ {0} /\ 0 \in 0..NSec - 1
  <2>1. t % NSec \in 0..NSec - 1
    BY TimeIs
  <2>2. NSec \in Nat \ {0} /\ 0 \in 0..NSec - 1
    BY Sizes
  <2>3. QED
    BY <2>1, <2>2
<1>2. Keep(t, marked) = 0 \/ Keep(t, marked) = t % NSec
  BY DEF Keep
<1>3. ASSUME NEW n \in Int
      PROVE  /\ t + (n * SecondsOfDay) \in Int
             /\ (t + (n * SecondsOfDay)) % NSec = t % NSec
  <2> DEFINE j == n * (NMin * NHour)
  <2>1. NMin * NHour \in Int /\ n * SecondsOfDay = j * NSec /\ j \in Int
    <3> DEFINE g == NMin * NHour
    <3>1. g \in Int /\ SecondsOfDay = g * NSec
      BY DayOfMinutes
    <3> HIDE DEF g
    <3>2. n * (g * NSec) = (n * g) * NSec /\ n * g \in Int
      BY <1>1, <3>1, Products
    <3>3. QED
      BY <3>1, <3>2 DEF g
  <2> HIDE DEF j
  <2>2. j * NSec \in Int /\ (t + (j * NSec)) % NSec = t % NSec
    <3>1. NSec \in Nat \ {0} /\ NSec \in Int
      BY Sizes
    <3>2. j * NSec \in Int
      BY <2>1, <3>1, Products
    <3>3. (t + (j * NSec)) % NSec = t % NSec
      BY <2>1, <3>1, Shift
    <3>4. QED
      BY <3>2, <3>3
  <2>3. QED
    BY <2>1, <2>2
<1>4. QED
  BY <1>1, <1>2, <1>3 DEF Keep

(* The times of a day.                                                     *)
LEMMA DayAtIs ==
  ASSUME NEW day \in Int, NEW x \in 0..NSec - 1
  PROVE  /\ (day * SecondsOfDay) + x \in Int
         /\ DayAt((day * SecondsOfDay) + x) = day
         /\ LocalTime((day * SecondsOfDay) + x).sec = x
<1>1. SecondsOfDay \in Nat \ {0} /\ NSec \in Nat /\ NSec <= SecondsOfDay
  BY Units, Sizes, DayOfMinutes
<1>2. x \in 0..SecondsOfDay - 1 /\ x \in Int
  BY <1>1
<1>3. (day * SecondsOfDay) + x \in Int
  BY <1>1, <1>2, Products
<1>4. ((day * SecondsOfDay) + x) \div SecondsOfDay = day
  BY <1>1, <1>2, Quotient
<1>5. ((day * SecondsOfDay) + x) % NSec = x
  <2> DEFINE g == NMin * NHour
             j == day * g
  <2>1. g \in Int /\ SecondsOfDay = g * NSec
    BY DayOfMinutes
  <2> HIDE DEF g
  <2>2. day * SecondsOfDay = j * NSec /\ j \in Int
    BY <2>1, Sizes, Products
  <2> HIDE DEF j
  <2>3. ((j * NSec) + x) % NSec = x
    BY <2>2, Sizes, Remain
  <2>4. QED
    BY <2>2, <2>3
<1>6. QED
  BY <1>3, <1>4, <1>5, LocalTimeIs DEF DayAt

(* From t to the x-th second of a later day nothing fits, if none of the   *)
(* days does, nor the seconds before x.                                    *)
LEMMA DaysSkipped ==
  ASSUME NEW when \in Whens, NEW t \in Int, NEW day \in Int, DayAt(t) < day,
         NEW x \in 0..NSec - 1, \A y \in 0..x - 1 : y \notin when.sec,
         \A w \in Int : DayAt(w) \in DayAt(t)..day - 1 => ~Matches(when, w)
  PROVE  t < (day * SecondsOfDay) + x /\ NoneIn(when, t, (day * SecondsOfDay) + x)
<1> DEFINE U == SecondsOfDay
           b == day * U
           u == b + x
<1>1. U \in Nat \ {0} /\ x \in Nat
  BY Units, Sizes
<1>2. t \div U < day
  BY DEF DayAt
<1> HIDE DEF U
<1>3. /\ t < u
      /\ \A w \in t..u - 1 : \/ w \div U \in (t \div U)..day - 1
                             \/ \E y \in 0..x - 1 : w = b + y
  <2>1. b = day * U /\ u = b + x
    OBVIOUS
  <2> HIDE DEF b, u
  <2>2. OnTheWay(U, t, day, b, x, u)
    BY <1>1, <1>2, <2>1, Blocks, Zenon
  <2>3. QED
    BY <2>2, Zenon DEF OnTheWay
<1>4. day * U \in Int
  BY <1>1, Products
<1>5. ASSUME NEW w \in t..u - 1 PROVE ~Matches(when, w)
  <2>1. w \in Int
    BY <1>1, <1>4
  <2> HIDE DEF u
  <2>2. CASE w \div U \in (t \div U)..day - 1
    <3>1. DayAt(w) = w \div U /\ DayAt(t) = t \div U
      BY DEF DayAt, U
    <3>2. DayAt(w) \in DayAt(t)..day - 1
      BY <2>2, <3>1
    <3>3. QED
      BY <2>1, <3>2
  <2>3. CASE \E y \in 0..x - 1 : w = (day * U) + y
    <3>1. PICK y \in 0..x - 1 : w = (day * U) + y
      BY <2>3
    <3>2. y \in 0..NSec - 1
      BY Sizes
    <3>3. LocalTime(w).sec = y
      BY <3>1, <3>2, DayAtIs DEF U
    <3>4. LocalTime(w).sec \notin when.sec
      BY <3>1, <3>3
    <3>5. QED
      BY <3>4 DEF Matches
  <2>4. (w \div U \in (t \div U)..day - 1) \/ \E y \in 0..x - 1 : w = b + y
    BY <1>3
  <2>5. QED
    BY <2>2, <2>3, <2>4
<1>6. QED
  BY <1>3, <1>5 DEF NoneIn, U

(* A time that fits is on a day that fits, in a month that does.           *)
LEMMA MatchingDay ==
  ASSUME NEW when, NEW w \in Int, Matches(when, w)
  PROVE  DayFits(when, DayAt(w)) /\ MonthAt(w) \in when.mon
BY OtherFields DEF Matches, DayFits

-----------------------------------------------------------------------------
(* A day that fits stays, and one that does not moves to the next that does. *)
LEMMA DayStays ==
  ASSUME NEW when \in Whens, NEW t \in Int, NEW marked, DayFits(when, DayAt(t))
  PROVE  FindIn("mday", BitsOf(when), LocalTime(t), marked)
           = [val |-> LocalTime(t).mday, date |-> LocalTime(t)]
<1> DEFINE cex == BitsOf(when)
           date == LocalTime(t)
           day(k) == IF k = 0 THEN date ELSE resetAllFields(addToField(date, "mday", k), marked)
           fits(k) == day(k).mday - 1 \in cex.mday /\ day(k).wday \in cex.wday
           S == {k \in 0..MaxDays : fits(k) \/ k = MaxDays}
<1>1. fits(0)
  <2>1. date.mday = MdayOf(DayAt(t)) /\ date.wday = DayAt(t) % NWeek /\ date.mday \in Int
    BY OtherFields
  <2>2. QED
    BY <2>1, WhenIs DEF DayFits
<1> HIDE DEF fits
<1>2. 0 \in S /\ S \in SUBSET Int /\ \A k \in S : 0 <= k
  BY <1>1, Sizes
<1>3. Min(S) = 0
  <2> HIDE DEF S
  <2>1. S # {} /\ 0 \in Int
    BY <1>2
  <2>2. Min(S) \in S /\ \A k \in S : Min(S) <= k
    BY <1>2, <2>1, MinOf
  <2>3. Min(S) \in Int /\ Min(S) <= 0 /\ 0 <= Min(S)
    BY <1>2, <2>2
  <2>4. QED
    BY <2>3
<1>4. findNextDay(cex, date, marked) = [val |-> day(Min(S)).mday, date |-> day(Min(S))]
  BY DEF findNextDay, fits
<1>5. QED
  BY <1>3, <1>4 DEF FindIn

(* The search of a day moves on to a later time, if to any, and skips none *)
(* that fits.                                                              *)
LEMMA DaysMove ==
  ASSUME NEW when \in Whens, DaysAreSimple(when), NEW t \in Int,
         NEW marked \in SUBSET {"sec", "min", "hour"}, {"min", "hour"} \subseteq marked,
         \A x \in 0..Keep(t, marked) - 1 : x \notin when.sec
  PROVE  LET r == FindIn("mday", BitsOf(when), LocalTime(t), marked)
         IN  /\ r.val = LocalTime(t).mday => DayFits(when, DayAt(t))
             /\ r.val # LocalTime(t).mday =>
                  \E u \in Int : r.date = LocalTime(u) /\ t < u /\ NoneIn(when, t, u)
<1> DEFINE cex == BitsOf(when)
           date == LocalTime(t)
           D == DayAt(t)
           K == Keep(t, marked)
           day(k) == IF k = 0 THEN date ELSE resetAllFields(addToField(date, "mday", k), marked)
           fits(k) == day(k).mday - 1 \in cex.mday /\ day(k).wday \in cex.wday
           S == {k \in 0..MaxDays : fits(k) \/ k = MaxDays}
           T == {n \in 0..MaxDays : DayFits(when, D + n) \/ n = MaxDays}
<1>1. D \in Int /\ K \in 0..NSec - 1
  BY OtherFields, KeepIs
<1>2. ASSUME NEW k \in Nat \ {0}
      PROVE  day(k) = LocalTime(((D + k) * SecondsOfDay) + K)
  <2> DEFINE t1 == t + (k * SecondsOfDay)
  <2>1. addToField(date, "mday", k) = LocalTime(t1)
    BY AddDays
  <2>2. t1 \in Int /\ Keep(t1, marked) = K
    BY KeepIs
  <2>3. DayAt(t1) = D + k
    BY Units, Shift DEF DayAt
  <2> HIDE DEF t1, K, D
  <2>4. resetAllFields(LocalTime(t1), marked)
          = LocalTime((DayAt(t1) * SecondsOfDay) + Keep(t1, marked))
    BY <2>2, ResetIs
  <2>5. QED
    BY <2>1, <2>2, <2>3, <2>4
<1>3. ASSUME NEW k \in Nat
      PROVE  /\ day(k).mday = MdayOf(D + k) /\ day(k).wday = (D + k) % NWeek
             /\ day(k).mday \in Int
  <2>1. CASE k = 0
    <3>1. D + 0 = D
      BY <1>1
    <3>2. QED
      BY <2>1, <3>1, OtherFields
  <2>2. CASE k # 0
    <3> DEFINE u == ((D + k) * SecondsOfDay) + K
    <3>1. day(k) = LocalTime(u)
      BY <1>2, <2>2
    <3>2. u \in Int /\ DayAt(u) = D + k
      <4>1. D + k \in Int
        BY <1>1
      <4> HIDE DEF D, K
      <4>2. QED
        BY <1>1, <4>1, DayAtIs
    <3> HIDE DEF u, D, K, day
    <3>3. QED
      BY <3>1, <3>2, OtherFields
  <2>3. QED
    BY <2>1, <2>2
<1> HIDE DEF day
<1>4. ASSUME NEW k \in Nat PROVE fits(k) <=> DayFits(when, D + k)
  BY <1>3, WhenIs DEF DayFits
<1>5. S = T
  BY <1>4, Sizes
<1> DEFINE k == Min(T)
<1>6. FindIn("mday", cex, date, marked) = [val |-> day(k).mday, date |-> day(k)]
  <2>1. findNextDay(cex, date, marked) = [val |-> day(Min(S)).mday, date |-> day(Min(S))]
    BY DEF findNextDay, day
  <2>2. QED
    BY <1>5, <2>1 DEF FindIn
<1>7. /\ k \in 0..MaxDays /\ DayFits(when, D + k)
      /\ \A n \in 0..k - 1 : ~DayFits(when, D + n)
      /\ k # 0 => MdayOf(D + k) # MdayOf(D)
  <2> HIDE DEF D
  <2>1. k = Min({n \in 0..MaxDays : DayFits(when, D + n) \/ n = MaxDays})
    OBVIOUS
  <2> HIDE DEF k, S, T, fits, day
  <2>2. FirstFit(when, D, k)
    BY <1>1, <2>1, FirstDayThatFits, Zenon
  <2>3. QED
    BY <2>2, Zenon DEF FirstFit
<1> HIDE DEF k, S, T
<1>8. k \in Nat
  BY <1>7, Sizes
<1>9. date.mday = MdayOf(D) /\ day(k).mday = MdayOf(D + k)
  BY <1>3, <1>8, OtherFields
<1>10. CASE k = 0
  <2>1. D + k = D /\ day(k) = date
    BY <1>1, <1>10 DEF day
  <2>2. QED
    BY <1>6, <1>7, <2>1
<1>11. CASE k # 0
  <2> DEFINE u == ((D + k) * SecondsOfDay) + K
  <2>1. day(k) = LocalTime(u)
    BY <1>2, <1>8, <1>11 DEF day
  <2>2. D + k \in Int /\ D < D + k
    BY <1>1, <1>8, <1>11
  <2>3. u \in Int
    BY <1>1, <2>2, DayAtIs
  <2>4. ASSUME NEW w \in Int, DayAt(w) \in D..(D + k) - 1 PROVE ~Matches(when, w)
    <3> DEFINE n == DayAt(w) - D
    <3>1. n \in 0..k - 1 /\ D + n = DayAt(w)
      BY <1>1, <1>8, <2>4, OtherFields
    <3> HIDE DEF n
    <3>2. ~DayFits(when, DayAt(w))
      BY <1>7, <3>1
    <3>3. QED
      BY <3>2, MatchingDay
  <2>5. t < u /\ NoneIn(when, t, u)
    <3> DEFINE E == D + k
    <3>1. E \in Int /\ DayAt(t) < E
      BY <2>2
    <3>2. \A w \in Int : DayAt(w) \in DayAt(t)..E - 1 => ~Matches(when, w)
      BY <2>4
    <3> HIDE DEF E
    <3>3. /\ t < (E * SecondsOfDay) + K /\ NoneIn(when, t, (E * SecondsOfDay) + K)
      BY <1>1, <3>1, <3>2, DaysSkipped
    <3>4. QED
      BY <3>3 DEF E
  <2>6. QED
    BY <1>6, <1>7, <1>9, <1>11, <2>1, <2>3, <2>5
<1>12. QED
  BY <1>10, <1>11

-----------------------------------------------------------------------------
(* The month.                                                              *)

(* The same day of another month, if it has it.                            *)
LEMMA MonthTo ==
  ASSUME NEW t \in Int, NEW y \in Int, NEW m \in Months, NEW n \in Months, NEW v \in Nat \ {0},
         v <= MonthDays[m + 1], v <= MonthDays[n + 1], DayAt(t) = FirstDay(y, m) + v - 1
  PROVE  \E u \in Int : /\ setField(LocalTime(t), "mon", n) = LocalTime(u)
                        /\ DayAt(u) = FirstDay(y, n) + v - 1
                        /\ \A marked : Keep(u, marked) = Keep(t, marked)
<1>1. /\ MonthDays[m + 1] \in Nat /\ DaysBefore[m] \in Nat /\ DaysBefore[n] \in Nat
      /\ YearDays \in Nat
  BY DaysBeforeInYear
<1>2. v \in 1..MonthDays[m + 1]
  BY <1>1
<1>3. LocalTime(t).mon = m
  <2> DEFINE day == FirstDay(y, m) + v - 1
  <2>1. MonthOf(day) = m
    BY <1>2, DayOf
  <2>2. LocalTime(t).mon = MonthOf(DayAt(t))
    BY OtherFields DEF MonthAt
  <2>3. QED
    BY <2>1, <2>2
<1> DEFINE d == DaysBefore[n] - DaysBefore[m]
           u == t + (d * SecondsOfDay)
<1>4. setField(LocalTime(t), "mon", n) = LocalTime(u) /\ d \in Int
  BY <1>1, <1>3, SetMonth
<1> HIDE DEF d
<1>5. u \in Int /\ \A marked : Keep(u, marked) = Keep(t, marked)
  BY <1>4, KeepIs
<1>6. DayAt(u) = DayAt(t) + d
  BY <1>4, Units, Shift DEF DayAt
<1>7. FirstDay(y, n) = FirstDay(y, m) + d /\ FirstDay(y, m) \in Int
  <2>1. y * YearDays \in Int
    BY <1>1, Products
  <2>2. QED
    BY <1>1, <2>1 DEF FirstDay, d
<1>8. DayAt(u) = FirstDay(y, n) + v - 1
  BY <1>4, <1>6, <1>7
<1>9. QED
  BY <1>4, <1>5, <1>8

(* The first day of a month a year later.                                  *)
LEMMA YearOn ==
  ASSUME NEW y \in Int, NEW m \in Months
  PROVE  FirstDay(y + 1, m) = FirstDay(y, m) + YearDays /\ FirstDay(y, m) \in Int
<1>1. DaysBefore[m] \in Nat /\ YearDays \in Nat
  BY DaysBeforeInYear
<1>2. (y + 1) * YearDays = (y * YearDays) + YearDays /\ y * YearDays \in Int
  BY <1>1, Products
<1>3. QED
  BY <1>1, <1>2 DEF FirstDay

(* The month that is looked for is the next that the schedule names, or    *)
(* else the first.                                                         *)
LEMMA MonthStays ==
  ASSUME NEW when \in Whens, NEW t \in Int, NEW marked
  PROVE  LET r == FindIn("mon", BitsOf(when), LocalTime(t), marked)
             val == nextSetBit(when.mon, LocalTime(t).mon)
         IN  /\ r = MoveTo(val, LocalTime(t), "mon", marked) /\ r.val = val
             /\ val \in when.mon /\ val \in Months
             /\ val = LocalTime(t).mon => r.date = LocalTime(t)
             /\ LocalTime(t).mon \in when.mon => val = LocalTime(t).mon
             /\ val > LocalTime(t).mon =>
                  \A n \in when.mon : LocalTime(t).mon <= n => val <= n
             /\ val < LocalTime(t).mon =>
                  \A n \in when.mon : n < LocalTime(t).mon /\ val <= n
<1> DEFINE c == LocalTime(t).mon
           target == when.mon
           on == {i \in target : i >= c}
           val == nextSetBit(target, c)
<1>1. target \in SUBSET Months /\ target # {} /\ c \in Months /\ BitsOf(when).mon = target
  BY WhenIs, OtherFields DEF Whens
<1>2. \A i \in Months : i \in Int /\ 0 <= i
  BY MonthsAre
<1>3. FindIn("mon", BitsOf(when), LocalTime(t), marked) = MoveTo(val, LocalTime(t), "mon", marked)
  BY <1>1 DEF FindIn, findNextField
<1>4. val = IF on = {} THEN Min(target) ELSE Min(on)
  BY DEF nextSetBit
<1>5. on \subseteq target /\ \A i \in target : i >= c => i \in on
  OBVIOUS
<1> HIDE DEF c, target, val
<1>6. CASE on = {}
  <2>1. target \in SUBSET Int /\ 0 \in Int /\ \A i \in target : 0 <= i
    BY <1>1, <1>2
  <2>2. Min(target) \in target /\ \A n \in target : Min(target) <= n
    BY <1>1, <2>1, MinOf
  <2>3. \A n \in target : n < c
    BY <1>1, <1>2, <1>6
  <2>4. val \in target /\ val < c /\ c \in Int /\ \A n \in target : n < c /\ val <= n
    BY <1>1, <1>2, <1>4, <1>6, <2>2, <2>3
  <2>5. c \notin target
    BY <2>3, <2>4
  <2>6. ~(val > c) /\ val # c /\ val \in Months
    BY <1>1, <1>2, <2>4
  <2>7. QED
    BY <1>1, <1>3, <2>4, <2>5, <2>6 DEF MoveTo, c, val, target
<1>7. CASE on # {}
  <2>1. on \in SUBSET Int /\ 0 \in Int /\ \A i \in on : 0 <= i
    BY <1>1, <1>2
  <2> HIDE DEF on
  <2>2. Min(on) \in on /\ \A n \in on : Min(on) <= n
    BY <1>7, <2>1, MinOf
  <2>3. val \in target /\ val >= c /\ val \in Int /\ c \in Int /\ \A n \in target : c <= n => val <= n
    BY <1>1, <1>2, <1>4, <1>5, <1>7, <2>2 DEF on
  <2>4. c \in target => val = c
    BY <2>3
  <2>5. ~(val < c) /\ val \in Months
    BY <1>1, <2>3
  <2>6. QED
    BY <1>1, <1>3, <2>3, <2>4, <2>5 DEF MoveTo, c, val, target
<1>8. QED
  BY <1>6, <1>7

(* The month moves to the next that the schedule names, and to its first   *)
(* day, for every month has the day that had been come to.                 *)
LEMMA MonthsMove ==
  ASSUME NEW when \in Whens, EveryMonthHas(when), NEW t \in Int, DayFits(when, DayAt(t)),
         NEW marked \in SUBSET {"sec", "min", "hour", "mday"}, {"min", "hour", "mday"} \subseteq marked,
         \A x \in 0..Keep(t, marked) - 1 : x \notin when.sec,
         FindIn("mon", BitsOf(when), LocalTime(t), marked).val # LocalTime(t).mon
  PROVE  \E u \in Int : /\ FindIn("mon", BitsOf(when), LocalTime(t), marked).date = LocalTime(u)
                        /\ t < u /\ NoneIn(when, t, u)
<1> DEFINE d == LocalTime(t)
           y == YearAt(t)
           m == MonthAt(t)
           v == MdayOf(DayAt(t))
           K == Keep(t, marked)
           val == nextSetBit(when.mon, d.mon)
           z == IF val > m THEN y ELSE y + 1
           D == FirstDay(z, val)
           date == FindIn("mon", BitsOf(when), LocalTime(t), marked).date
<1>1. /\ d.mon = m /\ d.year = y /\ d.mday = v /\ y \in Int /\ m \in Months
      /\ DayAt(t) = FirstDay(y, m) + v - 1 /\ FirstDay(y, m) \in Int /\ DayAt(t) \in Int
      /\ v \in 1..MonthDays[m + 1]
  BY OtherFields
<1>2. /\ FindIn("mon", BitsOf(when), d, marked) = MoveTo(val, d, "mon", marked)
      /\ val \in when.mon /\ val \in Months /\ val # m /\ m \notin when.mon
      /\ val > m => \A n \in when.mon : m <= n => val <= n
      /\ val < m => \A n \in when.mon : n < m /\ val <= n
  BY <1>1, MonthStays
<1>3. val \in Int /\ m \in Int /\ z \in Int
  BY <1>1, <1>2, MonthsAre
<1>4. \A n \in Months : v <= MonthDays[n + 1] /\ v \in Nat \ {0}
  <2>1. when.mday \subseteq 1..Min(ToSet(MonthDays))
    BY <1>1, <1>2 DEF EveryMonthHas
  <2>2. v \in 1..Min(ToSet(MonthDays))
    BY <2>1 DEF DayFits
  <2> SUFFICES ASSUME NEW n \in Months PROVE v <= MonthDays[n + 1] /\ v \in Nat \ {0}
    OBVIOUS
  <2>3. /\ Min(ToSet(MonthDays)) \in Nat /\ Min(ToSet(MonthDays)) <= MonthDays[n + 1]
        /\ MonthDays[n + 1] \in Nat
    BY MonthSizes, MonthsAre, Sizes
  <2> HIDE DEF v
  <2>4. QED
    BY <2>2, <2>3
<1>5. ASSUME NEW w \in Int, DayAt(w) \in DayAt(t)..D - 1 PROVE MonthAt(w) \notin when.mon
  <2> DEFINE yw == YearAt(w)
             mw == MonthAt(w)
             vw == MdayOf(DayAt(w))
  <2>1. /\ yw \in Int /\ mw \in Months /\ DayAt(w) = FirstDay(yw, mw) + vw - 1 /\ DayAt(w) \in Int
        /\ vw \in 1..MonthDays[mw + 1] /\ FirstDay(yw, mw) \in Int
    BY OtherFields
  <2>2. mw \in Int /\ MonthDays[mw + 1] \in Nat /\ FirstDay(z, val) \in Int
    <3>1. mw \in Months
      BY <2>1
    <3> HIDE DEF mw, z, val
    <3>2. mw \in Int
      BY <3>1, MonthsAre
    <3>3. MonthDays[mw + 1] \in Nat
      BY <3>1, DaysBeforeInYear
    <3>4. FirstDay(z, val) \in Int
      BY <1>2, <1>3, YearOn
    <3>5. QED
      BY <3>2, <3>3, <3>4
  <2> HIDE DEF y, m, v, yw, mw, vw, z, val
  <2>3. /\ DayAt(w) >= FirstDay(yw, mw) /\ DayAt(w) < FirstDay(yw, mw) + MonthDays[mw + 1]
        /\ DayAt(w) >= FirstDay(y, m) /\ DayAt(w) < FirstDay(z, val)
    <3>1. vw \in Int /\ 1 <= vw /\ vw <= MonthDays[mw + 1] /\ v \in Int /\ 1 <= v
      BY <1>1, <1>4, <2>1, <2>2
    <3>2. QED
      BY <1>1, <1>5, <2>1, <2>2, <3>1
  <2>4. ~(yw < y \/ (yw = y /\ mw < m))
    <3> SUFFICES ASSUME yw < y \/ (yw = y /\ mw < m) PROVE FALSE
      OBVIOUS
    <3>1. FirstDay(yw, mw) + MonthDays[mw + 1] <= FirstDay(y, m)
      BY <1>1, <2>1, MonthsInOrder
    <3>2. QED
      BY <1>1, <2>1, <2>2, <2>3, <3>1
  <2>5. ~(z < yw \/ (z = yw /\ val <= mw))
    <3> SUFFICES ASSUME z < yw \/ (z = yw /\ val <= mw) PROVE FALSE
      OBVIOUS
    <3>1. FirstDay(z, val) <= FirstDay(yw, mw)
      <4>1. CASE z = yw /\ val = mw
        BY <2>1, <2>2, <4>1
      <4>2. CASE z < yw \/ (z = yw /\ val < mw)
        <5>1. FirstDay(z, val) + MonthDays[val + 1] <= FirstDay(yw, mw) /\ MonthDays[val + 1] \in Nat
          BY <1>2, <1>3, <2>1, <4>2, MonthsInOrder, DaysBeforeInYear
        <5>2. QED
          BY <2>1, <2>2, <5>1
      <4>3. QED
        BY <1>3, <2>2, <4>1, <4>2
    <3>2. QED
      BY <2>1, <2>2, <2>3, <3>1
  <2>6. CASE val > m
    <3>1. z = y
      BY <2>6 DEF z
    <3>2. m <= mw /\ mw < val
      BY <1>1, <1>3, <2>1, <2>2, <2>4, <2>5, <3>1
    <3>3. QED
      BY <1>2, <1>3, <2>2, <2>6, <3>2 DEF mw
  <2>7. CASE val < m
    <3>1. z = y + 1
      BY <1>3, <2>7 DEF z
    <3>2. m <= mw \/ mw < val
      BY <1>1, <1>3, <2>1, <2>2, <2>4, <2>5, <3>1
    <3>3. QED
      BY <1>2, <1>3, <2>2, <2>7, <3>2 DEF mw
  <2>8. QED
    BY <1>2, <1>3, <2>6, <2>7
<1>6. PICK t1 \in Int :
        /\ setField(IF val > m THEN d ELSE resetField(addToField(d, "year", 1), "mon"), "mon", val)
             = LocalTime(t1)
        /\ DayAt(t1) = D + v - 1 /\ Keep(t1, marked) = K
  <2> HIDE DEF v, m, y, val
  <2>1. CASE val > m
    <3>1. z = y
      BY <2>1
    <3>2. PICK u \in Int : /\ setField(d, "mon", val) = LocalTime(u)
                           /\ DayAt(u) = FirstDay(y, val) + v - 1
                           /\ Keep(u, marked) = K
      BY <1>1, <1>2, <1>4, MonthTo
    <3>3. QED
      BY <2>1, <3>1, <3>2
  <2>2. CASE ~(val > m)
    <3>1. z = y + 1
      BY <2>2
    <3> DEFINE t2 == t + (YearDays * SecondsOfDay)
    <3>2. addToField(d, "year", 1) = LocalTime(t2)
      BY AddYear
    <3>3. YearDays \in Int
      BY MonthSizes
    <3>4. t2 \in Int /\ Keep(t2, marked) = K
      BY <3>3, KeepIs
    <3>5. DayAt(t2) = DayAt(t) + YearDays
      BY <3>3, Units, Shift DEF DayAt
    <3> HIDE DEF t2, d, K, D
    <3>6. DayAt(t2) = FirstDay(y + 1, m) + v - 1
      <4>1. FirstDay(y + 1, m) = FirstDay(y, m) + YearDays
        BY <1>1, YearOn
      <4>2. v \in Int
        BY <1>1, <1>4
      <4>3. QED
        BY <1>1, <3>3, <3>5, <4>1, <4>2
    <3>7. y + 1 \in Int /\ 0 \in Months
      BY <1>1, MonthsAre
    <3>8. PICK t3 \in Int : /\ setField(LocalTime(t2), "mon", 0) = LocalTime(t3)
                            /\ DayAt(t3) = FirstDay(y + 1, 0) + v - 1
                            /\ Keep(t3, marked) = Keep(t2, marked)
      BY <1>1, <1>4, <3>4, <3>6, <3>7, MonthTo
    <3>9. PICK u \in Int : /\ setField(LocalTime(t3), "mon", val) = LocalTime(u)
                           /\ DayAt(u) = FirstDay(y + 1, val) + v - 1
                           /\ Keep(u, marked) = Keep(t3, marked)
      BY <1>2, <1>4, <3>7, <3>8, MonthTo
    <3>10. resetField(addToField(d, "year", 1), "mon") = LocalTime(t3)
      BY <3>2, <3>8 DEF resetField
    <3>11. QED
      BY <2>2, <3>1, <3>4, <3>8, <3>9, <3>10 DEF D
  <2>3. QED
    BY <2>1, <2>2
<1>7. date = resetAllFields(LocalTime(t1), marked)
  <2>1. date = MoveTo(val, d, "mon", marked).date
    BY <1>2
  <2>2. NextField("mon") = "year"
    BY DEF NextField
  <2> HIDE DEF val, date, d
  <2>3. QED
    BY <1>1, <1>2, <1>6, <2>1, <2>2 DEF MoveTo
<1>8. FirstDay(YearAt(t1), MonthAt(t1)) = D
  <2>1. v \in 1..MonthDays[val + 1]
    BY <1>2, <1>4, DaysBeforeInYear
  <2> HIDE DEF v, z, val
  <2>2. DayAt(t1) = FirstDay(z, val) + v - 1
    BY <1>6
  <2>3. DayAt(t1) \div YearDays = z /\ MonthOf(DayAt(t1)) = val
    BY <1>2, <1>3, <2>1, <2>2, DayOf
  <2>4. QED
    BY <2>3 DEF YearAt, MonthAt
<1> DEFINE u == (D * SecondsOfDay) + K
<1>9. date = LocalTime(u)
  <2> HIDE DEF D, K, date
  <2>1. resetAllFields(LocalTime(t1), marked)
          = LocalTime((FirstDay(YearAt(t1), MonthAt(t1)) * SecondsOfDay) + Keep(t1, marked))
    BY ResetIs
  <2>2. QED
    BY <1>6, <1>7, <1>8, <2>1
<1>10. D \in Int /\ K \in 0..NSec - 1
  BY <1>2, <1>3, YearOn, KeepIs
<1>11. DayAt(t) < D
  <2>1. FirstDay(y, m) + MonthDays[m + 1] <= D
    <3>1. y < z \/ (y = z /\ m < val)
      BY <1>1, <1>2, <1>3
    <3> HIDE DEF y, m, z, val
    <3>2. QED
      BY <1>1, <1>2, <1>3, <3>1, MonthsInOrder
  <2>2. v <= MonthDays[m + 1] /\ v \in Int /\ MonthDays[m + 1] \in Int
    BY <1>1, <1>4, DaysBeforeInYear
  <2> HIDE DEF v, m, y, D
  <2>3. QED
    BY <1>1, <1>10, <2>1, <2>2
<1>12. t < u /\ NoneIn(when, t, u)
  <2>1. \A w \in Int : DayAt(w) \in DayAt(t)..D - 1 => ~Matches(when, w)
    BY <1>5, MatchingDay
  <2>2. \A x \in 0..K - 1 : x \notin when.sec
    OBVIOUS
  <2> HIDE DEF D, K
  <2>3. QED
    BY <1>10, <1>11, <2>1, <2>2, DaysSkipped
<1>13. u \in Int
  <2> HIDE DEF D, K
  <2>1. QED
    BY <1>10, DayAtIs
<1>14. QED
  BY <1>9, <1>12, <1>13

-----------------------------------------------------------------------------
(* Loops.                                                                  *)

(* A loop has a result from every state: the last state of its steps if    *)
(* they end, and the same one for all the states on the way.               *)
LEMMA LoopExists ==
  ASSUME NEW S, NEW halt \in SUBSET S, NEW step \in [S -> S]
  PROVE  \E f : f = [s \in S |-> IF s \in halt THEN s ELSE f[step[s]]]
<1> DEFINE Path(n, p, s, e) == /\ p \in [0..n -> S] /\ p[0] = s /\ p[n] = e /\ e \in halt
                               /\ \A i \in 0..n - 1 : p[i] \notin halt /\ p[i + 1] = step[p[i]]
           LastOf(s) == {e \in S : \E n \in Nat : \E p : Path(n, p, s, e)}
           f == [s \in S |-> CHOOSE e : e \in LastOf(s)]
<1>1. ASSUME NEW s \in S, s \in halt PROVE LastOf(s) = {s}
  <2>1. s \in LastOf(s)
    <3> DEFINE p == [i \in 0..0 |-> s]
    <3>1. Path(0, p, s, s)
      BY <1>1
    <3> HIDE DEF Path, p
    <3>2. QED
      BY <3>1
  <2>2. ASSUME NEW e \in LastOf(s) PROVE e = s
    <3>0. PICK n \in Nat : \E p : Path(n, p, s, e)
      OBVIOUS
    <3>1. PICK p : Path(n, p, s, e)
      BY <3>0
    <3>2. n = 0
      <4> SUFFICES ASSUME n # 0 PROVE FALSE
        OBVIOUS
      <4>1. 0 \in 0..n - 1
        OBVIOUS
      <4>2. QED
        BY <1>1, <3>1, <4>1
    <3>3. QED
      BY <3>1, <3>2
  <2> HIDE DEF LastOf
  <2>3. QED
    BY <2>1, <2>2
<1>2. ASSUME NEW s \in S, s \notin halt PROVE LastOf(s) = LastOf(step[s])
  <2>1. ASSUME NEW e \in LastOf(s) PROVE e \in LastOf(step[s])
    <3>0. PICK n \in Nat : \E p : Path(n, p, s, e)
      OBVIOUS
    <3>1. PICK p : Path(n, p, s, e)
      BY <3>0
    <3>2. n # 0
      BY <1>2, <3>1
    <3> DEFINE q == [i \in 0..n - 1 |-> p[i + 1]]
    <3>3. Path(n - 1, q, step[s], e)
      <4>1. \A i \in 0..n - 1 : i + 1 \in 0..n /\ q[i] = p[i + 1]
        OBVIOUS
      <4>2. q \in [0..n - 1 -> S]
        BY <3>1, <4>1
      <4>3. 0 \in 0..n - 1 /\ n - 1 \in 0..n - 1 /\ (n - 1) + 1 = n /\ 0 + 1 = 1
        BY <3>2
      <4>4. q[0] = step[s]
        BY <3>1, <4>1, <4>3
      <4>5. q[n - 1] = e
        BY <3>1, <4>1, <4>3
      <4>6. ASSUME NEW i \in 0..(n - 1) - 1 PROVE q[i] \notin halt /\ q[i + 1] = step[q[i]]
        <5>1. i \in 0..n - 1 /\ i + 1 \in 0..n - 1
          OBVIOUS
        <5>2. q[i] = p[i + 1] /\ q[i + 1] = p[(i + 1) + 1]
          BY <4>1, <5>1
        <5>3. p[i + 1] \notin halt /\ p[(i + 1) + 1] = step[p[i + 1]]
          BY <3>1, <5>1
        <5>4. QED
          BY <5>2, <5>3
      <4> HIDE DEF q
      <4>7. QED
        BY <3>1, <4>2, <4>4, <4>5, <4>6
    <3>4. n - 1 \in Nat /\ e \in S
      BY <3>2
    <3> HIDE DEF Path, q
    <3>5. QED
      BY <3>3, <3>4
  <2>2. ASSUME NEW e \in LastOf(step[s]) PROVE e \in LastOf(s)
    <3>0. PICK n \in Nat : \E p : Path(n, p, step[s], e)
      OBVIOUS
    <3>1. PICK p : Path(n, p, step[s], e)
      BY <3>0
    <3> DEFINE q == [i \in 0..n + 1 |-> IF i = 0 THEN s ELSE p[i - 1]]
    <3>2. Path(n + 1, q, s, e)
      <4>1. \A i \in 0..n + 1 : i # 0 => i - 1 \in 0..n /\ q[i] = p[i - 1]
        OBVIOUS
      <4>2. q[0] = s
        OBVIOUS
      <4>3. q \in [0..n + 1 -> S]
        BY <3>1
      <4>4. q[n + 1] = e
        <5>1. n + 1 \in 0..n + 1 /\ n + 1 # 0 /\ (n + 1) - 1 = n
          OBVIOUS
        <5>2. q[n + 1] = p[n]
          BY <4>1, <5>1
        <5>3. QED
          BY <3>1, <5>2
      <4>5. ASSUME NEW i \in 0..(n + 1) - 1 PROVE q[i] \notin halt /\ q[i + 1] = step[q[i]]
        <5>1. i + 1 \in 0..n + 1 /\ i + 1 # 0 /\ (i + 1) - 1 = i
          OBVIOUS
        <5>2. q[i + 1] = p[i]
          BY <4>1, <5>1
        <5>3. CASE i = 0
          BY <1>2, <3>1, <4>2, <5>2, <5>3
        <5>4. CASE i # 0
          <6>1. i \in 0..n + 1 /\ i - 1 \in 0..n - 1 /\ (i - 1) + 1 = i
            BY <5>4
          <6>2. q[i] = p[i - 1]
            BY <4>1, <5>4, <6>1
          <6>3. p[i - 1] \notin halt /\ p[i] = step[p[i - 1]]
            BY <3>1, <6>1
          <6>4. QED
            BY <5>2, <6>2, <6>3
        <5>5. QED
          BY <5>3, <5>4
      <4> HIDE DEF q
      <4>6. QED
        BY <3>1, <4>2, <4>3, <4>4, <4>5
    <3>3. n + 1 \in Nat /\ e \in S
      OBVIOUS
    <3> HIDE DEF Path, q
    <3>4. QED
      BY <3>2, <3>3
  <2> HIDE DEF LastOf
  <2>3. QED
    BY <2>1, <2>2
<1> HIDE DEF LastOf
<1>3. ASSUME NEW s \in S PROVE f[s] = IF s \in halt THEN s ELSE f[step[s]]
  <2>1. CASE s \in halt
    BY <1>1, <2>1
  <2>2. CASE s \notin halt
    <3>1. step[s] \in S
      OBVIOUS
    <3>2. f[s] = CHOOSE e : e \in LastOf(s)
      OBVIOUS
    <3>3. f[step[s]] = CHOOSE e : e \in LastOf(step[s])
      BY <3>1
    <3>4. QED
      BY <1>2, <2>2, <3>2, <3>3
  <2>3. QED
    BY <2>1, <2>2
<1>4. f = [s \in S |-> f[s]]
  OBVIOUS
<1> HIDE DEF f
<1>5. f = [s \in S |-> IF s \in halt THEN s ELSE f[step[s]]]
  BY <1>3, <1>4
<1>6. QED
  BY <1>5

(* It comes to an end if a natural number gets smaller with every step.    *)
Shrinks(S, halt, step, f, T, left) ==
  /\ T \subseteq S /\ \A s \in T : left[s] \in Nat
  /\ \A s \in S : f[s] = IF s \in halt THEN s ELSE f[step[s]]
  /\ \A s \in T : s \notin halt => step[s] \in T /\ left[step[s]] < left[s]

(* A loop that takes something from what is left with every step ends, and *)
(* where it was to.                                                        *)
LEMMA LoopEnds ==
  ASSUME NEW S, NEW halt, NEW step, NEW f, NEW T, NEW left, Shrinks(S, halt, step, f, T, left)
  PROVE  \A s \in T : f[s] \in T /\ f[s] \in halt
<1>0. /\ T \subseteq S /\ \A s \in T : left[s] \in Nat
      /\ \A s \in S : f[s] = IF s \in halt THEN s ELSE f[step[s]]
      /\ \A s \in T : s \notin halt => step[s] \in T /\ left[step[s]] < left[s]
  BY DEF Shrinks
<1> DEFINE bad == {s \in T : ~(f[s] \in T /\ f[s] \in halt)}
           B == {left[s] : s \in bad}
<1> SUFFICES ASSUME bad # {} PROVE FALSE
  OBVIOUS
<1>1. B \in SUBSET Nat /\ B # {}
  BY <1>0
<1>2. PICK n \in B : \A k \in B : n <= k
  <2> HIDE DEF B
  <2>1. QED
    BY <1>1, LeastNat
<1>3. PICK s \in bad : n = left[s]
  OBVIOUS
<1>4. s \in T /\ s \in S
  BY <1>0
<1>5. s \notin halt
  BY <1>0, <1>4
<1>6. step[s] \in T /\ left[step[s]] < left[s] /\ f[s] = f[step[s]]
  BY <1>0, <1>4, <1>5
<1>7. step[s] \in bad
  BY <1>6
<1>8. left[step[s]] \in B
  BY <1>7
<1>9. left[s] \in Nat /\ left[step[s]] \in Nat /\ n <= left[step[s]]
  <2> HIDE DEF bad, B
  <2>1. QED
    BY <1>0, <1>2, <1>4, <1>6, <1>8
<1>10. QED
  BY <1>3, <1>6, <1>9

-----------------------------------------------------------------------------
(* The states of a search.                                                 *)

(* mktime() makes a date of what is too much in some field.                *)
LEMMA MktimeIs ==
  ASSUME NEW e, e.sec \in Int, e.min \in Int, e.hour \in Int, e.mday \in Int,
         e.mon \in Months, e.year \in Int
  PROVE  Seconds(e) \in Int /\ mktime(e) \in Dates
<1>1. DaysBefore[e.mon] \in Int /\ YearDays \in Int
  BY DaysBeforeInYear
<1>2. (e.year * YearDays) + DaysBefore[e.mon] + e.mday - 1 \in Int
  <2>1. e.year * YearDays \in Int
    BY <1>1, Products
  <2>2. QED
    BY <1>1, <2>1
<1>3. Seconds(e) = Total((e.year * YearDays) + DaysBefore[e.mon] + e.mday - 1, e.hour, e.min, e.sec)
  BY DEF Seconds, Total
<1>4. Seconds(e) \in Int
  <2> DEFINE day == (e.year * YearDays) + DaysBefore[e.mon] + e.mday - 1
  <2>1. day \in Int /\ Seconds(e) = Total(day, e.hour, e.min, e.sec)
    BY <1>2, <1>3
  <2> HIDE DEF day
  <2>2. Total(day, e.hour, e.min, e.sec) \in Int
    BY <2>1, TotalAdds
  <2>3. QED
    BY <2>1, <2>2
<1>5. QED
  BY <1>4, LocalTimeIs DEF mktime

(* Whatever is moved in a date, it is one.                                 *)
LEMMA DateMoves ==
  ASSUME NEW date \in Dates, NEW n \in Int
  PROVE  /\ \A f \in {"sec", "min", "hour", "mday", "year"} :
              setField(date, f, n) \in Dates /\ addToField(date, f, n) \in Dates
         /\ n \in Months => setField(date, "mon", n) \in Dates
         /\ \A f \in {"sec", "min", "hour", "mday", "mon"} : resetField(date, f) \in Dates
         /\ \A marked : resetAllFields(date, marked) \in Dates
<1>1. /\ date.sec \in Int /\ date.min \in Int /\ date.hour \in Int /\ date.mday \in Int
      /\ date.mon \in Months /\ date.year \in Int
      /\ DOMAIN date = {"sec", "min", "hour", "mday", "mon", "year", "wday"}
  BY DEF Dates
<1>2. ASSUME NEW f \in {"sec", "min", "hour", "mday", "year"}, NEW v \in Int
      PROVE  mktime([date EXCEPT ![f] = v]) \in Dates
  <2> DEFINE e == [date EXCEPT ![f] = v]
  <2>1. /\ e.sec \in Int /\ e.min \in Int /\ e.hour \in Int /\ e.mday \in Int
        /\ e.mon \in Months /\ e.year \in Int
    BY <1>1
  <2> HIDE DEF e
  <2>2. mktime(e) \in Dates
    BY <2>1, MktimeIs
  <2>3. QED
    BY <2>2 DEF e
<1>3. ASSUME NEW v \in Months PROVE mktime([date EXCEPT !["mon"] = v]) \in Dates
  <2> DEFINE e == [date EXCEPT !["mon"] = v]
  <2>1. /\ e.sec \in Int /\ e.min \in Int /\ e.hour \in Int /\ e.mday \in Int
        /\ e.mon \in Months /\ e.year \in Int
    BY <1>1
  <2> HIDE DEF e
  <2>2. mktime(e) \in Dates
    BY <2>1, MktimeIs
  <2>3. QED
    BY <2>2 DEF e
<1>4. ASSUME NEW f \in {"sec", "min", "hour", "mday", "year"}
      PROVE  setField(date, f, n) \in Dates /\ addToField(date, f, n) \in Dates
  <2>1. date[f] + n \in Int
    BY <1>1
  <2>2. mktime([date EXCEPT ![f] = date[f] + n]) \in Dates
    BY <1>2, <2>1
  <2>3. mktime([date EXCEPT ![f] = n]) \in Dates
    BY <1>2
  <2>4. QED
    BY <2>2, <2>3 DEF setField, addToField
<1>5. ASSUME NEW f \in {"sec", "min", "hour", "mday", "mon"} PROVE resetField(date, f) \in Dates
  <2>1. CASE f = "mon"
    BY <1>3, <2>1, MonthsAre DEF resetField, setField
  <2>2. CASE f = "mday"
    BY <1>2, <2>2 DEF resetField, setField
  <2>3. CASE f \in {"sec", "min", "hour"}
    BY <1>2, <2>3 DEF resetField, setField
  <2>4. QED
    BY <2>1, <2>2, <2>3
<1>6. ASSUME NEW marked PROVE resetAllFields(date, marked) \in Dates
  <2> DEFINE e == [f \in DOMAIN date |-> IF f \notin marked THEN date[f]
                                         ELSE IF f = "mday" THEN 1 ELSE 0]
  <2>1. /\ e.sec \in Int /\ e.min \in Int /\ e.hour \in Int /\ e.mday \in Int
        /\ e.mon \in Months /\ e.year \in Int
    BY <1>1, MonthsAre
  <2> HIDE DEF e
  <2>2. mktime(e) \in Dates
    BY <2>1, MktimeIs
  <2>3. QED
    BY <2>2 DEF e, resetAllFields
<1>7. QED
  BY <1>3, <1>4, <1>5, <1>6 DEF setField

(* The next bit is one of the bits.                                        *)
LEMMA BitIsOne ==
  ASSUME NEW target \in SUBSET Int, target # {}, \A x \in target : 0 <= x, NEW c \in Int
  PROVE  nextSetBit(target, c) \in target
<1> DEFINE on == {i \in target : i >= c}
<1>1. nextSetBit(target, c) = IF on = {} THEN Min(target) ELSE Min(on)
  BY DEF nextSetBit
<1>2. on \in SUBSET Int /\ on \subseteq target /\ 0 \in Int /\ \A x \in on : 0 <= x
  <2>1. on \subseteq target
    OBVIOUS
  <2> HIDE DEF on
  <2>2. QED
    BY <2>1
<1> HIDE DEF on
<1>3. CASE on = {}
  BY <1>1, <1>2, <1>3, MinOf
<1>4. CASE on # {}
  <2>1. Min(on) \in on
    BY <1>2, <1>4, MinOf
  <2>2. QED
    BY <1>1, <1>2, <1>4, <2>1
<1>5. QED
  BY <1>3, <1>4

(* What is found for a field is a date.                                    *)
LEMMA FindIsDate ==
  ASSUME NEW when \in Whens, NEW date \in Dates, NEW f \in {"sec", "min", "hour", "mday", "mon"}, NEW marked
  PROVE  FindIn(f, BitsOf(when), date, marked).date \in Dates
<1>1. CASE f = "mday"
  <2> DEFINE cex == BitsOf(when)
             day(k) == IF k = 0 THEN date ELSE resetAllFields(addToField(date, "mday", k), marked)
             fits(k) == day(k).mday - 1 \in cex.mday /\ day(k).wday \in cex.wday
             S == {k \in 0..MaxDays : fits(k) \/ k = MaxDays}
  <2>1. Min(S) \in S
    <3>1. S \in SUBSET Int /\ MaxDays \in S /\ 0 \in Int /\ \A k \in S : 0 <= k
      BY Sizes
    <3> HIDE DEF S
    <3>2. QED
      BY <3>1, MinOf
  <2>2. ASSUME NEW k \in Int PROVE day(k) \in Dates
    BY DateMoves
  <2> DEFINE first == Min(S)
             found == FindIn(f, cex, date, marked)
  <2>3. found.date = day(first)
    BY <1>1 DEF FindIn, findNextDay
  <2>4. first \in Int
    BY <2>1
  <2> HIDE DEF day, first
  <2>5. found.date \in Dates
    <3> HIDE DEF found
    <3>1. QED
      BY <2>2, <2>3, <2>4
  <2>6. QED
    BY <2>5
<1>2. CASE f # "mday"
  <2> DEFINE target == when[f]
             val == nextSetBit(target, date[f])
  <2>1. BitsOf(when)[f] = target
    BY <1>2, WhenIs
  <2>2. target \in SUBSET Int /\ target # {} /\ \A x \in target : 0 <= x
    <3>1. CASE f = "mon"
      <4>1. target \in SUBSET Months /\ target # {}
        BY <3>1 DEF Whens
      <4> HIDE DEF target
      <4>2. QED
        BY <4>1, MonthsAre
    <3>2. CASE f \in {"sec", "min", "hour"}
      <4>1. target \in SUBSET (0..Size(f) - 1) /\ target # {} /\ Size(f) \in Nat
        BY <3>2, WhenIs, Units
      <4> HIDE DEF target
      <4>2. QED
        BY <4>1
    <3>3. QED
      BY <1>2, <3>1, <3>2
  <2>3. f = "mon" => target \subseteq Months
    BY DEF Whens
  <2>4. date[f] \in Int
    BY <1>2, MonthsAre DEF Dates
  <2>5. FindIn(f, BitsOf(when), date, marked).date
          = IF val = date[f] THEN date
            ELSE resetAllFields(setField(IF val > date[f] THEN date
                    ELSE resetField(addToField(date, NextField(f), 1), f), f, val), marked)
    BY <1>2, <2>1 DEF FindIn, findNextField, MoveTo
  <2> HIDE DEF target
  <2>6. val \in target
    BY <2>2, <2>4, BitIsOne
  <2> HIDE DEF val
  <2>7. NextField(f) \in {"sec", "min", "hour", "mday", "year"}
    BY <1>2 DEF NextField
  <2>8. val \in Int /\ (f = "mon" => val \in Months)
    BY <2>2, <2>3, <2>6
  <2> DEFINE from == IF val > date[f] THEN date ELSE resetField(addToField(date, NextField(f), 1), f)
  <2>9. from \in Dates
    <3>1. addToField(date, NextField(f), 1) \in Dates
      BY <2>7, DateMoves
    <3>2. resetField(addToField(date, NextField(f), 1), f) \in Dates
      <4> DEFINE e == addToField(date, NextField(f), 1)
      <4> HIDE DEF e
      <4>1. e \in Dates /\ 0 \in Int
        BY <3>1 DEF e
      <4>2. resetField(e, f) \in Dates
        BY <4>1, DateMoves
      <4>3. QED
        BY <4>2 DEF e
    <3>3. QED
      BY <3>2
  <2> HIDE DEF from
  <2>10. setField(from, f, val) \in Dates
    <3>1. CASE f = "mon"
      BY <2>8, <2>9, <3>1, DateMoves
    <3>2. CASE f # "mon"
      <4>1. f \in {"sec", "min", "hour", "mday", "year"}
        BY <3>2
      <4>2. QED
        BY <2>8, <2>9, <4>1, DateMoves
    <3>3. QED
      BY <3>1, <3>2
  <2>11. resetAllFields(setField(from, f, val), marked) \in Dates
    <3> DEFINE e == setField(from, f, val)
    <3>1. e \in Dates /\ 0 \in Int
      BY <2>10
    <3> HIDE DEF e
    <3>2. resetAllFields(e, marked) \in Dates
      BY <3>1, DateMoves
    <3>3. QED
      BY <3>2 DEF e
  <2>12. QED
    BY <2>5, <2>11 DEF from
<1>3. QED
  BY <1>1, <1>2

(* The order of the fields.                                                *)
LEMMA FieldNames ==
  /\ Len(Fields) = 5 /\ Fields[1] = "sec" /\ Fields[2] = "min" /\ Fields[3] = "hour"
  /\ Fields[4] = "mday" /\ Fields[5] = "mon"
  /\ ToSet(Fields) = {"sec", "min", "hour", "mday", "mon"}
<1>1. Len(Fields) = 5 /\ DOMAIN Fields = 1..5
  BY DEF Fields
<1>2. /\ Fields[1] = "sec" /\ Fields[2] = "min" /\ Fields[3] = "hour"
      /\ Fields[4] = "mday" /\ Fields[5] = "mon"
  BY DEF Fields
<1>3. ToSet(Fields) = {Fields[i] : i \in DOMAIN Fields}
  BY DEF ToSet
<1>4. {Fields[i] : i \in 1..5} = {"sec", "min", "hour", "mday", "mon"}
  <2>1. \A i \in 1..5 : i = 1 \/ i = 2 \/ i = 3 \/ i = 4 \/ i = 5
    OBVIOUS
  <2>2. 1 \in 1..5 /\ 2 \in 1..5 /\ 3 \in 1..5 /\ 4 \in 1..5 /\ 5 \in 1..5
    OBVIOUS
  <2>3. QED
    BY <1>2, <2>1, <2>2
<1>5. QED
  BY <1>1, <1>2, <1>3, <1>4

(* The stack of calls.                                                     *)
LEMMA StackIs ==
  ASSUME NEW calls \in Seq(Calls), calls # <<>>
  PROVE  /\ Head(calls) \in Calls /\ Tail(calls) \in Seq(Calls) /\ Len(calls) \in Nat \ {0}
         /\ Len(Tail(calls)) = Len(calls) - 1
         /\ \A c \in Calls :
              /\ <<c>> \o Tail(calls) \in Seq(Calls) /\ Len(<<c>> \o Tail(calls)) = Len(calls)
              /\ Head(<<c>> \o Tail(calls)) = c /\ <<c>> \o Tail(calls) # <<>>
         /\ \A c, d \in Calls :
              /\ <<c>> \o <<d>> \o Tail(calls) \in Seq(Calls)
              /\ Len(<<c>> \o <<d>> \o Tail(calls)) = Len(calls) + 1
              /\ Head(<<c>> \o <<d>> \o Tail(calls)) = c /\ <<c>> \o <<d>> \o Tail(calls) # <<>>
<1>1. /\ Head(calls) \in Calls /\ Tail(calls) \in Seq(Calls) /\ Len(calls) \in Nat \ {0}
      /\ Len(Tail(calls)) = Len(calls) - 1
  OBVIOUS
<1> DEFINE rest == Tail(calls)
<1>2. rest \in Seq(Calls) /\ Len(rest) \in Nat
  BY <1>1
<1> HIDE DEF rest
<1>3. ASSUME NEW c \in Calls
      PROVE  /\ <<c>> \o rest \in Seq(Calls) /\ Len(<<c>> \o rest) = Len(rest) + 1
             /\ Head(<<c>> \o rest) = c /\ <<c>> \o rest # <<>>
  <2>1. <<c>> \in Seq(Calls) /\ Len(<<c>>) = 1 /\ <<c>>[1] = c
    OBVIOUS
  <2>2. <<c>> \o rest \in Seq(Calls) /\ Len(<<c>> \o rest) = Len(rest) + 1
    BY <1>2, <2>1
  <2>3. (<<c>> \o rest)[1] = c
    BY <1>2, <2>1
  <2>4. QED
    BY <1>2, <2>2, <2>3
<1>4. ASSUME NEW c \in Calls, NEW d \in Calls
      PROVE  /\ <<c>> \o <<d>> \o rest \in Seq(Calls)
             /\ Len(<<c>> \o <<d>> \o rest) = Len(rest) + 2
             /\ Head(<<c>> \o <<d>> \o rest) = c /\ <<c>> \o <<d>> \o rest # <<>>
  <2>1. /\ <<c>> \o <<d>> \in Seq(Calls) /\ Len(<<c>> \o <<d>>) = 2
        /\ (<<c>> \o <<d>>)[1] = c
    OBVIOUS
  <2> DEFINE two == <<c>> \o <<d>>
  <2>2. two \in Seq(Calls) /\ Len(two) = 2 /\ two[1] = c
    BY <2>1
  <2> HIDE DEF two
  <2>3. /\ two \o rest \in Seq(Calls) /\ Len(two \o rest) = Len(two) + Len(rest)
        /\ \A i \in 1..Len(two) + Len(rest) :
             (two \o rest)[i] = IF i <= Len(two) THEN two[i] ELSE rest[i - Len(two)]
    BY <1>2, <2>2, ConcatProperties
  <2>4. 1 \in 1..Len(two) + Len(rest) /\ 1 <= Len(two) /\ Len(two) + Len(rest) = Len(rest) + 2
    BY <1>2, <2>2
  <2>5. QED
    BY <1>2, <2>2, <2>3, <2>4 DEF two
<1>5. QED
  BY <1>1, <1>2, <1>3, <1>4 DEF rest

(* Every step of a search leads to a state of one.                         *)
LEMMA StepIsSearch ==
  ASSUME NEW when \in Whens, NEW dot, NEW s \in Searches, s.calls # <<>>
  PROVE  SearchStep(BitsOf(when), dot, s) \in Searches
<1> DEFINE call == Head(s.calls)
           f == Fields[call.at]
           r == FindIn(f, BitsOf(when), s.date, call.marked)
           moved == r.val # s.date[f]
           goesOn == [at |-> call.at + 1,
                      marked |-> IF moved THEN call.marked ELSE call.marked \cup {f}]
<1>1. s.ok \in BOOLEAN /\ s.date \in Dates /\ s.calls \in Seq(Calls)
      /\ s = [ok |-> s.ok, date |-> s.date, calls |-> s.calls]
  BY DEF Searches
<1>2. call \in Calls /\ call.at \in 1..6 /\ call.marked \in SUBSET ToSet(Fields)
  <2>1. call \in Calls
    BY <1>1, StackIs
  <2>2. QED
    BY <2>1, FieldNames DEF Calls
<1>3. CASE call.at > Len(Fields)
  <2>1. SearchStep(BitsOf(when), dot, s) = [s EXCEPT !.calls = Tail(s.calls)]
    BY <1>3 DEF SearchStep
  <2>2. Tail(s.calls) \in Seq(Calls)
    BY <1>1, StackIs
  <2>3. QED
    BY <1>1, <2>1, <2>2 DEF Searches
<1>4. CASE ~(call.at > Len(Fields))
  <2>1. call.at \in 1..5 /\ f \in {"sec", "min", "hour", "mday", "mon"}
    <3>1. call.at \in 1..5
      BY <1>2, <1>4, FieldNames
    <3>2. call.at = 1 \/ call.at = 2 \/ call.at = 3 \/ call.at = 4 \/ call.at = 5
      BY <3>1
    <3>3. QED
      BY <3>1, <3>2, FieldNames
  <2>2. SearchStep(BitsOf(when), dot, s) = FieldDone(s, r, dot)
    BY <1>4 DEF SearchStep
  <2>3. r.date \in Dates
    BY <1>1, <2>1, FindIsDate
  <2> HIDE DEF f
  <2>4. goesOn \in Calls
    BY <1>2, <2>1, FieldNames DEF Calls
  <2>5. NewCall \in Calls
    BY FieldNames DEF NewCall, Calls
  <2>6. Failed(s) \in Searches
    <3>1. <<>> \in Seq(Calls)
      OBVIOUS
    <3>2. QED
      BY <1>1, <3>1 DEF Failed, Searches
  <2> HIDE DEF r, goesOn, moved
  <2>7. (IF moved /\ f # "sec" THEN <<NewCall>> ELSE <<>>) \o <<goesOn>> \o Tail(s.calls) \in Seq(Calls)
    <3>1. CASE moved /\ f # "sec"
      BY <1>1, <2>4, <2>5, <3>1, StackIs
    <3>2. CASE ~(moved /\ f # "sec")
      <4>1. <<>> \o <<goesOn>> = <<goesOn>>
        BY <2>4
      <4>2. <<goesOn>> \o Tail(s.calls) \in Seq(Calls)
        BY <1>1, <2>4, StackIs
      <4>3. QED
        BY <3>2, <4>1, <4>2
    <3>3. QED
      BY <3>1, <3>2
  <2>8. FieldDone(s, r, dot)
          = IF moved /\ f = "mon" /\ r.date.year - dot > MaxYears THEN Failed(s)
            ELSE [s EXCEPT !.date = r.date,
                           !.calls = (IF moved /\ f # "sec" THEN <<NewCall>> ELSE <<>>)
                                     \o <<goesOn>> \o Tail(s.calls)]
    BY DEF FieldDone, moved, goesOn, f
  <2>9. [s EXCEPT !.date = r.date,
                  !.calls = (IF moved /\ f # "sec" THEN <<NewCall>> ELSE <<>>)
                            \o <<goesOn>> \o Tail(s.calls)] \in Searches
    <3> DEFINE new == (IF moved /\ f # "sec" THEN <<NewCall>> ELSE <<>>) \o <<goesOn>> \o Tail(s.calls)
    <3>1. new \in Seq(Calls)
      BY <2>7
    <3> HIDE DEF new
    <3>2. [s EXCEPT !.date = r.date, !.calls = new] \in Searches
      BY <1>1, <2>3, <3>1 DEF Searches
    <3>3. QED
      BY <3>2 DEF new
  <2>10. QED
    BY <2>2, <2>6, <2>8, <2>9
<1>5. QED
  BY <1>3, <1>4

Halted == {s \in Searches : s.calls = <<>>}

(* The search is the last of its steps.                                    *)
LEMMA FindNextIs ==
  ASSUME NEW when \in Whens, NEW date
  PROVE  \E f : /\ findNext(BitsOf(when), date) = f[Begin(date)]
                /\ \A s \in Searches :
                     f[s] = IF s \in Halted THEN s ELSE f[SearchStep(BitsOf(when), date.year, s)]
<1> DEFINE cex == BitsOf(when)
           step == [s \in Searches |-> IF s.calls = <<>> THEN s ELSE SearchStep(cex, date.year, s)]
           F(f) == [s \in Searches |-> IF s.calls = <<>> THEN s ELSE f[SearchStep(cex, date.year, s)]]
           h == CHOOSE f : f = F(f)
<1>1. step \in [Searches -> Searches] /\ Halted \in SUBSET Searches
  BY StepIsSearch DEF Halted
<1>2. \A s \in Searches : (s.calls = <<>> <=> s \in Halted)
                           /\ (s.calls # <<>> => step[s] = SearchStep(cex, date.year, s))
  BY DEF Halted
<1> HIDE DEF step, cex
<1>3. PICK g : g = [s \in Searches |-> IF s \in Halted THEN s ELSE g[step[s]]]
  BY <1>1, LoopExists
<1>4. \A f : F(f) = [s \in Searches |-> IF s \in Halted THEN s ELSE f[step[s]]]
  <2> SUFFICES ASSUME NEW f PROVE F(f) = [s \in Searches |-> IF s \in Halted THEN s ELSE f[step[s]]]
    OBVIOUS
  <2>1. ASSUME NEW s \in Searches
        PROVE  (IF s.calls = <<>> THEN s ELSE f[SearchStep(cex, date.year, s)])
                 = (IF s \in Halted THEN s ELSE f[step[s]])
    BY <1>2
  <2>2. QED
    BY <2>1
<1>5. g = F(g)
  BY <1>3, <1>4
<1>6. h = F(h)
  <2> HIDE DEF F
  <2>1. QED
    BY <1>5
<1>7. findNext(cex, date) = h[Begin(date)]
  BY DEF findNext, h, F
<1>8. \A s \in Searches : h[s] = IF s \in Halted THEN s ELSE h[SearchStep(cex, date.year, s)]
  <2> SUFFICES ASSUME NEW s \in Searches
               PROVE  h[s] = IF s \in Halted THEN s ELSE h[SearchStep(cex, date.year, s)]
    OBVIOUS
  <2>1. F(h)[s] = IF s.calls = <<>> THEN s ELSE h[SearchStep(cex, date.year, s)]
    OBVIOUS
  <2> HIDE DEF h, F
  <2>2. QED
    BY <1>2, <1>6, <2>1
<1> HIDE DEF h
<1>9. QED
  BY <1>7, <1>8 DEF cex

-----------------------------------------------------------------------------
(* A time that fits, if any does, is found within the next year.           *)

(* The time of a day, an hour, a minute and a second.                      *)
LEMMA TotalIs ==
  ASSUME NEW day \in Int, NEW h \in 0..NHour - 1, NEW m \in 0..NMin - 1, NEW s \in 0..NSec - 1
  PROVE  LET t == Total(day, h, m, s)
         IN  /\ t \in Int /\ DayAt(t) = day
             /\ LocalTime(t).hour = h /\ LocalTime(t).min = m /\ LocalTime(t).sec = s
<1> DEFINE a == (day * NHour) + h
           b == (a * NMin) + m
           t == (b * NSec) + s
<1>1. NSec \in Nat \ {0} /\ NMin \in Nat \ {0} /\ NHour \in Nat \ {0} /\ NSec * NMin \in Nat \ {0}
  BY Sizes, Products
<1>2. a \in Int /\ a % NHour = h /\ a \div NHour = day
  <2>1. day * NHour \in Int
    BY <1>1, Products
  <2>2. h \in Int
    BY <1>1
  <2>3. a \in Int
    BY <2>1, <2>2
  <2>4. a % NHour = h
    BY <1>1, Remain
  <2>5. a \div NHour = day
    BY <1>1, Quotient
  <2>6. QED
    BY <2>3, <2>4, <2>5
<1> HIDE DEF a
<1>3. b \in Int /\ b % NMin = m /\ b \div NMin = a
  <2>1. a * NMin \in Int
    BY <1>1, <1>2, Products
  <2>2. m \in Int
    BY <1>1
  <2>3. b \in Int
    BY <2>1, <2>2
  <2>4. b % NMin = m
    BY <1>1, <1>2, Remain
  <2>5. b \div NMin = a
    BY <1>1, <1>2, Quotient
  <2>6. QED
    BY <2>3, <2>4, <2>5
<1> HIDE DEF b
<1>4. t \in Int /\ t % NSec = s /\ t \div NSec = b
  <2>1. b * NSec \in Int
    BY <1>1, <1>3, Products
  <2>2. s \in Int
    BY <1>1
  <2>3. t \in Int
    BY <2>1, <2>2
  <2>4. t % NSec = s
    BY <1>1, <1>3, Remain
  <2>5. t \div NSec = b
    BY <1>1, <1>3, Quotient
  <2>6. QED
    BY <2>3, <2>4, <2>5
<1>5. t = Total(day, h, m, s)
  BY DEF Total, a, b
<1> HIDE DEF t
<1>6. t \div (NSec * NMin) = a
  <2>1. t \div (NSec * NMin) = (t \div NSec) \div NMin
    BY <1>1, <1>4, DivideTwice
  <2>2. QED
    BY <1>3, <1>4, <2>1
<1>7. DayAt(t) = day
  <2> DEFINE U == NSec * NMin
  <2>1. U \in Nat \ {0} /\ SecondsOfDay = U * NHour /\ t \div U = a
    BY <1>1, <1>6 DEF SecondsOfDay
  <2> HIDE DEF U
  <2>2. t \div (U * NHour) = (t \div U) \div NHour
    BY <1>1, <1>4, <2>1, DivideTwice
  <2>3. QED
    BY <1>2, <2>1, <2>2 DEF DayAt
<1>8. /\ LocalTime(t).sec = t % NSec /\ LocalTime(t).min = (t \div NSec) % NMin
      /\ LocalTime(t).hour = (t \div (NSec * NMin)) % NHour
  BY <1>4, LocalTimeIs
<1>9. QED
  BY <1>2, <1>3, <1>4, <1>5, <1>6, <1>7, <1>8

(* The later a time is, the later its year.                                *)
LEMMA YearGrows ==
  ASSUME NEW t \in Int, NEW u \in Int, t <= u
  PROVE  YearAt(t) <= YearAt(u) /\ YearAt(t) \in Int
<1>1. SecondsOfDay \in Nat \ {0} /\ YearDays \in Nat \ {0}
  BY Units, MonthSizes
<1>2. DayAt(t) <= DayAt(u) /\ DayAt(t) \in Int /\ DayAt(u) \in Int
  BY <1>1, DivideGrows, Divide DEF DayAt
<1> DEFINE p == DayAt(t)
           q == DayAt(u)
<1> HIDE DEF p, q
<1>3. p \in Int /\ q \in Int /\ p <= q
  BY <1>2 DEF p, q
<1>4. p \div YearDays <= q \div YearDays /\ p \div YearDays \in Int
  BY <1>1, <1>3, DivideGrows, Divide
<1>5. QED
  BY <1>4 DEF p, q, YearAt

(* A schedule has a day in every year, ...                                 *)
LEMMA SomeDayOfYear ==
  ASSUME NEW when \in Whens, EveryMonthHas(when), DaysAreSimple(when), NEW y \in Int
  PROVE  \E day \in Int : DayFits(when, day) /\ MonthOf(day) \in when.mon /\ day \div YearDays = y
<1>1. /\ when.mon \subseteq Months /\ when.mon # {} /\ when.mday # {} /\ when.mday \subseteq 1..NDay
      /\ when.wday \subseteq 0..NWeek - 1
  BY DEF Whens
<1>2. CASE when.wday = 0..NWeek - 1
  <2>1. PICK v \in when.mday : TRUE
    BY <1>1
  <2>2. v \in Int /\ 1 <= v /\ v <= NDay
    BY <1>1, MonthSizes
  <2>3. PICK n \in when.mon : v <= MonthDays[n + 1]
    <3>1. CASE when.mon = Months
      <4>1. PICK m \in 1..NMon : MonthDays[m] = NDay
        BY MonthSizes
      <4>2. m - 1 \in Months /\ (m - 1) + 1 = m
        BY Sizes, MonthsAre
      <4>3. QED
        BY <2>2, <3>1, <4>1, <4>2
    <3>2. CASE when.mon # Months
      <4>1. when.mday \subseteq 1..Min(ToSet(MonthDays))
        BY <3>2 DEF EveryMonthHas
      <4>2. PICK n \in when.mon : TRUE
        BY <1>1
      <4>3. n + 1 \in 1..NMon
        BY <1>1, MonthsAre
      <4>4. /\ Min(ToSet(MonthDays)) \in Nat /\ Min(ToSet(MonthDays)) <= MonthDays[n + 1]
            /\ MonthDays[n + 1] \in Nat
        BY <4>3, MonthSizes, Sizes
      <4>5. v <= MonthDays[n + 1]
        BY <2>2, <4>1, <4>4
      <4>6. QED
        BY <4>5
    <3>3. QED
      BY <3>1, <3>2
  <2>4. n \in Months /\ v \in 1..MonthDays[n + 1]
    BY <1>1, <2>2, <2>3, DaysBeforeInYear
  <2> DEFINE day == FirstDay(y, n) + v - 1
  <2>5. day \in Int /\ day \div YearDays = y /\ MonthOf(day) = n /\ MdayOf(day) = v
    BY <2>4, DayOf
  <2> HIDE DEF day
  <2>6. day % NWeek \in 0..NWeek - 1
    BY <2>5, Sizes, Divide
  <2>7. DayFits(when, day)
    BY <1>2, <2>5, <2>6 DEF DayFits
  <2>8. QED
    BY <2>5, <2>7
<1>3. CASE when.wday # 0..NWeek - 1
  <2>1. PICK n \in when.mon : TRUE
    BY <1>1
  <2> DEFINE first == FirstDay(y, n)
  <2>2. n \in Months /\ first \in Int
    BY <1>1, YearOn
  <2> HIDE DEF first
  <2>3. PICK k \in 0..MaxDays : DayFits(when, first + k) /\ k < NWeek
    BY <1>3, <2>2, SomeDay
  <2>4. k + 1 \in 1..MonthDays[n + 1]
    <3>1. n + 1 \in 1..NMon
      BY <2>2, MonthsAre
    <3>2. NWeek <= MonthDays[n + 1] /\ MonthDays[n + 1] \in Nat /\ NWeek \in Nat /\ k \in Nat
      BY <3>1, Sizes
    <3>3. QED
      BY <2>3, <3>2
  <2> DEFINE v == k + 1
             day == first + k
  <2>5. FirstDay(y, n) + v - 1 = day
    BY <2>2, <2>3, Sizes DEF first
  <2> HIDE DEF v, day
  <2>6. v \in 1..MonthDays[n + 1]
    BY <2>4 DEF v
  <2>7. day \in Int /\ day \div YearDays = y /\ MonthOf(day) = n
    BY <2>2, <2>5, <2>6, DayOf
  <2>8. QED
    BY <2>3, <2>7 DEF day
<1>4. QED
  BY <1>2, <1>3

(* ... so that a time that fits it follows within that of the next year.   *)
LEMMA FirstMatch ==
  ASSUME NEW when \in Whens, EveryMonthHas(when), DaysAreSimple(when), NEW t \in Int
  PROVE  \E u \in Int : /\ t <= u /\ Matches(when, u) /\ NoneIn(when, t, u)
                        /\ YearAt(u) <= YearAt(t) + 1
<1> DEFINE y == YearAt(t)
<1>1. y \in Int
  BY OtherFields
<1>2. PICK day \in Int : DayFits(when, day) /\ MonthOf(day) \in when.mon /\ day \div YearDays = y + 1
  BY <1>1, SomeDayOfYear
<1>3. /\ when.sec \subseteq 0..NSec - 1 /\ when.min \subseteq 0..NMin - 1
      /\ when.hour \subseteq 0..NHour - 1
      /\ when.sec # {} /\ when.min # {} /\ when.hour # {}
  BY DEF Whens
<1>4. PICK h \in when.hour, m \in when.min, s \in when.sec : TRUE
  BY <1>3
<1>5. h \in 0..NHour - 1 /\ m \in 0..NMin - 1 /\ s \in 0..NSec - 1
  BY <1>3
<1> DEFINE w == Total(day, h, m, s)
<1>6. /\ w \in Int /\ DayAt(w) = day
      /\ LocalTime(w).hour = h /\ LocalTime(w).min = m /\ LocalTime(w).sec = s
  BY <1>5, TotalIs
<1> HIDE DEF w
<1>7. Matches(when, w)
  <2>1. /\ LocalTime(w).mday = MdayOf(day) /\ LocalTime(w).mon = MonthOf(day)
        /\ LocalTime(w).wday = day % NWeek
    BY <1>6, OtherFields DEF MonthAt
  <2>2. QED
    BY <1>2, <1>4, <1>6, <2>1 DEF Matches, DayFits
<1>8. YearAt(w) = y + 1
  BY <1>2, <1>6 DEF YearAt
<1>9. t <= w
  <2> SUFFICES ASSUME w <= t PROVE FALSE
    BY <1>6
  <2>1. YearAt(w) <= YearAt(t)
    BY <1>6, YearGrows
  <2>2. QED
    BY <1>1, <1>8, <2>1
<1> DEFINE all == {u \in t..w : Matches(when, u)}
           u == Min(all)
<1>10. all \in SUBSET Int /\ w \in all /\ \A x \in all : t <= x
  BY <1>6, <1>7, <1>9
<1>11. u \in all /\ \A x \in all : u <= x
  <2> HIDE DEF all
  <2>1. QED
    BY <1>10, MinOf
<1>12. u \in Int /\ t <= u /\ u <= w /\ Matches(when, u)
  BY <1>6, <1>11
<1>13. NoneIn(when, t, u)
  <2> SUFFICES ASSUME NEW x \in t..u - 1, Matches(when, x) PROVE FALSE
    BY DEF NoneIn
  <2> HIDE DEF u
  <2>1. x \in all /\ x < u
    BY <1>6, <1>12
  <2> HIDE DEF all
  <2>2. u <= x
    BY <1>11, <2>1
  <2>3. QED
    BY <1>12, <2>1, <2>2
<1> HIDE DEF u, all
<1>14. YearAt(u) <= y + 1
  <2>1. YearAt(u) <= YearAt(w)
    BY <1>6, <1>12, YearGrows
  <2>2. QED
    BY <1>8, <2>1
<1>15. QED
  BY <1>12, <1>13, <1>14

-----------------------------------------------------------------------------
(* A search on its way: what its calls have seen to, and what is left.     *)

FieldFits(when, t, f) == IF f = "mday" THEN DayFits(when, DayAt(t)) ELSE LocalTime(t)[f] \in when[f]

(* What a call of find_next() has seen to, unless everything fits by now:  *)
(* the fields before the one it is at; they are marked, which the seconds  *)
(* need not be if there is no other second.                                *)
CallFits(when, call, t) ==
  /\ \A i \in 1..call.at - 1 : FieldFits(when, t, Fields[i])
  /\ call.marked \subseteq {Fields[i] : i \in 1..call.at - 1}
  /\ {Fields[i] : i \in 2..call.at - 1} \subseteq call.marked
  /\ call.at > 1 => "sec" \in call.marked \/ when.sec = {t % NSec}

(* Which fields a call has marked by the time it is at a field: the lower  *)
(* ones, but for the seconds.                                              *)
LEMMA CallMarks ==
  ASSUME NEW when, NEW call \in Calls, NEW t, CallFits(when, call, t)
  PROVE  /\ call.at = 1 => call.marked = {}
         /\ call.at = 2 => call.marked \subseteq {"sec"}
         /\ call.at = 3 => call.marked \subseteq {"sec", "min"} /\ {"min"} \subseteq call.marked
         /\ call.at = 4 => /\ call.marked \subseteq {"sec", "min", "hour"}
                           /\ {"min", "hour"} \subseteq call.marked
         /\ call.at = 5 => /\ call.marked \subseteq {"sec", "min", "hour", "mday"}
                           /\ {"min", "hour", "mday"} \subseteq call.marked
<1>1. call.at \in 1..6
  BY FieldNames DEF Calls
<1> DEFINE n == call.at - 1
<1>2. call.marked \subseteq {Fields[i] : i \in 1..n} /\ {Fields[i] : i \in 2..n} \subseteq call.marked
  BY DEF CallFits
<1>3. \A i \in 1..0 : FALSE
  OBVIOUS
<1>4. \A i \in 1..1 : i = 1
  OBVIOUS
<1>5. \A i \in 1..2 : i = 1 \/ i = 2
  OBVIOUS
<1>6. \A i \in 1..3 : i = 1 \/ i = 2 \/ i = 3
  OBVIOUS
<1>7. \A i \in 1..4 : i = 1 \/ i = 2 \/ i = 3 \/ i = 4
  OBVIOUS
<1>8. 2 \in 2..2 /\ 2 \in 2..3 /\ 3 \in 2..3 /\ 2 \in 2..4 /\ 3 \in 2..4 /\ 4 \in 2..4
  OBVIOUS
<1>9. /\ call.at = 1 => n = 0
      /\ call.at = 2 => n = 1
      /\ call.at = 3 => n = 2
      /\ call.at = 4 => n = 3
      /\ call.at = 5 => n = 4
  BY <1>1
<1> HIDE DEF n
<1>10. CASE n = 0
  BY <1>1, <1>2, <1>3, <1>10 DEF n
<1>11. CASE n = 1
  BY <1>1, <1>2, <1>4, <1>11, FieldNames DEF n
<1>12. CASE n = 2
  BY <1>1, <1>2, <1>5, <1>8, <1>12, FieldNames DEF n
<1>13. CASE n = 3
  BY <1>1, <1>2, <1>6, <1>8, <1>13, FieldNames DEF n
<1>14. CASE n = 4
  BY <1>1, <1>2, <1>7, <1>8, <1>14, FieldNames DEF n
<1>15. CASE n = 5
  BY <1>1, <1>15 DEF n
<1>16. n \in 0..5
  BY <1>1 DEF n
<1>17. QED
  BY <1>10, <1>11, <1>12, <1>13, <1>14, <1>15, <1>16

(* A time fits if each of the five fields does.                            *)
LEMMA MatchIs ==
  ASSUME NEW when, NEW t \in Int
  PROVE  Matches(when, t) <=> \A i \in 1..5 : FieldFits(when, t, Fields[i])
<1>1. /\ LocalTime(t).mday = MdayOf(DayAt(t)) /\ LocalTime(t).wday = DayAt(t) % NWeek
  BY OtherFields
<1>2. \A i \in 1..5 : i = 1 \/ i = 2 \/ i = 3 \/ i = 4 \/ i = 5
  OBVIOUS
<1>3. 1 \in 1..5 /\ 2 \in 1..5 /\ 3 \in 1..5 /\ 4 \in 1..5 /\ 5 \in 1..5
  OBVIOUS
<1> DEFINE F(f) == FieldFits(when, t, f)
<1>4. (\A i \in 1..5 : F(Fields[i])) <=> F("sec") /\ F("min") /\ F("hour") /\ F("mday") /\ F("mon")
  <2> HIDE DEF F
  <2>1. QED
    BY <1>2, <1>3, FieldNames
<1>5. Matches(when, t) <=> F("sec") /\ F("min") /\ F("hour") /\ F("mday") /\ F("mon")
  BY <1>1 DEF Matches, FieldFits, DayFits
<1>6. QED
  BY <1>4, <1>5

(* The next field: it fits, or it moves without passing a time that fits.  *)
LEMMA FieldStep ==
  ASSUME NEW when \in Whens, EveryMonthHas(when), DaysAreSimple(when), NEW t \in Int,
         NEW call \in Calls, call.at \in 1..5, Matches(when, t) \/ CallFits(when, call, t)
  PROVE  LET f == Fields[call.at]
             r == FindIn(f, BitsOf(when), LocalTime(t), call.marked)
         IN  /\ r.val = LocalTime(t)[f] => r.date = LocalTime(t) /\ FieldFits(when, t, f)
             /\ r.val # LocalTime(t)[f] =>
                  /\ ~Matches(when, t)
                  /\ \E u \in Int : /\ r.date = LocalTime(u) /\ t < u /\ NoneIn(when, t, u)
                                    /\ f = "sec" => LocalTime(u).sec \in when.sec
<1> DEFINE f == Fields[call.at]
           marked == call.marked
           r == FindIn(f, BitsOf(when), LocalTime(t), marked)
<1>1. call.at = 1 \/ call.at = 2 \/ call.at = 3 \/ call.at = 4 \/ call.at = 5
  OBVIOUS
<1>2. f \in {"sec", "min", "hour"} \/ f = "mday" \/ f = "mon"
  BY <1>1, FieldNames
<1>3. Matches(when, t) => FieldFits(when, t, f)
  BY MatchIs
<1>4. ASSUME CallFits(when, call, t), call.at > 1 PROVE \A x \in 0..Keep(t, marked) - 1 : x \notin when.sec
  <2>1. "sec" \in marked \/ when.sec = {t % NSec}
    BY <1>4 DEF CallFits
  <2>2. CASE "sec" \in marked
    BY <2>2 DEF Keep
  <2>3. CASE when.sec = {t % NSec} /\ "sec" \notin marked
    <3> DEFINE k == t % NSec
    <3>1. k \in Int /\ Keep(t, marked) = k /\ when.sec = {k}
      BY <2>3, TimeIs, Sizes DEF Keep
    <3> HIDE DEF k
    <3>2. QED
      BY <3>1
  <2>4. QED
    BY <2>1, <2>2, <2>3
<1>5. CASE f \in {"sec", "min", "hour"}
  <2>1. /\ r.val \in when[f]
        /\ r.val = LocalTime(t)[f] => r.date = LocalTime(t)
        /\ LocalTime(t)[f] \in when[f] => r.val = LocalTime(t)[f]
    <3> HIDE DEF f, marked
    <3>1. QED
      BY <1>5, FieldStays DEF r
  <2>2. FieldFits(when, t, f) <=> LocalTime(t)[f] \in when[f]
    BY <1>5 DEF FieldFits
  <2>3. ASSUME r.val # LocalTime(t)[f]
        PROVE  \E u \in Int : /\ r.date = LocalTime(u) /\ t < u /\ NoneIn(when, t, u)
                              /\ f = "sec" => LocalTime(u).sec \in when.sec
    <3>1. CallFits(when, call, t)
      BY <1>3, <2>1, <2>2, <2>3
    <3>2. call.at = 1 \/ call.at = 2 \/ call.at = 3
      BY <1>1, <1>5, FieldNames
    <3>3. /\ f = "sec" => marked = {}
          /\ f = "min" => marked \subseteq {"sec"}
          /\ f = "hour" => "min" \in marked
          /\ marked \in SUBSET {"sec", "min"}
      BY <3>1, <3>2, CallMarks, FieldNames
    <3>4. f # "sec" => \A x \in 0..Keep(t, marked) - 1 : x \notin when.sec
      <4>1. f # "sec" => call.at > 1
        BY <3>2, FieldNames
      <4>2. QED
        BY <1>4, <3>1, <4>1
    <3> HIDE DEF f, marked
    <3>5. QED
      BY <1>5, <2>3, <3>3, <3>4, FieldMoves DEF r
  <2> HIDE DEF r, f
  <2>4. QED
    BY <1>3, <2>1, <2>2, <2>3 DEF r, f, marked
<1>6. CASE f = "mday"
  <2>1. DayFits(when, DayAt(t)) => r = [val |-> LocalTime(t).mday, date |-> LocalTime(t)]
    <3> HIDE DEF f, marked
    <3>1. QED
      BY <1>6, DayStays DEF r
  <2>2. FieldFits(when, t, f) <=> DayFits(when, DayAt(t))
    BY <1>6 DEF FieldFits
  <2>3. ASSUME CallFits(when, call, t)
        PROVE  /\ r.val = LocalTime(t).mday => DayFits(when, DayAt(t))
               /\ r.val # LocalTime(t).mday =>
                    \E u \in Int : r.date = LocalTime(u) /\ t < u /\ NoneIn(when, t, u)
    <3>1. call.at = 4
      BY <1>1, <1>6, FieldNames
    <3>2. marked \in SUBSET {"sec", "min", "hour"} /\ {"min", "hour"} \subseteq marked
      BY <2>3, <3>1, CallMarks
    <3>3. \A x \in 0..Keep(t, marked) - 1 : x \notin when.sec
      BY <1>4, <2>3, <3>1
    <3> HIDE DEF f, marked
    <3>4. QED
      BY <1>6, <3>2, <3>3, DaysMove DEF r
  <2> HIDE DEF r, f
  <2>4. QED
    BY <1>3, <1>6, <2>1, <2>2, <2>3 DEF r, f, marked
<1>7. CASE f = "mon"
  <2> DEFINE val == nextSetBit(when.mon, LocalTime(t).mon)
  <2>1. /\ r.val = val /\ val \in when.mon
        /\ val = LocalTime(t).mon => r.date = LocalTime(t)
        /\ LocalTime(t).mon \in when.mon => val = LocalTime(t).mon
    <3> HIDE DEF f, marked
    <3>1. QED
      BY <1>7, MonthStays DEF r
  <2>2. FieldFits(when, t, f) <=> LocalTime(t).mon \in when.mon
    BY <1>7 DEF FieldFits
  <2> HIDE DEF val
  <2>3. ASSUME r.val # LocalTime(t).mon
        PROVE  \E u \in Int : r.date = LocalTime(u) /\ t < u /\ NoneIn(when, t, u)
    <3>1. CallFits(when, call, t)
      BY <1>3, <2>1, <2>2, <2>3
    <3>2. call.at = 5
      BY <1>1, <1>7, FieldNames
    <3>3. marked \in SUBSET {"sec", "min", "hour", "mday"} /\ {"min", "hour", "mday"} \subseteq marked
      BY <3>1, <3>2, CallMarks
    <3>4. \A x \in 0..Keep(t, marked) - 1 : x \notin when.sec
      BY <1>4, <3>1, <3>2
    <3>5. DayFits(when, DayAt(t))
      <4>1. 4 \in 1..call.at - 1
        BY <3>2
      <4>2. FieldFits(when, t, Fields[4])
        BY <3>1, <4>1 DEF CallFits
      <4>3. QED
        BY <4>2, FieldNames DEF FieldFits
    <3> HIDE DEF f, marked
    <3>6. QED
      BY <1>7, <2>3, <3>3, <3>4, <3>5, MonthsMove DEF r
  <2> HIDE DEF r, f
  <2>4. QED
    BY <1>3, <1>7, <2>1, <2>2, <2>3 DEF r, f, marked
<1>8. QED
  BY <1>2, <1>5, <1>6, <1>7

(* A search that began at t and has come to u, and what is left of it up   *)
(* to end: every step takes something from it.                             *)
OnItsWay(when, t, s, u) ==
  /\ s \in Searches /\ s.ok /\ u \in Int /\ s.date = LocalTime(u)
  /\ t <= u /\ NoneIn(when, t, u)
  /\ Matches(when, u) \/ (s.calls # <<>> /\ CallFits(when, Head(s.calls), u))

LeftOf(end, s, u) ==
  20 * (end - u) + 7 * Len(s.calls) - (IF s.calls = <<>> THEN 0 ELSE Head(s.calls).at)

(* A schedule whose search works, which begins at t, and the first match.  *)
FirstFrom(when, t, end) ==
  /\ when \in Whens /\ EveryMonthHas(when) /\ DaysAreSimple(when) /\ SecondsAreSimple(when)
  /\ t \in Int /\ end \in Int /\ t <= end /\ Matches(when, end) /\ NoneIn(when, t, end)
  /\ YearAt(end) <= YearAt(t) + 1

(* A search that has skipped no match is not beyond the first, nor too     *)
(* many years on.                                                          *)
LEMMA NotBeyond ==
  ASSUME NEW when, NEW t, NEW end, FirstFrom(when, t, end), NEW u \in Int, NoneIn(when, t, u)
  PROVE  u <= end /\ YearAt(u) - YearAt(t) <= MaxYears
<1>1. t \in Int /\ end \in Int /\ t <= end /\ Matches(when, end) /\ YearAt(end) <= YearAt(t) + 1
  BY DEF FirstFrom
<1>2. u <= end
  <2> SUFFICES ASSUME end < u PROVE FALSE
    BY <1>1
  <2>1. end \in t..u - 1
    BY <1>1
  <2>2. QED
    BY <1>1, <2>1 DEF NoneIn
<1>3. YearAt(u) <= YearAt(end) /\ YearAt(u) \in Int /\ YearAt(t) \in Int /\ YearAt(end) \in Int
  BY <1>1, <1>2, YearGrows, OtherFields
<1>4. MaxYears >= 1 /\ MaxYears \in Int
  BY Sizes
<1>5. QED
  BY <1>1, <1>2, <1>3, <1>4

(* What skips no match twice skips none.                                   *)
LEMMA NoneInBoth ==
  ASSUME NEW when, NEW t \in Int, NEW u \in Int, NEW w \in Int, NoneIn(when, t, u), NoneIn(when, u, w)
  PROVE  NoneIn(when, t, w)
<1> SUFFICES ASSUME NEW x \in t..w - 1 PROVE ~Matches(when, x)
  BY DEF NoneIn
<1>1. x \in t..u - 1 \/ x \in u..w - 1
  OBVIOUS
<1>2. QED
  BY <1>1 DEF NoneIn

(* A field that fits is marked, and the call goes on.                      *)
LEMMA CallGoesOn ==
  ASSUME NEW when, NEW t \in Int, NEW call \in Calls, call.at \in 1..5,
         CallFits(when, call, t), FieldFits(when, t, Fields[call.at]),
         NEW next, next = [at |-> call.at + 1, marked |-> call.marked \cup {Fields[call.at]}]
  PROVE  CallFits(when, next, t)
<1> DEFINE n == call.at
           f == Fields[n]
<1>1. n \in 1..5 /\ next.at = n + 1 /\ next.at - 1 = n /\ next.marked = call.marked \cup {f}
  OBVIOUS
<1>2. /\ \A i \in 1..n - 1 : FieldFits(when, t, Fields[i])
      /\ call.marked \subseteq {Fields[i] : i \in 1..n - 1}
      /\ {Fields[i] : i \in 2..n - 1} \subseteq call.marked
      /\ n > 1 => "sec" \in call.marked \/ when.sec = {t % NSec}
  BY DEF CallFits
<1>3. \A i \in 1..n : i \in 1..n - 1 \/ i = n
  BY <1>1
<1>4. \A i \in 2..n : i \in 2..n - 1 \/ i = n
  BY <1>1
<1>5. n \in 1..n /\ \A i \in 1..n - 1 : i \in 1..n
  BY <1>1
<1> HIDE DEF n
<1>6. \A i \in 1..n : FieldFits(when, t, Fields[i])
  BY <1>2, <1>3 DEF n
<1>7. next.marked \subseteq {Fields[i] : i \in 1..n}
  BY <1>1, <1>2, <1>5
<1>8. {Fields[i] : i \in 2..n} \subseteq next.marked
  BY <1>1, <1>2, <1>4
<1>9. "sec" \in next.marked \/ when.sec = {t % NSec}
  <2>1. CASE n = 1
    BY <1>1, <2>1, FieldNames
  <2>2. CASE n # 1
    BY <1>1, <1>2, <2>2
  <2>3. QED
    BY <2>1, <2>2
<1>10. QED
  BY <1>1, <1>6, <1>7, <1>8, <1>9 DEF CallFits

(* After a second that had to move, the seconds fit; another of them, to   *)
(* which they might have to be reset, there is only if all else fits.      *)
LEMMA SecondsGoOn ==
  ASSUME NEW when \in Whens, SecondsAreSimple(when), NEW t \in Int, NEW u \in Int,
         LocalTime(t).sec \notin when.sec, LocalTime(u).sec \in when.sec,
         NEW next, next = [at |-> 2, marked |-> {}]
  PROVE  Matches(when, u) \/ CallFits(when, next, u)
<1>1. /\ LocalTime(t).sec \in 0..NSec - 1 /\ LocalTime(u).sec \in 0..NSec - 1
      /\ LocalTime(u).sec = u % NSec
      /\ LocalTime(u).min \in 0..NMin - 1 /\ LocalTime(u).hour \in 0..NHour - 1
      /\ LocalTime(u).mon \in Months
  <2>1. ASSUME NEW x \in Int
        PROVE  /\ LocalTime(x).sec \in 0..NSec - 1 /\ LocalTime(x).sec = x % NSec
               /\ LocalTime(x).min \in 0..NMin - 1 /\ LocalTime(x).hour \in 0..NHour - 1
    <3>1. \A f \in {"sec", "min", "hour"} : LocalTime(x)[f] \in 0..Size(f) - 1
      BY FieldIs
    <3>2. Size("sec") = NSec /\ Size("min") = NMin /\ Size("hour") = NHour
      BY DEF Size
    <3>3. LocalTime(x).sec = x % NSec
      BY OtherFields
    <3>4. QED
      BY <3>1, <3>2, <3>3
  <2>3. LocalTime(u).mon \in Months
    BY OtherFields
  <2>4. QED
    BY <2>1, <2>3
<1>2. CASE when.sec = 0..NSec - 1
  BY <1>1, <1>2
<1>3. CASE \E s \in 0..NSec - 1 : when.sec = {s}
  <2>1. when.sec = {u % NSec}
    BY <1>1, <1>3
  <2>2. \A i \in 1..2 - 1 : i = 1
    OBVIOUS
  <2>3. {Fields[i] : i \in 2..2 - 1} = {}
    OBVIOUS
  <2>4. FieldFits(when, u, Fields[1])
    BY FieldNames DEF FieldFits
  <2>5. \A i \in 1..2 - 1 : FieldFits(when, u, Fields[i])
    BY <2>2, <2>4
  <2>6. QED
    BY <2>1, <2>3, <2>5 DEF CallFits
<1>4. CASE /\ when.min = 0..NMin - 1 /\ when.hour = 0..NHour - 1
           /\ when.mday = 1..NDay /\ when.wday = 0..NWeek - 1 /\ when.mon = Months
  <2>1. LocalTime(u).mday \in 1..NDay /\ LocalTime(u).wday \in 0..NWeek - 1
    <3>1. /\ LocalTime(u).mday \in 1..MonthDays[LocalTime(u).mon + 1]
          /\ LocalTime(u).wday = DayAt(u) % NWeek /\ DayAt(u) \in Int
      BY OtherFields
    <3> DEFINE m == LocalTime(u).mon + 1
    <3>2. m \in 1..NMon
      BY <1>1, MonthsAre
    <3> HIDE DEF m
    <3>3. MonthDays[m] <= NDay /\ NDay \in Nat /\ MonthDays[m] \in Nat
      BY <3>2, MonthSizes, Sizes
    <3>4. LocalTime(u).mday \in 1..MonthDays[m]
      BY <3>1 DEF m
    <3>5. LocalTime(u).mday \in 1..NDay
      BY <3>3, <3>4
    <3>6. DayAt(u) % NWeek \in 0..NWeek - 1
      BY <3>1, Sizes, Divide
    <3>7. QED
      BY <3>1, <3>5, <3>6
  <2>2. QED
    BY <1>1, <1>4, <2>1 DEF Matches
<1>5. QED
  BY <1>2, <1>3, <1>4 DEF SecondsAreSimple

(* What is left: ahead of a call there may be another, in which case time  *)
(* has moved on as well.                                                   *)
LEMMA LessIsLeft ==
  ASSUME NEW end \in Int, NEW t \in Int, NEW u \in Int, NEW n \in Int, NEW at \in Int, NEW next \in Int,
         /\ t <= u /\ 1 <= at /\ at <= 6
  PROVE  /\ at = 6 /\ next >= 0 =>
              20 * (end - t) + 7 * (n - 1) - next < 20 * (end - t) + 7 * n - at
         /\ 20 * (end - u) + 7 * n - (at + 1) < 20 * (end - t) + 7 * n - at
         /\ t < u => 20 * (end - u) + 7 * (n + 1) - 1 < 20 * (end - t) + 7 * n - at
OBVIOUS

(* What a step makes of a search that is right so far.                     *)
LEMMA StepKeeps ==
  ASSUME NEW when, NEW t0, NEW end, FirstFrom(when, t0, end),
         NEW s, NEW t, OnItsWay(when, t0, s, t), s.calls # <<>>
  PROVE  \E u \in Int : /\ OnItsWay(when, t0, SearchStep(BitsOf(when), YearAt(t0), s), u)
                        /\ LeftOf(end, SearchStep(BitsOf(when), YearAt(t0), s), u) < LeftOf(end, s, t)
<1> DEFINE cex == BitsOf(when)
           call == Head(s.calls)
           rest == Tail(s.calls)
           f == Fields[call.at]
           r == FindIn(f, cex, LocalTime(t), call.marked)
           new == SearchStep(cex, YearAt(t0), s)
<1>1. /\ when \in Whens /\ EveryMonthHas(when) /\ DaysAreSimple(when) /\ SecondsAreSimple(when)
      /\ t0 \in Int /\ end \in Int
  BY DEF FirstFrom
<1>2. /\ s \in Searches /\ s.ok /\ t \in Int /\ s.date = LocalTime(t) /\ t0 <= t /\ NoneIn(when, t0, t)
      /\ Matches(when, t) \/ CallFits(when, call, t)
  BY DEF OnItsWay
<1>3. s.calls \in Seq(Calls) /\ DOMAIN s = {"ok", "date", "calls"}
  BY <1>2 DEF Searches
<1>4. call \in Calls /\ rest \in Seq(Calls) /\ Len(s.calls) \in Nat /\ Len(rest) = Len(s.calls) - 1
  BY <1>3, StackIs
<1>5. call.at \in 1..6 /\ call.marked \in SUBSET ToSet(Fields)
  BY <1>4, FieldNames DEF Calls
<1>6. new \in Searches
  BY <1>1, <1>2, StepIsSearch
<1>7. LeftOf(end, s, t) = 20 * (end - t) + 7 * Len(s.calls) - call.at
  BY DEF LeftOf
<1>8. CASE call.at > Len(Fields)
  <2>1. call.at = 6
    BY <1>5, <1>8, FieldNames
  <2>2. new.ok /\ new.date = LocalTime(t) /\ new.calls = rest
    <3>1. new = [s EXCEPT !.calls = Tail(s.calls)]
      BY <1>8 DEF SearchStep
    <3> HIDE DEF new, rest
    <3>2. QED
      BY <1>2, <1>3, <3>1 DEF rest
  <2>3. Matches(when, t)
    <3> SUFFICES ASSUME CallFits(when, call, t) PROVE Matches(when, t)
      BY <1>2
    <3>1. \A i \in 1..5 : FieldFits(when, t, Fields[i])
      BY <2>1 DEF CallFits
    <3>2. QED
      BY <1>2, <3>1, MatchIs
  <2>4. OnItsWay(when, t0, new, t)
    BY <1>2, <1>6, <2>2, <2>3 DEF OnItsWay
  <2>5. LeftOf(end, new, t) < LeftOf(end, s, t)
    <3> DEFINE at == IF rest = <<>> THEN 0 ELSE Head(rest).at
    <3>1. at \in Int /\ at >= 0
      <4>1. CASE rest = <<>>
        BY <4>1
      <4>2. CASE rest # <<>>
        <5>1. Head(rest) \in Calls
          BY <1>4, <4>2, StackIs
        <5>2. Head(rest).at \in 1..6
          <6> DEFINE top == Head(rest)
          <6> HIDE DEF top
          <6>1. top \in Calls
            BY <5>1 DEF top
          <6>2. top.at \in 1..6
            BY <6>1, FieldNames DEF Calls
          <6>3. QED
            BY <6>2 DEF top
        <5>3. QED
          BY <4>2, <5>2
      <4>3. QED
        BY <4>1, <4>2
    <3>2. LeftOf(end, new, t) = 20 * (end - t) + 7 * Len(rest) - at
      BY <2>2 DEF LeftOf
    <3> DEFINE n == Len(s.calls)
               a == call.at
    <3>3. n \in Int /\ a \in Int /\ a = 6 /\ Len(rest) = n - 1 /\ end \in Int /\ t \in Int /\ t <= t
      BY <1>1, <1>2, <1>4, <2>1
    <3>4. /\ LeftOf(end, s, t) = 20 * (end - t) + 7 * n - a
          /\ LeftOf(end, new, t) = 20 * (end - t) + 7 * (n - 1) - at
      BY <1>7, <3>2, <3>3
    <3> HIDE DEF at, n, a
    <3>5. 20 * (end - t) + 7 * (n - 1) - at < 20 * (end - t) + 7 * n - a
      BY <3>1, <3>3, LessIsLeft
    <3>6. QED
      BY <3>4, <3>5
  <2>6. QED
    BY <1>2, <2>4, <2>5
<1>9. CASE ~(call.at > Len(Fields))
  <2> DEFINE goesOn == [at |-> call.at + 1,
                        marked |-> IF r.val # LocalTime(t)[f] THEN call.marked ELSE call.marked \cup {f}]
  <2>1. call.at \in 1..5
    BY <1>5, <1>9, FieldNames
  <2>2. new = FieldDone(s, r, YearAt(t0))
    BY <1>2, <1>9 DEF SearchStep
  <2>3. /\ r.val = LocalTime(t)[f] => r.date = LocalTime(t) /\ FieldFits(when, t, f)
        /\ r.val # LocalTime(t)[f] =>
             /\ ~Matches(when, t)
             /\ \E u \in Int : /\ r.date = LocalTime(u) /\ t < u /\ NoneIn(when, t, u)
                               /\ f = "sec" => LocalTime(u).sec \in when.sec
    <3>1. Matches(when, t) \/ CallFits(when, call, t)
      BY <1>2
    <3>2. call \in Calls /\ t \in Int
      BY <1>2, <1>4
    <3> HIDE DEF call
    <3>3. QED
      BY <1>1, <2>1, <3>1, <3>2, FieldStep
  <2>4. f \in ToSet(Fields)
    <3>1. call.at = 1 \/ call.at = 2 \/ call.at = 3 \/ call.at = 4 \/ call.at = 5
      BY <2>1
    <3>2. QED
      BY <3>1, FieldNames
  <2>5. goesOn \in Calls /\ goesOn.at = call.at + 1
    BY <1>5, <2>1, <2>4, FieldNames DEF Calls
  <2>6. new = IF /\ r.val # LocalTime(t)[f] /\ f = "mon"
                 /\ r.date.year - YearAt(t0) > MaxYears THEN Failed(s)
              ELSE [s EXCEPT !.date = r.date,
                             !.calls = (IF r.val # LocalTime(t)[f] /\ f # "sec" THEN <<NewCall>> ELSE <<>>)
                                       \o <<goesOn>> \o Tail(s.calls)]
    BY <1>2, <2>2 DEF FieldDone
  <2>7. <<>> \o <<goesOn>> = <<goesOn>>
    BY <2>5
  <2>8. /\ <<goesOn>> \o rest # <<>> /\ Head(<<goesOn>> \o rest) = goesOn
        /\ Len(<<goesOn>> \o rest) = Len(s.calls)
    BY <1>3, <2>5, StackIs
  <2>9. CASE r.val = LocalTime(t)[f]
    <3>1. new.ok /\ new.date = LocalTime(t) /\ new.calls = <<goesOn>> \o rest
      <4>1. new = [s EXCEPT !.date = r.date, !.calls = <<>> \o <<goesOn>> \o rest]
        BY <2>6, <2>9
      <4>2. r.date = LocalTime(t)
        BY <2>3, <2>9
      <4> HIDE DEF new, goesOn, rest
      <4>3. QED
        BY <1>2, <1>3, <2>7, <4>1, <4>2
    <3>2. Matches(when, t) \/ CallFits(when, goesOn, t)
      <4> SUFFICES ASSUME CallFits(when, call, t) PROVE CallFits(when, goesOn, t)
        BY <1>2
      <4>1. FieldFits(when, t, Fields[call.at])
        BY <2>3, <2>9
      <4>2. goesOn = [at |-> call.at + 1, marked |-> call.marked \cup {Fields[call.at]}]
        BY <2>9
      <4> HIDE DEF goesOn, call
      <4>3. QED
        BY <1>2, <1>4, <2>1, <4>1, <4>2, CallGoesOn
    <3>3. OnItsWay(when, t0, new, t)
      <4> HIDE DEF goesOn, rest, new
      <4>1. QED
        BY <1>2, <1>6, <2>8, <3>1, <3>2 DEF OnItsWay
    <3>4. LeftOf(end, new, t) = 20 * (end - t) + 7 * Len(s.calls) - (call.at + 1)
      <4> HIDE DEF goesOn, rest, new
      <4>1. QED
        BY <2>5, <2>8, <3>1 DEF LeftOf
    <3>5. LeftOf(end, new, t) < LeftOf(end, s, t)
      <4> DEFINE n == Len(s.calls)
                 a == call.at
      <4>1. n \in Int /\ a \in Int /\ 1 <= a /\ a <= 6 /\ end \in Int /\ t \in Int /\ t <= t
        BY <1>1, <1>2, <1>4, <1>5
      <4>2. /\ LeftOf(end, s, t) = 20 * (end - t) + 7 * n - a
            /\ LeftOf(end, new, t) = 20 * (end - t) + 7 * n - (a + 1)
        BY <1>7, <3>4
      <4> HIDE DEF n, a
      <4>3. 20 * (end - t) + 7 * n - (a + 1) < 20 * (end - t) + 7 * n - a
        BY <4>1, LessIsLeft
      <4>4. QED
        BY <4>2, <4>3
    <3>6. QED
      BY <1>2, <3>3, <3>5
  <2>10. CASE r.val # LocalTime(t)[f]
    <3>1. PICK u \in Int : /\ r.date = LocalTime(u) /\ t < u /\ NoneIn(when, t, u)
                           /\ f = "sec" => LocalTime(u).sec \in when.sec
      BY <2>3, <2>10
    <3>2. NoneIn(when, t0, u) /\ t0 <= u
      BY <1>1, <1>2, <3>1, NoneInBoth
    <3>3. YearAt(u) - YearAt(t0) <= MaxYears /\ YearAt(u) - YearAt(t0) \in Int /\ MaxYears \in Int
      <4>1. YearAt(u) \in Int /\ YearAt(t0) \in Int
        BY <1>1, OtherFields
      <4>2. QED
        BY <3>2, <4>1, NotBeyond, Sizes
    <3>4. ~(r.date.year - YearAt(t0) > MaxYears)
      <4>1. r.date.year = YearAt(u)
        BY <3>1, OtherFields
      <4>2. QED
        BY <3>3, <4>1
    <3>5. CASE f = "sec"
      <4>1. call.at = 1
        <5>1. call.at = 1 \/ call.at = 2 \/ call.at = 3 \/ call.at = 4 \/ call.at = 5
          BY <2>1
        <5>2. QED
          BY <3>5, <5>1, FieldNames
      <4>2. CallFits(when, call, t)
        BY <1>2, <2>3, <2>10
      <4>3. goesOn = [at |-> 2, marked |-> {}]
        <5>1. call.marked = {}
          <6> HIDE DEF call
          <6>1. QED
            BY <1>4, <4>1, <4>2, CallMarks
        <5> HIDE DEF r, f, call
        <5>2. QED
          BY <2>10, <4>1, <5>1
      <4>4. new.ok /\ new.date = LocalTime(u) /\ new.calls = <<goesOn>> \o rest
        <5>1. new = [s EXCEPT !.date = r.date, !.calls = <<>> \o <<goesOn>> \o rest]
          BY <2>6, <2>10, <3>5
        <5> HIDE DEF new, goesOn, rest
        <5>2. QED
          BY <1>2, <1>3, <2>7, <3>1, <5>1
      <4>5. LocalTime(t).sec \notin when.sec
        <5>1. FindIn("sec", BitsOf(when), LocalTime(t), call.marked).val # LocalTime(t)["sec"]
          BY <2>10, <3>5
        <5>2. LocalTime(t)["sec"] \notin when["sec"]
          <6> DEFINE marked == call.marked
          <6> HIDE DEF marked
          <6>1. FindIn("sec", BitsOf(when), LocalTime(t), marked).val # LocalTime(t)["sec"]
            BY <5>1 DEF marked
          <6>2. QED
            BY <1>1, <1>2, <6>1, FieldStays
        <5>3. QED
          BY <5>2
      <4>6. Matches(when, u) \/ CallFits(when, goesOn, u)
        <5> HIDE DEF goesOn
        <5>1. QED
          BY <1>1, <1>2, <3>1, <3>5, <4>3, <4>5, SecondsGoOn
      <4>7. OnItsWay(when, t0, new, u)
        <5> HIDE DEF goesOn, rest, new
        <5>1. QED
          BY <1>6, <2>8, <3>2, <4>4, <4>6 DEF OnItsWay
      <4>8. LeftOf(end, new, u) = 20 * (end - u) + 7 * Len(s.calls) - (call.at + 1)
        <5> HIDE DEF goesOn, rest, new
        <5>1. QED
          BY <2>5, <2>8, <4>4 DEF LeftOf
      <4>9. LeftOf(end, new, u) < LeftOf(end, s, t)
        <5> DEFINE n == Len(s.calls)
                   a == call.at
        <5>1. n \in Int /\ a \in Int /\ 1 <= a /\ a <= 6 /\ end \in Int /\ t \in Int /\ t <= u
          BY <1>1, <1>2, <1>4, <1>5, <3>1
        <5>2. /\ LeftOf(end, s, t) = 20 * (end - t) + 7 * n - a
              /\ LeftOf(end, new, u) = 20 * (end - u) + 7 * n - (a + 1)
          BY <1>7, <4>8
        <5> HIDE DEF n, a
        <5>3. 20 * (end - u) + 7 * n - (a + 1) < 20 * (end - t) + 7 * n - a
          BY <5>1, LessIsLeft
        <5>4. QED
          BY <5>2, <5>3
      <4>10. QED
        BY <4>7, <4>9
    <3>6. CASE f # "sec"
      <4>1. new.ok /\ new.date = LocalTime(u) /\ new.calls = <<NewCall>> \o <<goesOn>> \o rest
        <5>1. new = [s EXCEPT !.date = r.date, !.calls = <<NewCall>> \o <<goesOn>> \o rest]
          BY <2>6, <2>10, <3>4, <3>6
        <5> DEFINE c == <<NewCall>> \o <<goesOn>> \o rest
        <5>2. new = [s EXCEPT !.date = LocalTime(u), !.calls = c]
          BY <3>1, <5>1
        <5> HIDE DEF new, c
        <5>3. new.ok /\ new.date = LocalTime(u) /\ new.calls = c
          BY <1>2, <1>3, <5>2
        <5>4. QED
          BY <5>3 DEF c
      <4>2. NewCall \in Calls /\ NewCall.at = 1 /\ NewCall.marked = {}
        BY FieldNames DEF NewCall, Calls
      <4>3. /\ <<NewCall>> \o <<goesOn>> \o rest # <<>>
            /\ Head(<<NewCall>> \o <<goesOn>> \o rest) = NewCall
            /\ Len(<<NewCall>> \o <<goesOn>> \o rest) = Len(s.calls) + 1
        BY <1>3, <2>5, <4>2, StackIs
      <4>4. CallFits(when, NewCall, u)
        <5>1. \A i \in 1..1 - 1 : FALSE
          OBVIOUS
        <5>2. {Fields[i] : i \in 2..1 - 1} = {}
          OBVIOUS
        <5>3. QED
          BY <4>2, <5>1, <5>2 DEF CallFits
      <4>5. OnItsWay(when, t0, new, u)
        <5> HIDE DEF goesOn, rest, new
        <5>1. QED
          BY <1>6, <3>2, <4>1, <4>3, <4>4 DEF OnItsWay
      <4>6. LeftOf(end, new, u) = 20 * (end - u) + 7 * (Len(s.calls) + 1) - 1
        <5> HIDE DEF goesOn, rest, new
        <5>1. QED
          BY <4>1, <4>2, <4>3 DEF LeftOf
      <4>7. LeftOf(end, new, u) < LeftOf(end, s, t)
        <5> DEFINE n == Len(s.calls)
                   a == call.at
        <5>1. n \in Int /\ a \in Int /\ 1 <= a /\ a <= 6 /\ end \in Int /\ t \in Int /\ t < u /\ t <= u
          BY <1>1, <1>2, <1>4, <1>5, <3>1
        <5>2. /\ LeftOf(end, s, t) = 20 * (end - t) + 7 * n - a
              /\ LeftOf(end, new, u) = 20 * (end - u) + 7 * (n + 1) - 1
          BY <1>7, <4>6
        <5> HIDE DEF n, a
        <5>3. 20 * (end - u) + 7 * (n + 1) - 1 < 20 * (end - t) + 7 * n - a
          BY <5>1, LessIsLeft
        <5>4. QED
          BY <5>2, <5>3
      <4>8. QED
        BY <4>5, <4>7
    <3>7. QED
      BY <3>5, <3>6
  <2>11. QED
    BY <2>9, <2>10
<1>10. QED
  BY <1>8, <1>9

-----------------------------------------------------------------------------
(* The next time of a schedule.                                            *)

(* The search comes to the first time that fits, and to no other.          *)
LEMMA SearchFinds ==
  ASSUME NEW when, NEW t, NEW end, FirstFrom(when, t, end)
  PROVE  LET found == findNext(BitsOf(when), LocalTime(t))
         IN  found.ok /\ found.date = LocalTime(end)
<1> DEFINE cex == BitsOf(when)
           step == [s \in Searches |-> SearchStep(cex, YearAt(t), s)]
           T == {s \in Searches : \E u : OnItsWay(when, t, s, u)}
           left == [s \in T |-> LeftOf(end, s, Seconds(s.date))]
           first == Begin(LocalTime(t))
<1>1. when \in Whens /\ t \in Int /\ end \in Int /\ t <= end /\ NoneIn(when, t, end)
  BY DEF FirstFrom
<1>2. LocalTime(t).year = YearAt(t)
  BY <1>1, OtherFields
<1>3. PICK f : /\ findNext(cex, LocalTime(t)) = f[first]
               /\ \A s \in Searches : f[s] = IF s \in Halted THEN s ELSE f[SearchStep(cex, YearAt(t), s)]
  <2> HIDE DEF first, cex
  <2> DEFINE date == LocalTime(t)
  <2>1. date.year = YearAt(t)
    BY <1>2
  <2> HIDE DEF date
  <2>2. \E f : /\ findNext(cex, date) = f[Begin(date)]
               /\ \A s \in Searches : f[s] = IF s \in Halted THEN s ELSE f[SearchStep(cex, date.year, s)]
    BY <1>1, FindNextIs DEF cex
  <2>3. QED
    BY <2>1, <2>2 DEF first, date
<1>4. ASSUME NEW s \in T
      PROVE  \E u \in Int : /\ OnItsWay(when, t, s, u) /\ Seconds(s.date) = u /\ u <= end
                            /\ left[s] = LeftOf(end, s, u)
  <2>1. PICK u : OnItsWay(when, t, s, u)
    OBVIOUS
  <2>2. u \in Int /\ s.date = LocalTime(u) /\ NoneIn(when, t, u)
    BY <2>1 DEF OnItsWay
  <2>3. Seconds(s.date) = u /\ u <= end
    BY <2>2, SecondsAre, NotBeyond
  <2>4. left[s] = LeftOf(end, s, Seconds(s.date))
    OBVIOUS
  <2>5. QED
    BY <2>1, <2>2, <2>3, <2>4
<1>5. left \in [T -> Nat]
  <2> SUFFICES ASSUME NEW s \in T PROVE LeftOf(end, s, Seconds(s.date)) \in Nat
    OBVIOUS
  <2>1. PICK u \in Int : /\ OnItsWay(when, t, s, u) /\ Seconds(s.date) = u /\ u <= end
    BY <1>4
  <2>2. s.calls \in Seq(Calls)
    BY DEF Searches
  <2>3. CASE s.calls = <<>>
    <3>1. LeftOf(end, s, u) = 20 * (end - u) + 7 * 0 - 0
      BY <2>3 DEF LeftOf
    <3>2. QED
      BY <1>1, <2>1, <3>1
  <2>4. CASE s.calls # <<>>
    <3> DEFINE n == Len(s.calls)
               call == Head(s.calls)
               at == call.at
    <3>1. LeftOf(end, s, u) = 20 * (end - u) + 7 * n - at
      BY <2>4 DEF LeftOf
    <3>2. n \in Nat \ {0} /\ call \in Calls
      BY <2>2, <2>4, StackIs
    <3> HIDE DEF n, call
    <3>3. at \in 1..6
      BY <3>2, FieldNames DEF Calls
    <3> HIDE DEF at
    <3>4. 20 * (end - u) + 7 * n - at \in Nat
      BY <1>1, <2>1, <3>2, <3>3
    <3>5. QED
      BY <2>1, <3>1, <3>4
  <2>5. QED
    BY <2>3, <2>4
<1>6. ASSUME NEW s \in T, s \notin Halted PROVE step[s] \in T /\ left[step[s]] < left[s]
  <2>1. s \in Searches /\ s.calls # <<>>
    BY <1>6 DEF Halted
  <2>2. PICK u \in Int : OnItsWay(when, t, s, u) /\ left[s] = LeftOf(end, s, u)
    BY <1>4
  <2> DEFINE new == SearchStep(cex, YearAt(t), s)
  <2>3. PICK w \in Int : OnItsWay(when, t, new, w) /\ LeftOf(end, new, w) < LeftOf(end, s, u)
    <3> HIDE DEF left
    <3>1. QED
      BY <2>1, <2>2, StepKeeps
  <2>4. step[s] = new
    BY <2>1
  <2> HIDE DEF new, step
  <2>5. new \in T
    BY <2>3 DEF OnItsWay
  <2>6. left[new] = LeftOf(end, new, w)
    <3>1. Seconds(new.date) = w
      BY <2>3, SecondsAre DEF OnItsWay
    <3> HIDE DEF T
    <3>2. QED
      BY <2>5, <3>1
  <2> HIDE DEF left, T
  <2>7. QED
    BY <2>2, <2>3, <2>4, <2>5, <2>6
<1>7. first \in T
  <2>1. NewCall \in Calls /\ NewCall.at = 1 /\ NewCall.marked = {}
    BY FieldNames DEF NewCall, Calls
  <2>2. <<NewCall>> \in Seq(Calls) /\ <<NewCall>> # <<>> /\ Head(<<NewCall>>) = NewCall
    BY <2>1
  <2>3. /\ first \in Searches /\ first.ok /\ first.date = LocalTime(t) /\ first.calls # <<>>
        /\ Head(first.calls) = NewCall
    <3>1. LocalTime(t) \in Dates
      BY <1>1, LocalTimeIs
    <3>2. QED
      BY <2>2, <3>1 DEF Begin, Searches
  <2>4. CallFits(when, NewCall, t)
    <3>1. \A i \in 1..1 - 1 : FALSE
      OBVIOUS
    <3>2. {Fields[i] : i \in 2..1 - 1} = {}
      OBVIOUS
    <3>3. QED
      BY <2>1, <3>1, <3>2 DEF CallFits
  <2>5. NoneIn(when, t, t)
    <3>1. t..t - 1 = {}
      BY <1>1
    <3>2. QED
      BY <3>1 DEF NoneIn
  <2> HIDE DEF first
  <2>6. OnItsWay(when, t, first, t)
    BY <1>1, <2>3, <2>4, <2>5 DEF OnItsWay
  <2>7. QED
    BY <2>3, <2>6
<1>8. f[first] \in T /\ f[first] \in Halted
  <2>1. \A s \in Searches : f[s] = IF s \in Halted THEN s ELSE f[step[s]]
    BY <1>3
  <2>2. T \subseteq Searches /\ \A s \in T : left[s] \in Nat
    BY <1>5
  <2>3. \A s \in T : s \notin Halted => step[s] \in T /\ left[step[s]] < left[s]
    BY <1>6
  <2> HIDE DEF T, step, left, first
  <2>4. \A s \in T : f[s] \in T /\ f[s] \in Halted
    <3>1. Shrinks(Searches, Halted, step, f, T, left)
      BY <2>1, <2>2, <2>3 DEF Shrinks
    <3>2. QED
      BY <3>1, LoopEnds
  <2>5. QED
    BY <1>7, <2>4
<1> DEFINE found == f[first]
<1>9. PICK u \in Int : OnItsWay(when, t, found, u) /\ u <= end
  <2> HIDE DEF found, T, left
  <2>1. found \in T
    BY <1>8 DEF found
  <2>2. QED
    BY <1>4, <2>1
<1>10. found.calls = <<>>
  BY <1>8 DEF Halted
<1> HIDE DEF found
<1>11. found.ok /\ found.date = LocalTime(u) /\ Matches(when, u) /\ t <= u
  BY <1>9, <1>10 DEF OnItsWay
<1>12. u = end
  <2> SUFFICES ASSUME u < end PROVE FALSE
    BY <1>1, <1>9
  <2>1. u \in t..end - 1
    BY <1>1, <1>11
  <2>2. QED
    BY <1>1, <1>11, <2>1 DEF NoneIn
<1>13. QED
  BY <1>3, <1>11, <1>12 DEF found

(* A second later.                                                         *)
LEMMA AddSecond ==
  ASSUME NEW t \in Int
  PROVE  addToField(LocalTime(t), "sec", 1) = LocalTime(t + 1)
<1> DEFINE c == LocalTime(t).sec
<1>1. c \in Int
  BY OtherFields
<1>2. addToField(LocalTime(t), "sec", 1) = setField(LocalTime(t), "sec", c + 1)
  BY DEF addToField, setField
<1>3. setField(LocalTime(t), "sec", c + 1) = LocalTime(t + (((c + 1) - c) * Unit("sec")))
  <2> DEFINE v == c + 1
  <2>1. v \in Int
    BY <1>1
  <2> HIDE DEF v
  <2>2. setField(LocalTime(t), "sec", v) = LocalTime(t + ((v - LocalTime(t)["sec"]) * Unit("sec")))
    BY <2>1, SetIs
  <2>3. QED
    BY <2>2 DEF v
<1>4. t + (((c + 1) - c) * Unit("sec")) = t + 1
  <2>1. Unit("sec") = 1
    BY DEF Unit
  <2> HIDE DEF c
  <2>2. QED
    BY <1>1, <2>1
<1>5. QED
  BY <1>2, <1>3, <1>4

(* The next time of a schedule is the first one that fits it, from now on. *)
LEMMA CronNextIs ==
  ASSUME NEW when \in Whens, EveryMonthHas(when), DaysAreSimple(when), SecondsAreSimple(when),
         NEW now0 \in Int
  PROVE  /\ cronNext(BitsOf(when), now0) \in Int
         /\ IsNextMatch(when, cronNext(BitsOf(when), now0), now0)
<1> DEFINE cex == BitsOf(when)
<1>1. ASSUME NEW t \in Int
      PROVE  \E u \in Int : /\ t <= u /\ Matches(when, u) /\ NoneIn(when, t, u)
                            /\ findNext(cex, LocalTime(t)).ok
                            /\ Seconds(findNext(cex, LocalTime(t)).date) = u
  <2>1. PICK u \in Int : /\ t <= u /\ Matches(when, u) /\ NoneIn(when, t, u)
                         /\ YearAt(u) <= YearAt(t) + 1
    BY FirstMatch
  <2>2. FirstFrom(when, t, u)
    BY <2>1 DEF FirstFrom
  <2>3. findNext(cex, LocalTime(t)).ok /\ findNext(cex, LocalTime(t)).date = LocalTime(u)
    BY <2>2, SearchFinds
  <2>4. QED
    BY <2>1, <2>3, SecondsAre
<1> HIDE DEF cex
<1>2. PICK u \in Int : /\ now0 <= u /\ Matches(when, u) /\ NoneIn(when, now0, u)
                       /\ findNext(cex, LocalTime(now0)).ok
                       /\ Seconds(findNext(cex, LocalTime(now0)).date) = u
  BY <1>1
<1> DEFINE found == findNext(cex, LocalTime(now0))
<1>3. cronNext(cex, now0) = IF u # now0 THEN u
                           ELSE TimeFound(findNext(cex, addToField(found.date, "sec", 1)))
  BY <1>2 DEF cronNext, AfterFound, TimeFound
<1>4. CASE u # now0
  <2>1. cronNext(cex, now0) = u /\ u > now0
    BY <1>2, <1>3, <1>4
  <2>2. \A x \in now0 + 1..u - 1 : ~Matches(when, x)
    <3>1. \A x \in now0 + 1..u - 1 : x \in now0..u - 1
      OBVIOUS
    <3>2. QED
      BY <1>2, <3>1 DEF NoneIn
  <2>3. QED
    BY <1>2, <2>1, <2>2 DEF IsNextMatch, cex
<1>5. CASE u = now0
  <2>1. found.date = LocalTime(now0)
    <3>1. PICK v \in Int : /\ now0 <= v /\ Matches(when, v) /\ NoneIn(when, now0, v)
                           /\ YearAt(v) <= YearAt(now0) + 1
      BY FirstMatch
    <3>2. FirstFrom(when, now0, v)
      BY <3>1 DEF FirstFrom
    <3>3. found.date = LocalTime(v)
      BY <3>2, SearchFinds DEF cex
    <3>4. v = u
      BY <1>2, <3>3, SecondsAre
    <3>5. QED
      BY <1>5, <3>3, <3>4
  <2> DEFINE t == now0 + 1
  <2>2. addToField(found.date, "sec", 1) = LocalTime(t) /\ t \in Int
    BY <2>1, AddSecond
  <2> HIDE DEF t, found
  <2>3. PICK w \in Int : /\ t <= w /\ Matches(when, w) /\ NoneIn(when, t, w)
                         /\ findNext(cex, LocalTime(t)).ok
                         /\ Seconds(findNext(cex, LocalTime(t)).date) = w
    BY <1>1, <2>2
  <2>4. cronNext(cex, now0) = w
    BY <1>3, <1>5, <2>2, <2>3 DEF TimeFound
  <2>5. w > now0 /\ \A x \in now0 + 1..w - 1 : ~Matches(when, x)
    BY <2>3 DEF t, NoneIn
  <2>6. QED
    BY <2>3, <2>4, <2>5 DEF IsNextMatch, cex
<1>6. QED
  BY <1>4, <1>5

-----------------------------------------------------------------------------
(* What is made of an expression is what it means.                         *)

(* The loop over the bits ends before its counter wraps.                   *)
LEMMA StepsAre ==
  ASSUME NEW a \in Nat, NEW b \in Nat, NEW delta \in Nat \ {0}, a <= b, b + delta < IntSize
  PROVE  stepFrom(a, b, delta) = {x \in a..b : (x - a) % delta = 0}
<1> DEFINE bit(k) == (a + k * delta) % IntSize
           S == {k \in 0..IntSize : bit(k) > b \/ k = IntSize}
           q == (b - a) \div delta
           n == q + 1
<1>0. IntSize \in Nat \ {0}
  BY Sizes
<1>1. /\ q \in Int /\ q * delta \in Int /\ q * delta <= b - a /\ b - a < (q * delta) + delta
      /\ n * delta = (q * delta) + delta
  <2>1. b - a \in Int
    OBVIOUS
  <2>2. /\ q \in Int /\ (b - a) % delta \in 0..delta - 1
        /\ b - a = (q * delta) + ((b - a) % delta)
    BY <2>1, Divide
  <2>3. q * delta \in Int /\ (q + 1) * delta = (q * delta) + (1 * delta)
    BY <2>2, Products
  <2> HIDE DEF q
  <2> DEFINE rem == (b - a) % delta
  <2> HIDE DEF rem
  <2>4. rem \in 0..delta - 1 /\ b - a = (q * delta) + rem
    BY <2>2 DEF rem
  <2>5. QED
    BY <2>2, <2>3, <2>4
<1>2. q \in Nat
  <2>1. 0 * delta <= b - a /\ 0 \in Int /\ b - a \in Int
    OBVIOUS
  <2> DEFINE c == b - a
  <2> HIDE DEF c
  <2>2. c >= 0 * delta /\ c \in Int
    BY <2>1 DEF c
  <2>3. c \div delta >= 0
    BY <2>2, DivideGrows
  <2>4. QED
    BY <1>1, <2>3 DEF c
<1> HIDE DEF q
<1>3. ASSUME NEW k \in 0..q
      PROVE  k * delta \in Nat /\ a + k * delta <= b /\ bit(k) = a + k * delta /\ k < IntSize
  <2>1. k \in Nat /\ k <= q
    BY <1>2
  <2>2. k * delta \in Int /\ k * delta <= q * delta
    BY <1>1, <2>1, Products
  <2>3. 0 * delta <= k * delta /\ k * 1 <= k * delta
    <3>1. 0 * delta <= k * delta
      BY <2>1, Products
    <3>2. 1 * k <= delta * k /\ 1 * k = k /\ delta * k = k * delta
      BY <2>1, Products
    <3>3. QED
      BY <2>1, <3>1, <3>2
  <2> DEFINE p == k * delta
  <2>4. p \in Nat /\ k <= p /\ p <= b - a
    BY <1>1, <2>1, <2>2, <2>3
  <2> HIDE DEF p
  <2>5. a + p \in 0..IntSize - 1
    BY <1>0, <2>4
  <2>6. (a + p) % IntSize = a + p
    BY <1>0, <2>5
  <2>7. k < IntSize
    BY <1>0, <2>1, <2>4
  <2>8. QED
    BY <2>4, <2>6, <2>7 DEF p
<1>4. bit(n) > b
  <2> DEFINE p == n * delta
  <2>1. p \in Int /\ p > b - a /\ p <= (b - a) + delta
    BY <1>1
  <2> HIDE DEF p
  <2>2. a + p \in 0..IntSize - 1 /\ a + p > b
    BY <1>0, <2>1
  <2>3. (a + p) % IntSize = a + p
    BY <1>0, <2>2
  <2>4. QED
    BY <2>2, <2>3 DEF p
<1>5. n \in 0..IntSize
  <2>1. q < IntSize
    BY <1>2, <1>3
  <2>2. QED
    BY <1>0, <1>2, <2>1
<1>6. Min(S) = n
  <2>1. n \in S
    BY <1>4, <1>5
  <2>2. ASSUME NEW k \in S, k < n PROVE FALSE
    <3>1. k \in 0..q
      BY <1>2, <2>2
    <3>2. bit(k) <= b /\ k # IntSize
      <4>1. bit(k) = a + k * delta /\ a + k * delta <= b /\ k < IntSize
        BY <1>3, <3>1
      <4> HIDE DEF bit
      <4>2. QED
        BY <1>0, <3>1, <4>1
    <3>3. bit(k) \in Int
      BY <1>3, <3>1
    <3>4. bit(k) > b \/ k = IntSize
      OBVIOUS
    <3> HIDE DEF bit
    <3>5. QED
      BY <3>2, <3>3, <3>4
  <2>3. S \in SUBSET Int /\ \A k \in S : 0 <= k
    OBVIOUS
  <2> HIDE DEF S
  <2>4. Min(S) \in S /\ \A k \in S : Min(S) <= k
    <3>1. 0 \in Int /\ S # {}
      BY <2>1
    <3>2. QED
      BY <2>3, <3>1, MinOf
  <2>5. Min(S) \in Int /\ n \in Int
    BY <2>1, <2>3, <2>4
  <2>6. QED
    BY <2>1, <2>2, <2>4, <2>5
<1>7. stepFrom(a, b, delta) = {bit(k) : k \in 0..q}
  <2>1. stepFrom(a, b, delta) = {bit(k) : k \in 0..Min(S) - 1}
    BY DEF stepFrom
  <2>2. n - 1 = q
    BY <1>2
  <2> HIDE DEF n, S
  <2>3. QED
    BY <1>6, <2>1, <2>2
<1>8. ASSUME NEW k \in 0..q PROVE bit(k) \in {x \in a..b : (x - a) % delta = 0}
  <2> DEFINE p == k * delta
  <2>1. bit(k) = a + p /\ p \in Nat /\ a + p <= b
    BY <1>3
  <2>2. k \in Int /\ 0 \in 0..delta - 1 /\ p \in Int
    BY <1>2, <2>1
  <2>3. ((k * delta) + 0) % delta = 0
    BY <2>2, Remain
  <2>4. p % delta = 0
    <3>1. (k * delta) + 0 = p
      BY <2>2
    <3>2. QED
      BY <2>3, <3>1
  <2> HIDE DEF p, bit
  <2>5. (a + p) - a = p /\ a + p \in a..b
    BY <2>1
  <2>6. QED
    BY <2>1, <2>4, <2>5
<1>9. ASSUME NEW x \in a..b, (x - a) % delta = 0 PROVE \E k \in 0..q : x = bit(k)
  <2> DEFINE c == x - a
             k == c \div delta
  <2>1. c \in Nat /\ c <= b - a /\ b - a \in Int /\ c % delta = 0
    BY <1>9
  <2> HIDE DEF c
  <2>2. k \in Int /\ c = (k * delta) + (c % delta)
    BY <2>1, Divide
  <2>3. k <= q
    <3> DEFINE d == b - a
    <3>1. d \in Int /\ c <= d /\ c \in Int
      BY <2>1
    <3> HIDE DEF d
    <3>2. c \div delta <= d \div delta
      BY <3>1, DivideGrows
    <3>3. QED
      BY <3>2 DEF d, q
  <2>4. k >= 0
    <3>1. c >= 0 * delta /\ 0 \in Int /\ c \in Int
      BY <2>1
    <3>2. QED
      BY <3>1, DivideGrows
  <2> HIDE DEF k
  <2>5. k \in 0..q
    BY <1>2, <2>2, <2>3, <2>4
  <2>6. bit(k) = a + k * delta /\ k * delta \in Nat
    BY <1>3, <2>5
  <2>7. x = a + k * delta
    <3>1. c = k * delta
      BY <2>1, <2>2, <2>6
    <3>2. x = a + c
      BY DEF c
    <3>3. QED
      BY <3>1, <3>2
  <2>8. QED
    BY <2>5, <2>6, <2>7
<1> HIDE DEF bit
<1>10. QED
  BY <1>7, <1>8, <1>9

(* The numbers of a field from lo to hi fit a cron_int, with the step.     *)
ItemFits(item, hi) ==
  /\ item.first < IntSize /\ item.last < IntSize
  /\ hi + 1 < IntSize /\ hi + item.step < IntSize

(* The values that an item names.                                          *)
Named(item, values) ==
  {v \in values :
     LET first == IF item.form \in {"*", "?"} THEN Min(values) ELSE item.first
         last == CASE item.form = "range" -> item.last
                   [] item.form = "one" /\ item.step = NoStep -> first
                   [] OTHER -> Max(values)
     IN  v \in first..last /\ (item.step = NoStep \/ (v - first) % item.step = 0)}

(* The least and the greatest of the numbers from lo to hi.                *)
LEMMA Ends ==
  ASSUME NEW lo \in Nat, NEW hi \in Nat, lo <= hi
  PROVE  Min(lo..hi) = lo /\ Max(lo..hi) = hi
<1> DEFINE S == lo..hi
<1>1. S \in SUBSET Int /\ lo \in S /\ hi \in S /\ S # {} /\ lo \in Int /\ hi \in Int
      /\ (\A x \in S : lo <= x) /\ (\A x \in S : x <= hi)
  OBVIOUS
<1> HIDE DEF S
<1>2. Min(S) \in S /\ \A y \in S : Min(S) <= y
  BY <1>1, MinOf
<1>3. Max(S) \in S /\ \A y \in S : y <= Max(S)
  BY <1>1, MaxOf
<1>4. Min(S) \in Int /\ Max(S) \in Int
  BY <1>1, <1>2, <1>3
<1>5. Min(S) = lo /\ Max(S) = hi
  BY <1>1, <1>2, <1>3, <1>4
<1>6. QED
  BY <1>5 DEF S

(* The bits of an item are those of the values it names.                   *)
LEMMA ItemIs ==
  ASSUME NEW item \in Item, NEW lo \in {0, 1}, NEW hi \in Nat, lo <= hi, ItemFits(item, hi),
         setItem(item, lo, hi) # BAD
  PROVE  /\ setItem(item, lo, hi) = {v - lo : v \in Named(item, lo..hi)}
         /\ Named(item, lo..hi) # {} /\ item.form # "?"
<1> DEFINE r == makeRange(item, lo, hi)
           last == IF item.step # NoStep /\ item.form # "range" THEN hi ELSE r[2]
           delta == IF item.step = NoStep THEN 1 ELSE toCronInt(item.step)
           first == r[1]
<1>1. /\ item.form \in {"*", "?", "one", "range"} /\ item.first \in Nat /\ item.last \in Nat
      /\ item.step \in Nat \cup {-1} /\ NoStep = -1 /\ IntSize \in Nat \ {0}
  BY Sizes DEF Item, NoStep
<1>2. toCronInt(item.first) = item.first /\ toCronInt(item.last) = item.last
  <2>1. ASSUME NEW x \in Nat, x < IntSize PROVE x % IntSize = x
    BY <1>1, <2>1
  <2>2. item.first < IntSize /\ item.last < IntSize
    BY DEF ItemFits
  <2>3. QED
    BY <1>1, <2>1, <2>2 DEF toCronInt
<1>3. item.step # NoStep => toCronInt(item.step) = item.step
  BY <1>1 DEF toCronInt, ItemFits
<1>4. setItem(item, lo, hi) = IF r = <<>> \/ delta = 0 THEN BAD ELSE stepFrom(first - lo, last - lo, delta)
  BY DEF setItem
<1>5. r # <<>> /\ delta # 0
  BY <1>4
<1>6. delta \in Nat \ {0} /\ (item.step # NoStep => delta = item.step) /\ (item.step = NoStep => delta = 1)
  BY <1>1, <1>3, <1>5
<1>7. /\ item.form = "*" => r = <<lo, hi>>
      /\ item.form = "one" => r = <<item.first, item.first>>
      /\ item.form = "range" => r = <<item.first, item.last>>
      /\ item.form # "?"
      /\ lo <= first /\ first <= r[2] /\ r[2] <= hi
  <2> DEFINE p == CASE item.form = "*" -> <<lo, hi>>
                    [] item.form = "one" -> <<toCronInt(item.first), toCronInt(item.first)>>
                    [] item.form = "range" -> <<toCronInt(item.first), toCronInt(item.last)>>
                    [] item.form = "?" -> <<1, 0>>
  <2>1. r = IF lo <= p[1] /\ p[1] <= p[2] /\ p[2] <= hi THEN p ELSE <<>>
    BY DEF makeRange
  <2>2. /\ item.form = "*" => p = <<lo, hi>>
        /\ item.form = "one" => p = <<item.first, item.first>>
        /\ item.form = "range" => p = <<item.first, item.last>>
        /\ item.form = "?" => p = <<1, 0>>
    BY <1>2
  <2> HIDE DEF p, r
  <2>3. r = p /\ lo <= p[1] /\ p[1] <= p[2] /\ p[2] <= hi
    BY <1>5, <2>1
  <2>4. item.form # "?"
    BY <2>2, <2>3
  <2>5. QED
    BY <2>2, <2>3, <2>4
<1> HIDE DEF r, delta
<1>8. /\ first \in Nat /\ last \in Nat /\ lo <= first /\ first <= last /\ last <= hi
  <2>1. first \in Nat /\ r[2] \in Nat
    BY <1>1, <1>7
  <2>2. QED
    BY <1>7, <2>1
<1>9. /\ (IF item.form \in {"*", "?"} THEN Min(lo..hi) ELSE item.first) = first
      /\ (CASE item.form = "range" -> item.last
            [] item.form = "one" /\ item.step = NoStep -> first
            [] OTHER -> Max(lo..hi)) = last
  <2>1. Min(lo..hi) = lo /\ Max(lo..hi) = hi
    BY Ends
  <2>2. CASE item.form = "*"
    BY <1>7, <2>1, <2>2
  <2>3. CASE item.form = "one"
    BY <1>7, <2>1, <2>3
  <2>4. CASE item.form = "range"
    BY <1>7, <2>4
  <2>5. QED
    BY <1>1, <1>7, <2>2, <2>3, <2>4
<1> HIDE DEF first, last
<1>10. stepFrom(first - lo, last - lo, delta) = {x \in first - lo..last - lo : (x - (first - lo)) % delta = 0}
  <2> DEFINE a == first - lo
             b == last - lo
  <2>1. a \in Nat /\ b \in Nat /\ a <= b
    BY <1>8
  <2>2. b + delta < IntSize
    BY <1>1, <1>6, <1>8 DEF ItemFits
  <2> HIDE DEF a, b
  <2>3. stepFrom(a, b, delta) = {x \in a..b : (x - a) % delta = 0}
    BY <1>6, <2>1, <2>2, StepsAre
  <2>4. QED
    BY <2>3 DEF a, b
<1>11. Named(item, lo..hi) = {v \in lo..hi :
           v \in first..last /\ (item.step = NoStep \/ (v - first) % item.step = 0)}
  BY <1>9 DEF Named
<1>12. \A v \in Int : (item.step = NoStep \/ (v - first) % item.step = 0) <=> (v - first) % delta = 0
  <2>1. CASE item.step = NoStep
    <3>1. \A x \in Int : x % 1 = 0
      OBVIOUS
    <3>2. \A v \in Int : v - first \in Int
      BY <1>8
    <3>3. QED
      BY <1>6, <2>1, <3>1, <3>2
  <2>2. CASE item.step # NoStep
    BY <1>6, <2>2
  <2>3. QED
    BY <2>1, <2>2
<1>13. Named(item, lo..hi) = {v \in first..last : (v - first) % delta = 0}
  <2>1. \A v \in first..last : v \in lo..hi /\ v \in Int
    BY <1>8
  <2>2. QED
    BY <1>11, <1>12, <2>1
<1>14. {x \in first - lo..last - lo : (x - (first - lo)) % delta = 0}
         = {v - lo : v \in {w \in first..last : (w - first) % delta = 0}}
  <2>1. ASSUME NEW x \in first - lo..last - lo, (x - (first - lo)) % delta = 0
        PROVE  \E v \in {w \in first..last : (w - first) % delta = 0} : x = v - lo
    <3> DEFINE v == x + lo
    <3>1. v \in first..last /\ x = v - lo /\ x - (first - lo) = v - first
      BY <1>8
    <3>2. (v - first) % delta = 0
      BY <2>1, <3>1
    <3> HIDE DEF v
    <3>3. QED
      BY <3>1, <3>2
  <2>2. ASSUME NEW v \in first..last, (v - first) % delta = 0
        PROVE  v - lo \in first - lo..last - lo /\ ((v - lo) - (first - lo)) % delta = 0
    <3>1. (v - lo) - (first - lo) = v - first /\ v - lo \in first - lo..last - lo
      BY <1>8
    <3>2. QED
      BY <2>2, <3>1
  <2>3. QED
    BY <2>1, <2>2
<1>15. first \in {v \in first..last : (v - first) % delta = 0}
  <2>1. first - first = 0 /\ 0 % delta = 0 /\ first \in first..last
    BY <1>6, <1>8
  <2>2. QED
    BY <2>1
<1>16. setItem(item, lo, hi) = stepFrom(first - lo, last - lo, delta)
  BY <1>4, <1>5 DEF first, last
<1>17. QED
  BY <1>7, <1>10, <1>13, <1>14, <1>15, <1>16

(* The same of a field, ...                                                *)
LEMMA FieldBitsAre ==
  ASSUME NEW items \in SUBSET Item, NEW lo \in {0, 1}, NEW hi \in Nat, lo <= hi,
         \A i \in items : ItemFits(i, hi), setCronField(items, lo, hi) # BAD
  PROVE  /\ setCronField(items, lo, hi) = {v - lo : v \in ValuesOf(items, lo..hi)}
         /\ ValuesOf(items, lo..hi) \in (SUBSET (lo..hi)) \ {{}}
         /\ items # {} /\ \A i \in items : i.form # "?"
<1> DEFINE bits == UNION {setItem(i, lo, hi) : i \in items}
<1>1. items # {} /\ INVALID \notin bits /\ setCronField(items, lo, hi) = bits
  BY DEF setCronField
<1>2. ASSUME NEW i \in items PROVE setItem(i, lo, hi) # BAD
  BY <1>1 DEF BAD
<1>3. ASSUME NEW i \in items
      PROVE  /\ setItem(i, lo, hi) = {v - lo : v \in Named(i, lo..hi)}
             /\ Named(i, lo..hi) # {} /\ i.form # "?"
  BY <1>2, ItemIs
<1>4. ValuesOf(items, lo..hi) = UNION {Named(i, lo..hi) : i \in items}
  BY DEF ValuesOf, Named
<1>5. bits = {v - lo : v \in UNION {Named(i, lo..hi) : i \in items}}
  BY <1>3
<1>6. ValuesOf(items, lo..hi) \subseteq lo..hi
  BY DEF ValuesOf
<1>7. ValuesOf(items, lo..hi) # {}
  <2>1. PICK i \in items : TRUE
    BY <1>1
  <2>2. Named(i, lo..hi) # {} /\ Named(i, lo..hi) \subseteq ValuesOf(items, lo..hi)
    BY <1>3, <1>4
  <2>3. QED
    BY <2>2
<1> HIDE DEF bits
<1>8. setCronField(items, lo, hi) = {v - lo : v \in ValuesOf(items, lo..hi)}
  BY <1>1, <1>4, <1>5
<1>9. QED
  BY <1>1, <1>3, <1>6, <1>7, <1>8

(* ... and of the days, for which "?" is "*".                              *)
LEMMA DayBitsAre ==
  ASSUME NEW items \in SUBSET Item, NEW lo \in {0, 1}, NEW hi \in Nat, lo <= hi,
         \A i \in items : ItemFits(i, hi), setCronDays(items, lo, hi) # BAD
  PROVE  /\ setCronDays(items, lo, hi) = {v - lo : v \in ValuesOf(items, lo..hi)}
         /\ ValuesOf(items, lo..hi) \in (SUBSET (lo..hi)) \ {{}}
         /\ items # {}
<1>1. CASE ~(\E i \in items : items = {i} /\ i.form = "?" /\ i.step = NoStep)
  <2>1. setCronDays(items, lo, hi) = setCronField(items, lo, hi)
    BY <1>1 DEF setCronDays
  <2>2. QED
    BY <2>1, FieldBitsAre
<1>2. CASE \E i \in items : items = {i} /\ i.form = "?" /\ i.step = NoStep
  <2>1. PICK i \in items : items = {i} /\ i.form = "?" /\ i.step = NoStep
    BY <1>2
  <2>2. setCronDays(items, lo, hi) = setCronField({Star}, lo, hi)
    BY <1>2 DEF setCronDays
  <2>3. Star \in Item /\ ItemFits(Star, hi)
    <3>1. hi + 1 < IntSize /\ IntSize \in Nat \ {0}
      BY <2>1, Sizes DEF ItemFits
    <3>2. QED
      BY <3>1 DEF Star, Item, ItemFits, NoStep
  <2> DEFINE stars == {Star}
  <2>4. stars \in SUBSET Item /\ \A j \in stars : ItemFits(j, hi)
    BY <2>3
  <2>5. setCronField(stars, lo, hi) # BAD
    BY <2>2
  <2> HIDE DEF stars
  <2>6. /\ setCronField(stars, lo, hi) = {v - lo : v \in ValuesOf(stars, lo..hi)}
        /\ ValuesOf(stars, lo..hi) \in (SUBSET (lo..hi)) \ {{}}
    BY <2>4, <2>5, FieldBitsAre
  <2>7. Star.form = "*" /\ Star.step = NoStep
    BY DEF Star
  <2>8. Named(Star, lo..hi) = Named(i, lo..hi)
    BY <2>1, <2>7 DEF Named
  <2>9. \A S : ValuesOf(S, lo..hi) = UNION {Named(j, lo..hi) : j \in S}
    BY DEF ValuesOf, Named
  <2>10. ValuesOf(stars, lo..hi) = ValuesOf(items, lo..hi)
    <3>1. UNION {Named(j, lo..hi) : j \in stars} = Named(Star, lo..hi)
      BY DEF stars
    <3>2. UNION {Named(j, lo..hi) : j \in items} = Named(i, lo..hi)
      BY <2>1
    <3>3. QED
      BY <2>8, <2>9, <3>1, <3>2
  <2>11. QED
    BY <2>2, <2>6, <2>10 DEF stars
<1>3. QED
  BY <1>1, <1>2

Exprs == [sec : SUBSET Item, min : SUBSET Item, hour : SUBSET Item,
          mday : SUBSET Item, mon : SUBSET Item, wday : SUBSET Item]

(* What is made of an expression is what it means.                         *)
LEMMA MeaningIs ==
  ASSUME NEW expr \in Exprs, NumbersFit(expr), isCron(makeCron(expr))
  PROVE  makeCron(expr) = BitsOf(Meaning(expr)) /\ Meaning(expr) \in Whens
<1> DEFINE cex == makeCron(expr)
           when == Meaning(expr)
<1>1. /\ NSec \in Nat \ {0} /\ NMin \in Nat \ {0} /\ NHour \in Nat \ {0} /\ NWeek \in Nat \ {0}
      /\ NDay \in Nat \ {0} /\ NMon \in Nat \ {0} /\ IntSize \in Nat \ {0}
  BY Sizes, MonthSizes
<1>2. ASSUME NEW f \in {"sec", "min", "hour", "mday", "mon", "wday"}
      PROVE  /\ expr[f] \in SUBSET Item
             /\ \A i \in expr[f] : /\ ItemFits(i, NSec - 1) /\ ItemFits(i, NMin - 1)
                                   /\ ItemFits(i, NHour - 1) /\ ItemFits(i, NDay)
                                   /\ ItemFits(i, NMon) /\ ItemFits(i, NWeek - 1)
  <2>1. f \in DOMAIN expr /\ expr[f] \in SUBSET Item
    BY DEF Exprs
  <2>2. ASSUME NEW i \in expr[f]
        PROVE  /\ ItemFits(i, NSec - 1) /\ ItemFits(i, NMin - 1)
               /\ ItemFits(i, NHour - 1) /\ ItemFits(i, NDay)
               /\ ItemFits(i, NMon) /\ ItemFits(i, NWeek - 1)
    <3>1. /\ i.first < IntSize /\ i.last < IntSize
          /\ i.step + NSec + NMin + NHour + NDay + NMon + NWeek < IntSize
      BY <2>1 DEF NumbersFit
    <3>2. i.step \in Int /\ i.step >= -1
      <4>1. i \in Item
        BY <2>1
      <4>2. QED
        BY <4>1 DEF Item, NoStep
    <3> DEFINE step == i.step
    <3> HIDE DEF step
    <3>3. step \in Int /\ step >= -1 /\ step + NSec + NMin + NHour + NDay + NMon + NWeek < IntSize
      BY <3>1, <3>2 DEF step
    <3>4. \A n \in {NSec - 1, NMin - 1, NHour - 1, NDay, NMon, NWeek - 1} :
            n + 1 < IntSize /\ n + step < IntSize
      BY <1>1, <3>3
    <3>5. \A n \in {NSec - 1, NMin - 1, NHour - 1, NDay, NMon, NWeek - 1} : ItemFits(i, n)
      BY <3>1, <3>4 DEF ItemFits, step
    <3>6. QED
      BY <3>5
  <2>3. QED
    BY <2>1, <2>2
<1>3. /\ cex.sec = setCronField(expr.sec, 0, NSec - 1)
      /\ cex.min = setCronField(expr.min, 0, NMin - 1)
      /\ cex.hour = setCronField(expr.hour, 0, NHour - 1)
      /\ cex.mday = setCronDays(expr.mday, 1, NDay)
      /\ cex.mon = setCronField(expr.mon, 1, NMon)
      /\ cex.wday = setCronDays(expr.wday, 0, NWeek - 1)
      /\ DOMAIN cex = {"sec", "min", "hour", "mday", "mon", "wday"}
      /\ cex = [sec |-> cex.sec, min |-> cex.min, hour |-> cex.hour,
                mday |-> cex.mday, mon |-> cex.mon, wday |-> cex.wday]
  BY DEF makeCron
<1>4. \A f \in {"sec", "min", "hour", "mday", "mon", "wday"} : cex[f] # BAD
  BY <1>3 DEF isCron
<1> HIDE DEF cex
<1>5. ASSUME NEW items \in SUBSET Item, NEW n \in Nat \ {0}, \A i \in items : ItemFits(i, n - 1),
             setCronField(items, 0, n - 1) # BAD
      PROVE  /\ setCronField(items, 0, n - 1) = ValuesOf(items, 0..n - 1)
             /\ ValuesOf(items, 0..n - 1) \in (SUBSET (0..n - 1)) \ {{}}
  <2> DEFINE hi == n - 1
  <2>1. hi \in Nat /\ 0 <= hi /\ 0 \in {0, 1}
    OBVIOUS
  <2> HIDE DEF hi
  <2>2. \A i \in items : ItemFits(i, hi)
    BY <1>5 DEF hi
  <2>3. setCronField(items, 0, hi) # BAD
    BY <1>5 DEF hi
  <2>4. /\ setCronField(items, 0, hi) = {v - 0 : v \in ValuesOf(items, 0..hi)}
        /\ ValuesOf(items, 0..hi) \in (SUBSET (0..hi)) \ {{}}
    BY <2>1, <2>2, <2>3, FieldBitsAre
  <2>5. {v - 0 : v \in ValuesOf(items, 0..hi)} = ValuesOf(items, 0..hi)
    <3> DEFINE S == ValuesOf(items, 0..hi)
    <3>1. \A v \in S : v - 0 = v
      BY <2>1, <2>4
    <3> HIDE DEF S
    <3>2. QED
      BY <3>1 DEF S
  <2>6. QED
    BY <2>4, <2>5 DEF hi
<1>6. cex.sec = when.sec /\ when.sec \in (SUBSET (0..NSec - 1)) \ {{}}
  BY <1>1, <1>2, <1>3, <1>4, <1>5 DEF Meaning
<1>7. cex.min = when.min /\ when.min \in (SUBSET (0..NMin - 1)) \ {{}}
  BY <1>1, <1>2, <1>3, <1>4, <1>5 DEF Meaning
<1>8. cex.hour = when.hour /\ when.hour \in (SUBSET (0..NHour - 1)) \ {{}}
  BY <1>1, <1>2, <1>3, <1>4, <1>5 DEF Meaning
<1>9. cex.mday = {v - 1 : v \in when.mday} /\ when.mday \in (SUBSET (1..NDay)) \ {{}}
  <2> DEFINE items == expr.mday
  <2>1. items \in SUBSET Item /\ \A i \in items : ItemFits(i, NDay)
    BY <1>2
  <2>2. setCronDays(items, 1, NDay) # BAD
    BY <1>3, <1>4
  <2>3. when.mday = ValuesOf(items, 1..NDay)
    BY DEF Meaning
  <2> HIDE DEF items, when
  <2>4. NDay \in Nat /\ 1 <= NDay /\ 1 \in {0, 1}
    BY <1>1
  <2>5. /\ setCronDays(items, 1, NDay) = {v - 1 : v \in ValuesOf(items, 1..NDay)}
        /\ ValuesOf(items, 1..NDay) \in (SUBSET (1..NDay)) \ {{}}
    BY <2>1, <2>2, <2>4, DayBitsAre
  <2>6. QED
    BY <1>3, <2>3, <2>5 DEF items
<1>10. cex.mon = when.mon /\ when.mon \in (SUBSET Months) \ {{}}
  <2> DEFINE items == expr.mon
  <2>1. items \in SUBSET Item /\ \A i \in items : ItemFits(i, NMon)
    BY <1>2
  <2>2. setCronField(items, 1, NMon) # BAD
    BY <1>3, <1>4
  <2>3. when.mon = {v - 1 : v \in ValuesOf(items, 1..NMon)}
    BY DEF Meaning
  <2> HIDE DEF items, when
  <2>4. NMon \in Nat /\ 1 <= NMon /\ 1 \in {0, 1}
    BY <1>1
  <2>5. /\ setCronField(items, 1, NMon) = {v - 1 : v \in ValuesOf(items, 1..NMon)}
        /\ ValuesOf(items, 1..NMon) \in (SUBSET (1..NMon)) \ {{}}
    BY <2>1, <2>2, <2>4, FieldBitsAre
  <2>6. \A v \in 1..NMon : v - 1 \in Months
    BY <1>1, MonthsAre
  <2>7. when.mon \subseteq Months
    BY <2>3, <2>5, <2>6
  <2>8. when.mon # {}
    BY <2>3, <2>5
  <2>9. QED
    BY <1>3, <2>3, <2>5, <2>7, <2>8 DEF items
<1>11. cex.wday = when.wday /\ when.wday \in (SUBSET (0..NWeek - 1)) \ {{}}
  <2> DEFINE items == expr.wday
             hi == NWeek - 1
  <2>1. items \in SUBSET Item /\ \A i \in items : ItemFits(i, hi)
    BY <1>2
  <2>2. setCronDays(items, 0, hi) # BAD /\ cex.wday = setCronDays(items, 0, hi)
    BY <1>3, <1>4
  <2>3. when.wday = ValuesOf(items, 0..hi)
    BY DEF Meaning
  <2>4. hi \in Nat /\ 0 <= hi /\ 0 \in {0, 1}
    BY <1>1
  <2> HIDE DEF items, when, hi
  <2>5. /\ setCronDays(items, 0, hi) = {v - 0 : v \in ValuesOf(items, 0..hi)}
        /\ ValuesOf(items, 0..hi) \in (SUBSET (0..hi)) \ {{}}
    BY <2>1, <2>2, <2>4, DayBitsAre
  <2>6. {v - 0 : v \in ValuesOf(items, 0..hi)} = ValuesOf(items, 0..hi)
    <3> DEFINE S == ValuesOf(items, 0..hi)
    <3>1. \A v \in S : v - 0 = v
      BY <2>4, <2>5
    <3> HIDE DEF S
    <3>2. QED
      BY <3>1 DEF S
  <2>7. QED
    BY <2>2, <2>3, <2>5, <2>6 DEF hi
<1>12. when = [sec |-> when.sec, min |-> when.min, hour |-> when.hour,
               mday |-> when.mday, mon |-> when.mon, wday |-> when.wday]
  BY DEF Meaning
<1> HIDE DEF when
<1>13. when \in Whens
  BY <1>6, <1>7, <1>8, <1>9, <1>10, <1>11, <1>12 DEF Whens
<1>14. cex = BitsOf(when)
  BY <1>3, <1>6, <1>7, <1>8, <1>9, <1>10, <1>11 DEF BitsOf
<1>15. QED
  BY <1>13, <1>14 DEF cex, when

-----------------------------------------------------------------------------
(* A timer with a schedule.                                                *)

(* Where the string is a schedule that can be kept to: a timer that is     *)
(* made with it is at the next time after the one it was computed at.      *)
ScheduleInv ==
  /\ gmtoff \in Offsets /\ str \in Strings
  /\ str.kind = "schedule" /\ IsSimple(str.expr) =>
       /\ cron = makeCron(str.expr)
       /\ now \in Int /\ now >= MinNow /\ due \in Int /\ delay \in Nat
       /\ user = "schedule" /\ due # NoTime =>
            /\ isCron(cron) /\ made \in Int /\ made >= MinNow
            /\ due + gmtoff = cronNext(cron, made + gmtoff)

(* A string with a schedule is nothing else.                               *)
LEMMA ScheduleStrings ==
  ASSUME str \in Strings, str.kind = "schedule"
  PROVE  /\ str.expr \in Crons
         /\ isSchedule(str.kind) /\ isGood(str.kind) /\ ~isTime(str.kind) /\ ~isInterval(str.kind)
         /\ Readable <=> isCron(cron)
         /\ str.kind # "empty"
BY DEF Strings, isTime, isGood, isSchedule, isInterval, Readable

(* The next time of an expression after now is found, and is the next that *)
(* fits.                                                                   *)
LEMMA CronFits ==
  ASSUME NEW expr \in Crons, IsSimple(expr), isCron(makeCron(expr)),
         NEW n \in Int, n >= MinNow, NEW g \in Offsets
  PROVE  LET t == cronNext(makeCron(expr), n + g)
         IN  t \in Int /\ t # INVALID /\ IsNextMatch(Meaning(expr), t, n + g)
<1> DEFINE when == Meaning(expr)
           from == n + g
<1>1. expr \in Exprs
  BY TimesAssumption DEF Exprs
<1>2. NumbersFit(expr) /\ EveryMonthHas(when) /\ DaysAreSimple(when) /\ SecondsAreSimple(when)
  BY DEF IsSimple
<1>3. makeCron(expr) = BitsOf(when) /\ when \in Whens
  BY <1>1, <1>2, MeaningIs
<1>4. from \in Int /\ from >= 0
  BY TimesAssumption
<1> HIDE DEF when, from
<1> DEFINE t == cronNext(BitsOf(when), from)
<1>5. t \in Int /\ IsNextMatch(when, t, from)
  BY <1>2, <1>3, <1>4, CronNextIs
<1>6. t > from
  BY <1>5 DEF IsNextMatch
<1> HIDE DEF t
<1>7. t # INVALID
  BY <1>4, <1>5, <1>6 DEF INVALID
<1>8. QED
  BY <1>3, <1>5, <1>7 DEF t, from, when

(* What CronNext is then.                                                  *)
LEMMA CronNextFits ==
  ASSUME ScheduleInv, str.kind = "schedule", IsSimple(str.expr), isCron(cron)
  PROVE  CronNext \in Int /\ CronNext + gmtoff = cronNext(cron, now + gmtoff)
<1> DEFINE t == cronNext(cron, now + gmtoff)
<1>1. /\ str.expr \in Crons /\ cron = makeCron(str.expr) /\ now \in Int /\ now >= MinNow
      /\ gmtoff \in Offsets /\ gmtoff \in Int
  BY ScheduleStrings, TimesAssumption DEF ScheduleInv
<1>2. t \in Int /\ t # INVALID
  <2> DEFINE expr == str.expr
  <2>1. expr \in Crons /\ IsSimple(expr) /\ isCron(makeCron(expr))
    BY <1>1
  <2> HIDE DEF expr
  <2>2. cronNext(makeCron(expr), now + gmtoff) \in Int /\ cronNext(makeCron(expr), now + gmtoff) # INVALID
    BY <1>1, <2>1, CronFits
  <2>3. QED
    BY <1>1, <2>2 DEF expr
<1>3. CronNext = IF t = INVALID THEN INVALID ELSE t - gmtoff
  BY DEF CronNext, FromLocal
<1> HIDE DEF t
<1>4. CronNext \in Int /\ CronNext + gmtoff = t
  BY <1>1, <1>2, <1>3
<1>5. QED
  BY <1>4 DEF t

(* ScheduleInv holds at first.                                             *)
LEMMA InitScheduled == Init => ScheduleInv
<1> SUFFICES ASSUME Init PROVE ScheduleInv
  OBVIOUS
<1>1. /\ gmtoff \in Offsets /\ str \in Strings /\ user = "none"
      /\ due = NoTime /\ delay = 0 /\ now \in MinNow..MaxNow
      /\ cron = IF isSchedule(str.kind) THEN makeCron(str.expr) ELSE NoCron
  BY DEF Init
<1>2. now \in Int /\ now >= MinNow /\ due \in Int /\ user # "schedule" /\ delay \in Nat
  BY <1>1, TimesAssumption DEF NoTime
<1>3. str.kind = "schedule" => cron = makeCron(str.expr)
  BY <1>1, ScheduleStrings
<1>4. QED
  BY <1>1, <1>2, <1>3 DEF ScheduleInv

(* A call that is given the string computes the time of the first run.     *)
LEMMA ScheduledCalls ==
  ASSUME ScheduleInv, str.kind = "schedule", IsSimple(str.expr),
         \/ Post \/ CreateScheduled
         \/ \E period \in Periods : CreateFrom(period)
         \/ \E start, period \in Periods : CreateDelayed(start, period)
  PROVE  ScheduleInv'
<1>1. /\ str.expr \in Crons /\ (Readable <=> isCron(cron)) /\ ~isInterval(str.kind) /\ str.kind # "empty"
      /\ isSchedule(str.kind) /\ ~isTime(str.kind)
  BY ScheduleStrings DEF ScheduleInv
<1>2. /\ now \in Int /\ now >= MinNow /\ gmtoff \in Offsets /\ str \in Strings
      /\ cron = makeCron(str.expr)
  BY DEF ScheduleInv
<1>3. Readable => MakeTimePoint \in Int /\ MakeTimePoint + gmtoff = cronNext(cron, now + gmtoff)
  <2>1. MakeTimePoint = CronNext
    BY <1>1 DEF MakeTimePoint
  <2>2. QED
    BY <1>1, <2>1, CronNextFits
<1> DEFINE time == MakeTimePoint
<1> HIDE DEF time
<1>4. ASSUME NEW u, NEW p \in Nat, NEW first \in Int, Use(u, p, first),
             u = "schedule" => \/ first = NoTime
                               \/ Readable /\ first = time
      PROVE  ScheduleInv'
  <2>1. /\ user' = u /\ made' = now /\ delay' = p /\ due' = first
        /\ UNCHANGED <<now, gmtoff, str, cron, late>>
    BY <1>4 DEF Use
  <2>2. ASSUME user' = "schedule", due' # NoTime
        PROVE  /\ isCron(cron) /\ made' \in Int /\ made' >= MinNow
               /\ due' + gmtoff = cronNext(cron, made' + gmtoff)
    <3>1. Readable /\ first = time
      BY <1>4, <2>1, <2>2
    <3>2. due' = time /\ made' = now
      BY <2>1, <3>1
    <3>3. time + gmtoff = cronNext(cron, now + gmtoff)
      BY <1>3, <3>1 DEF time
    <3>4. QED
      BY <1>1, <1>2, <3>1, <3>2, <3>3
  <2>3. QED
    BY <1>2, <1>4, <2>1, <2>2 DEF ScheduleInv
<1>5. CASE Post
  <2>1. Use("post", 0, IF Readable THEN time ELSE now)
    BY <1>5 DEF Post, time
  <2>2. (IF Readable THEN time ELSE now) \in Int
    BY <1>2, <1>3 DEF time
  <2>3. QED
    BY <1>4, <2>1, <2>2
<1>6. CASE CreateScheduled
  <2>1. CASE Readable
    <3>1. Use("schedule", 0, time)
      BY <1>1, <1>6, <2>1 DEF CreateScheduled, time
    <3>2. time \in Int
      BY <1>3, <2>1 DEF time
    <3>3. QED
      BY <1>4, <2>1, <3>1, <3>2
  <2>2. CASE ~Readable
    <3>1. Use("schedule", 0, NoTime) /\ NoTime \in Int
      BY <1>6, <2>2 DEF CreateScheduled, NoTime
    <3>2. QED
      BY <1>4, <3>1
  <2>3. QED
    BY <2>1, <2>2
<1>7. CASE \E period \in Periods : CreateFrom(period)
  <2>1. PICK period \in Periods : Use("start", period, IF Readable THEN time ELSE now + period)
    BY <1>1, <1>7 DEF CreateFrom, time
  <2>2. period \in Nat
    BY TimesAssumption
  <2>3. (IF Readable THEN time ELSE now + period) \in Int
    BY <1>2, <1>3, <2>2 DEF time
  <2>4. QED
    BY <1>4, <2>1, <2>2, <2>3
<1>8. CASE \E start, period \in Periods : CreateDelayed(start, period)
  BY <1>1, <1>8 DEF CreateDelayed
<1>9. QED
  BY <1>5, <1>6, <1>7, <1>8

(* A run that is given a schedule computes the time of the next one.       *)
LEMMA ScheduledRun ==
  ASSUME ScheduleInv, str.kind = "schedule", IsSimple(str.expr), Run
  PROVE  ScheduleInv'
<1>1. /\ UNCHANGED <<now, gmtoff, user, str, cron, delay>> /\ made' = now
      /\ due # NoTime /\ due' = now + MakeDelay
  BY DEF Run
<1>2. /\ now \in Int /\ now >= MinNow /\ gmtoff \in Offsets /\ str \in Strings
      /\ cron = makeCron(str.expr) /\ delay \in Nat /\ isSchedule(str.kind)
  BY ScheduleStrings DEF ScheduleInv
<1>3. CASE user = "schedule"
  <2>1. isCron(cron)
    BY <1>1, <1>3 DEF ScheduleInv
  <2>2. CronNext \in Int /\ CronNext + gmtoff = cronNext(cron, now + gmtoff)
    BY <2>1, CronNextFits
  <2>3. due' = now + (CronNext - now)
    BY <1>1, <1>2, <1>3 DEF MakeDelay
  <2> DEFINE next == CronNext
  <2> HIDE DEF next
  <2>4. due' = next /\ next \in Int /\ next + gmtoff = cronNext(cron, now + gmtoff)
    BY <1>2, <2>2, <2>3 DEF next
  <2>5. QED
    BY <1>1, <1>2, <2>1, <2>4 DEF ScheduleInv
<1>4. CASE user # "schedule"
  <2>1. MakeDelay = IF delay = 0 THEN SecondsOfDay ELSE delay
    BY <1>4 DEF MakeDelay
  <2>2. due' \in Int
    BY <1>1, <1>2, <2>1, Units
  <2>3. QED
    BY <1>1, <1>2, <1>4, <2>2 DEF ScheduleInv
<1>5. QED
  BY <1>3, <1>4

(* No other step changes what the schedule is or the time it is to run at. *)
LEMMA ScheduledStep == ScheduleInv /\ [Next]_vars => ScheduleInv'
<1> SUFFICES ASSUME ScheduleInv, [Next]_vars PROVE ScheduleInv'
  OBVIOUS
<1>1. CASE ~(str.kind = "schedule" /\ IsSimple(str.expr))
  <2>1. UNCHANGED <<gmtoff, str>>
    BY DEF Next, Post, CreateScheduled, CreateFrom, CreateDelayed, Use, Run, Elapse, vars
  <2>2. QED
    BY <1>1, <2>1 DEF ScheduleInv
<1>2. CASE str.kind = "schedule" /\ IsSimple(str.expr)
  <2>1. CASE Elapse
    <3>1. /\ UNCHANGED <<gmtoff, user, str, cron, made, delay, due, late>>
          /\ now < due /\ \E d \in 0..MaxLate : now' = due + d
      BY <2>1 DEF Elapse
    <3>2. now \in Int /\ now >= MinNow /\ due \in Int /\ MinNow \in Int
      BY <1>2, TimesAssumption DEF ScheduleInv
    <3>3. now' \in Int /\ now' >= MinNow
      BY <3>1, <3>2, TimesAssumption
    <3>4. QED
      BY <3>1, <3>3 DEF ScheduleInv
  <2>2. CASE UNCHANGED vars
    BY <2>2 DEF vars, ScheduleInv
  <2>3. QED
    BY <1>2, <2>1, <2>2, ScheduledCalls, ScheduledRun DEF Next
<1>3. QED
  BY <1>1, <1>2

(* A timer with a schedule is due at the first second after the one it was *)
(* computed at that fits the expression, whichever lists, ranges and steps *)
(* that is written with, whichever fields have to move and however many    *)
(* carry into the next; this where every month has the days that the       *)
(* schedule names, not both a day of the month and a weekday are named,    *)
(* and not both some seconds and some values of another field              *)
(* (croncpp.h:366-468, 532-829).                                           *)
THEOREM ScheduleKeptHolds == Spec => []ScheduleKept
<1>1. ScheduleInv => ScheduleKept
  <2> SUFFICES ASSUME ScheduleInv, str.kind = "schedule", user = "schedule", due # NoTime, IsSimple(str.expr)
               PROVE  IsNextMatch(Meaning(str.expr), due + gmtoff, made + gmtoff)
    BY DEF ScheduleKept
  <2> DEFINE expr == str.expr
  <2>1. /\ isCron(cron) /\ made \in Int /\ made >= MinNow /\ gmtoff \in Offsets
        /\ due + gmtoff = cronNext(cron, made + gmtoff) /\ cron = makeCron(expr)
    BY DEF ScheduleInv
  <2>2. expr \in Crons
    BY ScheduleStrings DEF ScheduleInv
  <2> HIDE DEF expr
  <2>3. IsSimple(expr)
    BY DEF expr
  <2>4. IsNextMatch(Meaning(expr), cronNext(makeCron(expr), made + gmtoff), made + gmtoff)
    BY <2>1, <2>2, <2>3, CronFits
  <2>5. QED
    BY <2>1, <2>4 DEF expr
<1>2. QED
  BY <1>1, InitScheduled, ScheduledStep, PTL DEF Spec

=============================================================================
