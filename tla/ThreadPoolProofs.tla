--------------------------- MODULE ThreadPoolProofs ---------------------------
(* Proofs about ThreadPool, for any threads, clients, calls, sizes and     *)
(* either queue.                                                           *)
EXTENDS ThreadPool, SequenceTheorems, TLAPS

-----------------------------------------------------------------------------
(* The inductive invariant.                                                *)

Joins == {"join stop", "join wait"}
Held == Joins \cup {"grow", "nudge"}

(* What a call has established holds until it goes on: it has the mutex.   *)
Calling ==
  \A c \in Clients :
    /\ at[c] \in Held => mutex = c
    /\ at[c] = "grow" => started
    /\ at[c] \in Joins => ~work
    /\ at[c] = "join stop" => flags = <<>>

JoiningStop == \E c \in Clients : at[c] = "join stop"

(* Nothing is listed before it is created.                                 *)
Born ==
  \A t \in Threads :
    pc[t] = "unborn" => /\ t \notin Range(threads)
                        /\ t \notin Range(flags)
                        /\ t \notin detached

(* A thread is not further down the list than its flag, so resize() keeps  *)
(* no flag of a thread it drops.                                           *)
Behind(fl, th) ==
  \A i \in 1..Len(fl), j \in 1..Len(th) : fl[i] = th[j] => j <= i

Lists == /\ Born
         /\ Behind(flags, threads)
         /\ Len(threads) <= Len(flags) \/ JoiningStop
         /\ NoneDropped
         /\ SurplusDismissed
         /\ FlagsMatch

IInv == TypeOK /\ Calling /\ PoolShape /\ Lists

-----------------------------------------------------------------------------
(* The two lists.                                                          *)

LEMMA EmptyList ==
  ASSUME NEW S
  PROVE  <<>> \in Seq(S) /\ Len(<<>>) = 0 /\ Range(<<>>) = {}
<1>1. <<>> \in Seq(S) /\ Len(<<>>) = 0
  OBVIOUS
<1>2. Range(<<>>) = {<<>>[i] : i \in 1..0}
  BY <1>1, RangeEquality
<1>3. QED
  BY <1>1, <1>2

(* New threads with new flags are appended to both lists.                  *)
LEMMA AppendedLists ==
  ASSUME NEW S, NEW th \in Seq(S), NEW fl \in Seq(S), NEW new \in Seq(S),
         IsInjective(new), Range(new) \cap Range(fl) = {}
  PROVE  /\ th \o new \in Seq(S) /\ fl \o new \in Seq(S)
         /\ Len(th \o new) = Len(th) + Len(new)
         /\ Len(fl \o new) = Len(fl) + Len(new)
         /\ Range(th \o new) = Range(th) \cup Range(new)
         /\ Range(fl \o new) = Range(fl) \cup Range(new)
         /\ Behind(fl, th) /\ Len(th) <= Len(fl) => Behind(fl \o new, th \o new)
         /\ fl # <<>> => Head(fl \o new) = Head(fl)
<1>1. Len(new) \in Nat /\ DOMAIN new = 1..Len(new)
  BY LenProperties
<1>2. /\ th \o new \in Seq(S) /\ fl \o new \in Seq(S)
      /\ Len(th \o new) = Len(th) + Len(new)
      /\ Len(fl \o new) = Len(fl) + Len(new)
  BY ConcatProperties
<1>3. /\ Range(th \o new) = Range(th) \cup Range(new)
      /\ Range(fl \o new) = Range(fl) \cup Range(new)
  BY RangeConcatenation
<1>4. ASSUME Behind(fl, th), Len(th) <= Len(fl)
      PROVE  Behind(fl \o new, th \o new)
  <2>1. SUFFICES ASSUME NEW i \in 1..Len(fl \o new), NEW j \in 1..Len(th \o new),
                        (fl \o new)[i] = (th \o new)[j]
                 PROVE  j <= i
    BY DEF Behind
  <2>2. Len(fl) \in Nat /\ Len(th) \in Nat
    BY LenProperties
  <2>3. CASE i <= Len(fl) /\ j <= Len(th)
    <3>1. (fl \o new)[i] = fl[i] /\ (th \o new)[j] = th[j]
      BY <2>3, <1>1, <1>2, ConcatProperties
    <3>2. QED
      BY <3>1, <2>1, <2>2, <2>3, <1>2, <1>4 DEF Behind
  <2>4. CASE i > Len(fl) /\ j <= Len(th)
    BY <2>2, <2>4, <1>2, <1>4
  <2>5. CASE i <= Len(fl) /\ j > Len(th)
    <3>1. (fl \o new)[i] = fl[i] /\ (th \o new)[j] = new[j - Len(th)]
      BY <2>5, <1>1, <1>2, <2>2, ConcatProperties
    <3>2. j - Len(th) \in 1..Len(new) /\ i \in 1..Len(fl)
      BY <2>2, <2>5, <1>2
    <3>3. new[j - Len(th)] \in Range(new) /\ fl[i] \in Range(fl)
      BY <3>2, <2>2, <1>1, LenProperties DEF Range
    <3>4. QED
      BY <3>1, <3>3, <2>1
  <2>6. CASE i > Len(fl) /\ j > Len(th)
    <3>1. (fl \o new)[i] = new[i - Len(fl)] /\ (th \o new)[j] = new[j - Len(th)]
      BY <2>6, <1>1, <1>2, <2>2, ConcatProperties
    <3>2. j - Len(th) \in 1..Len(new) /\ i - Len(fl) \in 1..Len(new)
      BY <2>2, <2>6, <1>2
    <3>3. i - Len(fl) = j - Len(th)
      BY <3>1, <3>2, <2>1, <1>1 DEF IsInjective
    <3>4. QED
      BY <3>3, <2>2, <1>4, <1>2
  <2>7. QED
    BY <2>2, <2>3, <2>4, <2>5, <2>6, <1>2
<1>5. fl # <<>> => Head(fl \o new) = Head(fl)
  BY <1>1, <1>2, ConcatProperties, EmptySeq
<1>6. QED
  BY <1>2, <1>3, <1>4, <1>5

(* The first n of both lists are kept.                                     *)
LEMMA ResizedLists ==
  ASSUME NEW S, NEW th \in Seq(S), NEW fl \in Seq(S), NEW n \in Nat,
         n < Len(th), Len(th) <= Len(fl), Behind(fl, th)
  PROVE  /\ SubSeq(th, 1, n) \in Seq(S) /\ SubSeq(fl, 1, n) \in Seq(S)
         /\ Len(SubSeq(th, 1, n)) = n /\ Len(SubSeq(fl, 1, n)) = n
         /\ \A i \in 1..n : SubSeq(th, 1, n)[i] = th[i] /\ SubSeq(fl, 1, n)[i] = fl[i]
         /\ Range(SubSeq(th, 1, n)) \subseteq Range(th)
         /\ Range(SubSeq(fl, 1, n)) \subseteq Range(fl)
         /\ Range(th) \subseteq Range(SubSeq(th, 1, n))
                                \cup {th[i] : i \in (n + 1)..Len(th)}
         /\ {th[i] : i \in (n + 1)..Len(th)} \subseteq Range(th)
         /\ {th[i] : i \in (n + 1)..Len(th)} \cap Range(SubSeq(fl, 1, n)) = {}
         /\ Behind(SubSeq(fl, 1, n), SubSeq(th, 1, n))
<1>1. Len(th) \in Nat /\ Len(fl) \in Nat
  BY LenProperties
<1>2. /\ SubSeq(th, 1, n) \in Seq(S) /\ SubSeq(fl, 1, n) \in Seq(S)
      /\ Len(SubSeq(th, 1, n)) = n /\ Len(SubSeq(fl, 1, n)) = n
      /\ \A i \in 1..n : SubSeq(th, 1, n)[i] = th[i] /\ SubSeq(fl, 1, n)[i] = fl[i]
  BY <1>1
<1>3. /\ Range(th) = {th[i] : i \in 1..Len(th)}
      /\ Range(fl) = {fl[i] : i \in 1..Len(fl)}
      /\ Range(SubSeq(th, 1, n)) = {th[i] : i \in 1..n}
      /\ Range(SubSeq(fl, 1, n)) = {fl[i] : i \in 1..n}
  <2>1. /\ Range(SubSeq(th, 1, n)) = {SubSeq(th, 1, n)[i] : i \in 1..n}
        /\ Range(SubSeq(fl, 1, n)) = {SubSeq(fl, 1, n)[i] : i \in 1..n}
    BY <1>2, RangeEquality
  <2>2. /\ {SubSeq(th, 1, n)[i] : i \in 1..n} = {th[i] : i \in 1..n}
        /\ {SubSeq(fl, 1, n)[i] : i \in 1..n} = {fl[i] : i \in 1..n}
    BY <1>2
  <2>3. /\ Range(th) = {th[i] : i \in 1..Len(th)}
        /\ Range(fl) = {fl[i] : i \in 1..Len(fl)}
    BY RangeEquality
  <2>4. QED
    BY <2>1, <2>2, <2>3
<1>4. {th[i] : i \in (n + 1)..Len(th)} \cap {fl[i] : i \in 1..n} = {}
  <2>1. ASSUME NEW i \in 1..n, NEW j \in (n + 1)..Len(th)
        PROVE  fl[i] # th[j]
    <3>1. i \in 1..Len(fl) /\ j \in 1..Len(th) /\ ~(j <= i)
      BY <1>1
    <3>2. QED
      BY <3>1 DEF Behind
  <2>2. QED
    BY <2>1
<1>5. Behind(SubSeq(fl, 1, n), SubSeq(th, 1, n))
  <2>1. ASSUME NEW i \in 1..n, NEW j \in 1..n,
               SubSeq(fl, 1, n)[i] = SubSeq(th, 1, n)[j]
        PROVE  j <= i
    <3>1. fl[i] = th[j]
      BY <2>1, <1>2
    <3>2. i \in 1..Len(fl) /\ j \in 1..Len(th)
      BY <1>1
    <3>3. QED
      BY <3>1, <3>2 DEF Behind
  <2>2. QED
    BY <2>1, <1>2 DEF Behind
<1>6. /\ {th[i] : i \in 1..n} \subseteq {th[i] : i \in 1..Len(th)}
      /\ {fl[i] : i \in 1..n} \subseteq {fl[i] : i \in 1..Len(fl)}
      /\ {th[i] : i \in (n + 1)..Len(th)} \subseteq {th[i] : i \in 1..Len(th)}
      /\ {th[i] : i \in 1..Len(th)} \subseteq
           {th[i] : i \in 1..n} \cup {th[i] : i \in (n + 1)..Len(th)}
  <2>1. \A i \in 1..n : i \in 1..Len(th) /\ i \in 1..Len(fl)
    BY <1>1
  <2>2. \A i \in (n + 1)..Len(th) : i \in 1..Len(th)
    BY <1>1
  <2>3. \A i \in 1..Len(th) : i \in 1..n \/ i \in (n + 1)..Len(th)
    BY <1>1
  <2>4. QED
    BY <2>1, <2>2, <2>3
<1>7. QED
  BY <1>2, <1>3, <1>4, <1>5, <1>6

-----------------------------------------------------------------------------
(* What becomes of the lists in a step.                                    *)

(* No thread is born and none comes back to life.                          *)
SameThreads == \A t \in Threads : /\ pc'[t] = "unborn" <=> pc[t] = "unborn"
                                  /\ Alive(t)' => Alive(t)

LEMMA ListsKept ==
  ASSUME Lists, UNCHANGED <<threads, flags, detached>>, SameThreads,
         JoiningStop => JoiningStop'
  PROVE  Lists'
<1>1. Born' /\ NoneDropped'
  BY DEF Lists, Born, NoneDropped, SameThreads
<1>2. SurplusDismissed' /\ Behind(flags, threads)'
  BY DEF Lists, SurplusDismissed, Behind
<1>3. FlagsMatch' /\ (Len(threads) <= Len(flags) \/ JoiningStop)'
  BY DEF Lists, FlagsMatch, JoiningStop
<1>4. QED
  BY <1>1, <1>2, <1>3 DEF Lists

(* run_more_() with the mutex, while no stop() joins.                      *)
LEMMA RunMoreLists ==
  ASSUME TypeOK, Lists, ~JoiningStop, NEW n \in Nat, RunMore(n), UNCHANGED detached
  PROVE  /\ Lists'
         /\ threads' \in Seq(Threads) /\ flags' \in Seq(Threads)
         /\ work' \in BOOLEAN /\ pc' \in [Threads -> Places]
         /\ work' => work \/ threads' # <<>>
         /\ threads # <<>> => threads' # <<>>
<1>1. PICK new \in [1..n -> Unborn] :
             /\ IsInjective(new)
             /\ threads' = threads \o new
             /\ flags' = flags \o new
             /\ work' = (work \/ n > 0)
             /\ pc' = [t \in Threads |-> IF t \in Range(new) THEN "out" ELSE pc[t]]
  BY DEF RunMore
<1>2. /\ threads \in Seq(Threads) /\ flags \in Seq(Threads)
      /\ pc \in [Threads -> Places] /\ work \in BOOLEAN
  BY DEF TypeOK
<1>3. Unborn \in SUBSET Threads
  BY DEF Unborn
<1>4. \A t \in Unborn : t \notin Range(threads) /\ t \notin Range(flags)
  BY DEF Unborn, Lists, Born
<1>5. new \in Seq(Threads) /\ Len(new) = n /\ Range(new) \subseteq Unborn
  <2>1. new \in [1..n -> Unborn]
    BY <1>1
  <2>2. new \in Seq(Threads) /\ Len(new) = n
    BY <2>1, <1>3
  <2>3. QED
    BY <2>1, <2>2 DEF Range
<1>6. Range(new) \cap Range(flags) = {}
  BY <1>4, <1>5
<1>7. /\ threads \o new \in Seq(Threads) /\ flags \o new \in Seq(Threads)
      /\ Len(threads \o new) = Len(threads) + Len(new)
      /\ Len(flags \o new) = Len(flags) + Len(new)
      /\ Range(threads \o new) = Range(threads) \cup Range(new)
      /\ Range(flags \o new) = Range(flags) \cup Range(new)
      /\ Behind(flags, threads) /\ Len(threads) <= Len(flags)
           => Behind(flags \o new, threads \o new)
      /\ flags # <<>> => Head(flags \o new) = Head(flags)
  <2>1. IsInjective(new)
    BY <1>1
  <2>2. QED
    BY <2>1, <1>2, <1>5, <1>6, AppendedLists
<1>8. /\ Len(new) = n
      /\ threads' \in Seq(Threads) /\ flags' \in Seq(Threads)
      /\ Len(threads') = Len(threads) + n /\ Len(flags') = Len(flags) + n
      /\ Range(threads') = Range(threads) \cup Range(new)
      /\ Range(flags') = Range(flags) \cup Range(new)
      /\ Range(new) \subseteq Unborn
      /\ Behind(flags, threads) /\ Len(threads) <= Len(flags)
           => Behind(flags', threads')
      /\ flags # <<>> => Head(flags') = Head(flags)
  BY <1>1, <1>5, <1>7
<1>9. Len(threads) \in Nat /\ Len(flags) \in Nat
  BY <1>2, LenProperties
<1>10. Len(threads) <= Len(flags) /\ Behind(flags, threads)
  BY DEF Lists
<1>11. Behind(flags', threads') /\ Len(threads') <= Len(flags')
  BY <1>8, <1>9, <1>10
<1>12. \A t \in Threads : pc'[t] = IF t \in Range(new) THEN "out" ELSE pc[t]
  BY <1>1
<1>13. pc' \in [Threads -> Places]
  BY <1>1, <1>2 DEF Places
<1>14. Born'
  BY <1>12, <1>8 DEF Lists, Born
<1>15. NoneDropped'
  BY <1>12, <1>8 DEF Lists, NoneDropped, Alive
<1>16. SurplusDismissed'
  BY <1>8, <1>3 DEF Lists, SurplusDismissed, Born, Unborn
<1>17. FlagsMatch'
  <2>1. CASE flags = threads
    BY <1>1, <2>1 DEF FlagsMatch
  <2>2. CASE flags # <<>> /\ Head(flags) \notin Range(threads)
    <3>1. flags' # <<>> /\ Head(flags') = Head(flags)
      BY <2>2, <1>2, <1>8, <1>9, EmptySeq
    <3>2. Head(flags) \in Range(flags)
      BY <2>2, <1>2, <1>9, EmptySeq, RangeEquality
    <3>3. Head(flags) \notin Range(threads')
      BY <3>2, <2>2, <1>8, <1>4
    <3>4. QED
      BY <3>1, <3>3 DEF FlagsMatch
  <2>3. QED
    BY <2>1, <2>2 DEF Lists, FlagsMatch, JoiningStop
<1>18. Lists'
  BY <1>11, <1>14, <1>15, <1>16, <1>17 DEF Lists
<1>19. n > 0 \/ threads # <<>> => threads' # <<>>
  BY <1>2, <1>8, <1>9, EmptySeq
<1>20. QED
  BY <1>1, <1>8, <1>13, <1>18, <1>19, <1>2

(* stop() clears the flags and joins.                                      *)
LEMMA StopLists ==
  ASSUME TypeOK, Lists, flags' = <<>>, UNCHANGED <<threads, detached>>, SameThreads,
         JoiningStop'
  PROVE  Lists'
<1>1. flags' \in Seq(Threads) /\ Len(flags') = 0 /\ Range(flags') = {}
  BY EmptyList
<1>2. Born' /\ NoneDropped'
  BY <1>1 DEF Lists, Born, NoneDropped, SameThreads
<1>3. SurplusDismissed' /\ Behind(flags, threads)'
  BY <1>1 DEF Lists, SurplusDismissed, Behind
<1>4. FlagsMatch'
  BY DEF JoiningStop, FlagsMatch
<1>5. QED
  BY <1>2, <1>3, <1>4 DEF Lists

(* The threads have been joined.                                           *)
LEMMA JoinedLists ==
  ASSUME TypeOK, Lists, \A t \in Range(threads) : pc[t] = "ended", threads' = <<>>,
         UNCHANGED <<flags, detached, pc>>
  PROVE  Lists'
<1>1. threads' \in Seq(Threads) /\ Len(threads') = 0 /\ Range(threads') = {}
  BY EmptyList
<1>2. Len(flags) \in Nat
  BY LenProperties DEF TypeOK
<1>3. Born'
  BY <1>1 DEF Lists, Born
<1>4. NoneDropped'
  BY DEF Lists, NoneDropped, Alive
<1>5. SurplusDismissed' /\ Behind(flags, threads)'
  BY <1>1 DEF Lists, SurplusDismissed, Behind
<1>6. (Len(threads) <= Len(flags))'
  BY <1>1, <1>2
<1>7. FlagsMatch'
  BY <1>1 DEF FlagsMatch
<1>8. QED
  BY <1>3, <1>4, <1>5, <1>6, <1>7 DEF Lists

(* The surplus is detached and both lists are cut.                         *)
LEMMA ShrunkLists ==
  ASSUME TypeOK, Lists, ~JoiningStop, NEW n \in Nat, n < Len(threads), UNCHANGED pc,
         detached' = detached \cup {threads[i] : i \in (n + 1)..Len(threads)},
         threads' = SubSeq(threads, 1, n), flags' = SubSeq(flags, 1, n)
  PROVE  /\ Lists'
         /\ threads' \in Seq(Threads) /\ flags' \in Seq(Threads)
         /\ detached' \subseteq Threads
         /\ n # 0 => threads' # <<>>
<1>1. /\ threads \in Seq(Threads) /\ flags \in Seq(Threads)
      /\ detached \subseteq Threads
  BY DEF TypeOK
<1> DEFINE Surplus == {threads[i] : i \in (n + 1)..Len(threads)}
<1>2. /\ threads' \in Seq(Threads) /\ flags' \in Seq(Threads)
      /\ Len(threads') = n /\ Len(flags') = n
      /\ \A i \in 1..n : threads'[i] = threads[i] /\ flags'[i] = flags[i]
      /\ Range(threads') \subseteq Range(threads)
      /\ Range(flags') \subseteq Range(flags)
      /\ Range(threads) \subseteq Range(threads') \cup Surplus
      /\ Surplus \subseteq Range(threads)
      /\ Surplus \cap Range(flags') = {}
      /\ Behind(flags', threads')
  <2>1. Len(threads) <= Len(flags) /\ Behind(flags, threads)
    BY DEF Lists
  <2>2. QED
    BY <2>1, <1>1, ResizedLists
<1>3. Range(threads) \subseteq Threads
  BY <1>1, RangeOfSeq
<1>4. detached' = detached \cup Surplus
  OBVIOUS
<1> HIDE DEF Surplus
<1>5. Born'
  BY <1>2, <1>4 DEF Lists, Born
<1>6. NoneDropped'
  BY <1>2, <1>4 DEF Lists, NoneDropped, Alive
<1>7. SurplusDismissed'
  BY <1>2, <1>4 DEF Lists, SurplusDismissed
<1>8. n # 0 => threads' # <<>> /\ flags' # <<>>
  BY <1>2, EmptySeq
<1>9. FlagsMatch'
  <2>1. CASE flags = threads
    BY <2>1 DEF FlagsMatch
  <2>2. CASE n = 0
    BY <2>2, <1>2, EmptySeq DEF FlagsMatch
  <2>3. CASE n # 0 /\ flags # <<>> /\ Head(flags) \notin Range(threads)
    <3>1. Head(flags') = Head(flags)
      BY <2>3, <1>1, <1>2, <1>8
    <3>2. QED
      BY <3>1, <2>3, <1>2, <1>8 DEF FlagsMatch
  <2>4. QED
    BY <2>1, <2>2, <2>3 DEF Lists, FlagsMatch, JoiningStop
<1>10. Len(threads') <= Len(flags')
  BY <1>2
<1>11. Lists'
  BY <1>2, <1>5, <1>6, <1>7, <1>9, <1>10 DEF Lists
<1>12. detached' \subseteq Threads
  BY <1>1, <1>2, <1>3, <1>4
<1>13. QED
  BY <1>2, <1>8, <1>11, <1>12

-----------------------------------------------------------------------------
(* What becomes of the calls in a step.                                    *)

(* The caller goes on, and has the mutex before or after.                  *)
LEMMA LockedCalls ==
  ASSUME TypeOK, Calling, NEW c \in Clients, NEW l \in Steps,
         mutex = c \/ mutex = NoClient, at' = [at EXCEPT ![c] = l],
         l \in Held => mutex' = c,
         l = "grow" => started',
         l \in Joins => ~work',
         l = "join stop" => flags' = <<>>
  PROVE  Calling' /\ (JoiningStop' => l = "join stop")
<1>1. at \in [Clients -> Steps]
  BY DEF TypeOK
<1>2. \A d \in Clients : at'[d] = IF d = c THEN l ELSE at[d]
  BY <1>1
<1>3. \A d \in Clients \ {c} : at[d] \notin Held
  BY ClientsAssumption DEF Calling
<1>4. {"join stop", "join wait", "grow"} \subseteq Held /\ Joins \subseteq Held
  BY DEF Held, Joins
<1>5. JoiningStop' => l = "join stop"
  BY <1>2, <1>3, <1>4 DEF JoiningStop
<1>6. ASSUME NEW d \in Clients
      PROVE  /\ at'[d] \in Held => mutex' = d
             /\ at'[d] = "grow" => started'
             /\ at'[d] \in Joins => ~work'
             /\ at'[d] = "join stop" => flags' = <<>>
  <2>1. CASE d = c
    BY <2>1, <1>2
  <2>2. CASE d # c
    BY <2>2, <1>2, <1>3, <1>4
  <2>3. QED
    BY <2>1, <2>2
<1>7. QED
  BY <1>5, <1>6 DEF Calling

(* The caller goes on without the mutex.                                   *)
LEMMA FreeCalls ==
  ASSUME TypeOK, Calling, NEW c \in Clients, NEW l \in Steps,
         at' = [at EXCEPT ![c] = l], at[c] # "join stop",
         l \notin Held, UNCHANGED <<mutex, started, work, flags>>
  PROVE  Calling' /\ (JoiningStop => JoiningStop')
<1>1. at \in [Clients -> Steps]
  BY DEF TypeOK
<1>2. \A d \in Clients : at'[d] = IF d = c THEN l ELSE at[d]
  BY <1>1
<1>3. {"join stop", "join wait", "grow"} \subseteq Held /\ Joins \subseteq Held
  BY DEF Held, Joins
<1>4. QED
  BY <1>2, <1>3 DEF Calling, JoiningStop

(* With the mutex free nobody is in the middle of a call that holds it.    *)
LEMMA UnlockedCalls ==
  ASSUME Calling, Unlocked
  PROVE  ~JoiningStop /\ (UNCHANGED at => Calling')
<1>1. \A c \in Clients : at[c] \notin Held
  BY ClientsAssumption DEF Calling, Unlocked
<1>2. {"join stop", "join wait", "grow"} \subseteq Held /\ Joins \subseteq Held
  BY DEF Held, Joins
<1>3. QED
  BY <1>1, <1>2 DEF Calling, JoiningStop

LEMMA HolderCalls ==
  ASSUME Calling, NEW c \in Clients, mutex = c, at[c] # "join stop"
  PROVE  ~JoiningStop
BY DEF Calling, JoiningStop, Held, Joins

-----------------------------------------------------------------------------
(* The steps, from the types on.                                           *)

LEMMA GotoType ==
  ASSUME TypeOK, NEW t \in Threads, NEW l \in Places \ {"unborn"}, Goto(t, l),
         Alive(t)
  PROVE  pc' \in [Threads -> Places] /\ SameThreads
<1>1. pc \in [Threads -> Places]
  BY DEF TypeOK
<1>2. \A u \in Threads : pc'[u] = IF u = t THEN l ELSE pc[u]
  BY <1>1 DEF Goto
<1>3. QED
  BY <1>1, <1>2 DEF Goto, SameThreads, Alive

LEMMA ThreadStep ==
  ASSUME TypeOK, NEW t \in Threads, Serve(t) \/ Throw(t)
  PROVE  /\ pc' \in [Threads -> Places] /\ SameThreads
         /\ pending' \in Nat /\ stopped' \in BOOLEAN
         /\ ThreadKeeps
<1>1. pending \in Nat /\ stopped \in BOOLEAN
  BY DEF TypeOK
<1>2. \A l \in {"in", "ret", "out", "ended", "busy"} : l \in Places \ {"unborn"}
  BY DEF Places
<1>3. CASE Enter(t)
  <2>1. PICK l \in {"ret", "in"} : Goto(t, l)
    BY <1>3 DEF Enter
  <2>2. stopped' \in BOOLEAN /\ UNCHANGED pending /\ ThreadKeeps /\ Alive(t)
    BY <1>3, <1>1 DEF Enter, Alive
  <2>3. QED
    BY <2>1, <2>2, <1>1, <1>2, GotoType
<1>4. CASE Take(t)
  <2>1. Goto(t, "busy") /\ ThreadKeeps /\ UNCHANGED stopped /\ Alive(t)
    BY <1>4 DEF Take, Alive
  <2>2. pending' \in Nat
    BY <1>4, <1>1 DEF Take
  <2>3. QED
    BY <2>1, <2>2, <1>1, <1>2, GotoType
<1>5. CASE Leave(t)
  <2>1. Goto(t, "ret") /\ ThreadKeeps /\ UNCHANGED <<pending, stopped>> /\ Alive(t)
    BY <1>5 DEF Leave, Alive, queueVars
  <2>2. QED
    BY <2>1, <1>1, <1>2, GotoType
<1>6. ASSUME NEW l \in {"in", "ret", "ended"}, HandlerEnds(t, l)
      PROVE  /\ pc' \in [Threads -> Places] /\ SameThreads
             /\ pending' \in Nat /\ stopped' \in BOOLEAN
             /\ ThreadKeeps
  <2>1. Goto(t, l) /\ ThreadKeeps /\ UNCHANGED pending /\ Alive(t)
    BY <1>6 DEF HandlerEnds, Alive
  <2>2. stopped' \in BOOLEAN
    BY <1>6, <1>1 DEF HandlerEnds
  <2>3. QED
    BY <2>1, <2>2, <1>1, <1>2, GotoType
<1>7. CASE Return(t)
  <2>1. PICK l \in {"ended", "out"} : Goto(t, l)
    BY <1>7 DEF Return
  <2>2. UNCHANGED <<pending, stopped>> /\ ThreadKeeps /\ Alive(t)
    BY <1>7 DEF Return, Alive, queueVars
  <2>3. QED
    BY <2>1, <2>2, <1>1, <1>2, GotoType
<1>8. QED
  BY <1>3, <1>4, <1>5, <1>6, <1>7 DEF Serve, Finish, Throw

(* Neither the pool nor the calls are touched.                             *)
LEMMA QuietInv ==
  ASSUME IInv, TypeOK', SameThreads, UNCHANGED <<poolVars, mutex, at>>
  PROVE  IInv'
<1>1. UNCHANGED <<threads, flags, detached, started, work, mutex, at>>
  BY DEF poolVars
<1>2. Calling' /\ PoolShape'
  BY <1>1 DEF IInv, Calling, PoolShape
<1>3. JoiningStop => JoiningStop'
  BY <1>1 DEF JoiningStop
<1>4. Lists'
  BY <1>1, <1>3, ListsKept DEF IInv
<1>5. QED
  BY <1>2, <1>4 DEF IInv

(* A call that leaves the lists alone.                                     *)
LEMMA ListsUntouched ==
  ASSUME Lists, UNCHANGED <<threads, flags, detached, pc>>, JoiningStop => JoiningStop'
  PROVE  Lists'
<1>1. SameThreads
  BY DEF SameThreads, Alive
<1>2. QED
  BY <1>1, ListsKept

LEMMA AtType ==
  ASSUME TypeOK, NEW c \in Clients, NEW from \in Steps, NEW l \in Steps,
         Step(c, from, l)
  PROVE  at' \in [Clients -> Steps] /\ at' = [at EXCEPT ![c] = l] /\ at[c] = from
BY DEF TypeOK, Step

LEMMA QueueResetType ==
  ASSUME TypeOK, QueueReset
  PROVE  stopped' \in BOOLEAN /\ pending' \in Nat
<1>1. pending \in Nat
  BY DEF TypeOK
<1>2. QED
  BY <1>1 DEF QueueReset

LEMMA DropWorkType ==
  ASSUME TypeOK, DropWork
  PROVE  stopped' \in BOOLEAN /\ work' = FALSE
<1>1. stopped \in BOOLEAN
  BY DEF TypeOK
<1>2. QED
  BY <1>1 DEF DropWork

LEMMA SmallNumbers == 0 \in Nat /\ \A n \in Sizes : n \in Nat
BY SizesAssumption

-----------------------------------------------------------------------------
(* The invariant, call by call.                                            *)

LEMMA StartInv ==
  ASSUME IInv, NEW c \in Clients, NEW n \in Sizes, Start(c, n)
  PROVE  IInv'
<1>1. /\ Unlocked /\ UNCHANGED <<mutex, at, todo, calls, detached, pending, stopped>>
      /\ started' = TRUE
  BY DEF Start, AtOnce, callVars, queueVars
<1>2. threads = <<>> /\ RunMore(n)
  BY DEF Start, IInv, PoolShape
<1>3. Calling' /\ ~JoiningStop
  BY <1>1, UnlockedCalls DEF IInv
<1>4. n \in Nat
  BY SmallNumbers
<1>5. /\ Lists'
      /\ threads' \in Seq(Threads) /\ flags' \in Seq(Threads)
      /\ work' \in BOOLEAN /\ pc' \in [Threads -> Places]
      /\ work' => work \/ threads' # <<>>
  BY <1>1, <1>2, <1>3, <1>4, RunMoreLists DEF IInv
<1>6. PoolShape'
  BY <1>1, <1>2, <1>5 DEF IInv, PoolShape
<1>7. TypeOK'
  BY <1>1, <1>5 DEF IInv, TypeOK
<1>8. QED
  BY <1>3, <1>5, <1>6, <1>7 DEF IInv

LEMMA QueueStopInv ==
  ASSUME IInv, NEW c \in Clients, QueueStop(c)
  PROVE  IInv'
<1>1. UNCHANGED <<threads, flags, detached, started, work, mutex, todo, pc, pending, calls>>
      /\ stopped' = TRUE /\ Step(c, "idle", "stop")
  BY DEF QueueStop, poolVars
<1>2. "idle" \in Steps /\ "stop" \in Steps /\ "stop" \notin Held
  BY DEF Steps, Held, Joins
<1>3. at' \in [Clients -> Steps] /\ at' = [at EXCEPT ![c] = "stop"] /\ at[c] = "idle"
  BY <1>1, <1>2, AtType DEF IInv
<1>4. Calling' /\ (JoiningStop => JoiningStop')
  BY <1>1, <1>2, <1>3, FreeCalls DEF IInv
<1>5. TypeOK'
  BY <1>1, <1>3 DEF IInv, TypeOK
<1>6. Lists'
  BY <1>1, <1>4, ListsUntouched DEF IInv
<1>7. QED
  BY <1>1, <1>4, <1>5, <1>6 DEF IInv, PoolShape

LEMMA StopInv ==
  ASSUME IInv, NEW c \in Clients, Stop(c)
  PROVE  IInv'
<1>1. /\ UNCHANGED <<threads, detached, started, todo, pc, pending, calls>>
      /\ flags' = <<>> /\ DropWork
      /\ Step(c, "stop", "join stop") /\ Unlocked /\ mutex' = c
  BY DEF Stop, Lock
<1>2. "stop" \in Steps /\ "join stop" \in Steps
  BY DEF Steps
<1>3. /\ at' \in [Clients -> Steps] /\ at' = [at EXCEPT ![c] = "join stop"]
      /\ at[c] = "stop"
  BY <1>1, <1>2, AtType DEF IInv
<1>4. stopped' \in BOOLEAN /\ work' = FALSE
  BY <1>1, DropWorkType DEF IInv
<1>5. Calling'
  BY <1>1, <1>2, <1>3, <1>4, LockedCalls DEF IInv, Unlocked
<1>6. JoiningStop'
  BY <1>3 DEF JoiningStop, IInv, TypeOK
<1>7. SameThreads
  BY <1>1 DEF SameThreads, Alive
<1>8. Lists'
  BY <1>1, <1>6, <1>7, StopLists DEF IInv
<1>9. TypeOK'
  BY <1>1, <1>3, <1>4, EmptyList DEF IInv, TypeOK
<1>10. QED
  BY <1>1, <1>4, <1>5, <1>8, <1>9 DEF IInv, PoolShape

LEMMA ShutdownInv ==
  ASSUME IInv, NEW c \in Clients, Shutdown(c)
  PROVE  IInv'
<1>1. /\ UNCHANGED <<threads, flags, detached, started, pc, pending, mutex, at, todo, calls>>
      /\ DropWork /\ Unlocked
  BY DEF Shutdown, AtOnce, callVars
<1>2. stopped' \in BOOLEAN /\ work' = FALSE
  BY <1>1, DropWorkType DEF IInv
<1>3. Calling' /\ ~JoiningStop
  BY <1>1, UnlockedCalls DEF IInv
<1>4. Lists'
  BY <1>1, <1>3, ListsUntouched DEF IInv
<1>5. TypeOK'
  BY <1>1, <1>2 DEF IInv, TypeOK
<1>6. QED
  BY <1>1, <1>2, <1>3, <1>4, <1>5 DEF IInv, PoolShape

LEMMA WaitInv ==
  ASSUME IInv, NEW c \in Clients, Wait(c)
  PROVE  IInv'
<1>1. UNCHANGED <<threads, flags, detached, started, work, todo, pc, pending, stopped, calls>>
  BY DEF Wait, Lock, poolVars, queueVars
<1>2. {"idle", "reset", "join wait"} \subseteq Steps /\ "reset" \notin Held
  BY DEF Steps, Held, Joins
<1>3. CASE work
  <2>1. Step(c, "idle", "reset") /\ UNCHANGED mutex
    BY <1>3 DEF Wait
  <2>2. at' \in [Clients -> Steps] /\ at' = [at EXCEPT ![c] = "reset"] /\ at[c] = "idle"
    BY <2>1, <1>2, AtType DEF IInv
  <2>3. Calling' /\ (JoiningStop => JoiningStop')
    BY <2>1, <2>2, <1>1, <1>2, FreeCalls DEF IInv
  <2>4. TypeOK'
    BY <2>1, <2>2, <1>1 DEF IInv, TypeOK
  <2>5. Lists'
    BY <2>3, <1>1, ListsUntouched DEF IInv
  <2>6. QED
    BY <2>3, <2>4, <2>5, <1>1 DEF IInv, PoolShape
<1>4. CASE ~work
  <2>1. Step(c, "idle", "join wait") /\ Unlocked /\ mutex' = c
    BY <1>4 DEF Wait, Lock
  <2>2. /\ at' \in [Clients -> Steps] /\ at' = [at EXCEPT ![c] = "join wait"]
        /\ at[c] = "idle"
    BY <2>1, <1>2, AtType DEF IInv
  <2>3. Calling'
    BY <2>1, <2>2, <1>1, <1>2, <1>4, LockedCalls DEF IInv, Unlocked
  <2>4. ~JoiningStop
    BY <2>1, UnlockedCalls DEF IInv
  <2>5. TypeOK'
    BY <2>1, <2>2, <1>1 DEF IInv, TypeOK
  <2>6. Lists'
    BY <2>4, <1>1, ListsUntouched DEF IInv
  <2>7. QED
    BY <2>3, <2>5, <2>6, <1>1 DEF IInv, PoolShape
<1>5. QED
  BY <1>3, <1>4

LEMMA JoinInv ==
  ASSUME IInv, NEW c \in Clients, Join(c)
  PROVE  IInv'
<1>1. /\ UNCHANGED <<flags, detached, work, pc, pending, stopped, calls>>
      /\ threads' = <<>> /\ started' = FALSE /\ mutex' = NoClient /\ todo' = 0
      /\ \A t \in Range(threads) : pc[t] = "ended"
  BY DEF Join, Unlock, queueVars
<1>2. /\ {"join stop", "join wait", "idle", "reset"} \subseteq Steps
      /\ "idle" \notin Held /\ "reset" \notin Held
      /\ {"join stop", "join wait"} \subseteq Joins
      /\ {"join stop", "join wait"} \subseteq Held
  BY DEF Steps, Held, Joins
<1>3. PICK from \in {"join stop", "join wait"}, l \in {"idle", "reset"} : Step(c, from, l)
  BY DEF Join, Unlock
<1>4. at' \in [Clients -> Steps] /\ at' = [at EXCEPT ![c] = l] /\ at[c] = from
  BY <1>2, <1>3, AtType DEF IInv
<1>5. mutex = c /\ ~work
  BY <1>2, <1>3, <1>4 DEF IInv, Calling
<1>6. l \notin Held /\ l \notin Joins /\ l # "grow" /\ l # "join stop"
  BY <1>2, <1>3 DEF Joins
<1>7. Calling'
  BY <1>2, <1>3, <1>4, <1>5, <1>6, LockedCalls DEF IInv
<1>8. Lists'
  BY <1>1, JoinedLists DEF IInv
<1>9. TypeOK'
  BY <1>1, <1>4, EmptyList, SmallNumbers DEF IInv, TypeOK
<1>10. PoolShape'
  BY <1>1, <1>5 DEF PoolShape
<1>11. QED
  BY <1>7, <1>8, <1>9, <1>10 DEF IInv

LEMMA ResetAfterWaitInv ==
  ASSUME IInv, NEW c \in Clients, ResetAfterWait(c)
  PROVE  IInv'
<1>1. /\ UNCHANGED <<threads, flags, detached, started, work, mutex, todo, pc, calls>>
      /\ QueueReset /\ Step(c, "reset", "idle")
  BY DEF ResetAfterWait, poolVars
<1>2. "idle" \in Steps /\ "reset" \in Steps /\ "idle" \notin Held
  BY DEF Steps, Held, Joins
<1>3. at' \in [Clients -> Steps] /\ at' = [at EXCEPT ![c] = "idle"] /\ at[c] = "reset"
  BY <1>1, <1>2, AtType DEF IInv
<1>4. Calling' /\ (JoiningStop => JoiningStop')
  BY <1>1, <1>2, <1>3, FreeCalls DEF IInv
<1>5. stopped' \in BOOLEAN /\ pending' \in Nat
  BY <1>1, QueueResetType DEF IInv
<1>6. TypeOK'
  BY <1>1, <1>3, <1>5 DEF IInv, TypeOK
<1>7. Lists'
  BY <1>1, <1>4, ListsUntouched DEF IInv
<1>8. QED
  BY <1>1, <1>4, <1>6, <1>7 DEF IInv, PoolShape

LEMMA GrowInv ==
  ASSUME IInv, NEW c \in Clients, NEW n \in Sizes, Grow(c, n)
  PROVE  IInv'
<1>1. /\ UNCHANGED <<threads, flags, detached, started, work, pc, calls>>
      /\ started /\ Step(c, "idle", "grow") /\ Unlocked /\ mutex' = c
      /\ n > Len(threads) /\ todo' = n - Len(threads)
      /\ QueueReset \/ UNCHANGED <<pending, stopped>>
  BY DEF Grow, Reconfigurable, Lock, poolVars, queueVars
<1>2. /\ "idle" \in Steps /\ "grow" \in Steps
      /\ "grow" \notin Joins /\ "grow" # "join stop"
  BY DEF Steps, Joins
<1>3. at' \in [Clients -> Steps] /\ at' = [at EXCEPT ![c] = "grow"] /\ at[c] = "idle"
  BY <1>1, <1>2, AtType DEF IInv
<1>4. Calling'
  BY <1>1, <1>2, <1>3, LockedCalls DEF IInv, Unlocked
<1>5. ~JoiningStop
  BY <1>1, UnlockedCalls DEF IInv
<1>6. n \in Nat /\ Len(threads) \in Nat
  BY SmallNumbers, LenProperties DEF IInv, TypeOK
<1>7. todo' \in Nat
  BY <1>1, <1>6
<1>8. stopped' \in BOOLEAN /\ pending' \in Nat
  BY <1>1, QueueResetType DEF IInv, TypeOK
<1>9. TypeOK'
  BY <1>1, <1>3, <1>7, <1>8 DEF IInv, TypeOK
<1>10. Lists'
  BY <1>1, <1>5, ListsUntouched DEF IInv
<1>11. QED
  BY <1>1, <1>4, <1>9, <1>10 DEF IInv, PoolShape

LEMMA GrownInv ==
  ASSUME IInv, NEW c \in Clients, Grown(c)
  PROVE  IInv'
<1>1. /\ UNCHANGED <<detached, started, pending, stopped, calls>>
      /\ RunMore(todo) /\ Step(c, "grow", "idle") /\ mutex' = NoClient /\ todo' = 0
  BY DEF Grown, Unlock, queueVars
<1>2. /\ "idle" \in Steps /\ "grow" \in Steps /\ "grow" \in Held
      /\ "idle" \notin Held /\ "idle" \notin Joins
  BY DEF Steps, Held, Joins
<1>3. at' \in [Clients -> Steps] /\ at' = [at EXCEPT ![c] = "idle"] /\ at[c] = "grow"
  BY <1>1, <1>2, AtType DEF IInv
<1>4. mutex = c /\ started
  BY <1>2, <1>3 DEF IInv, Calling
<1>5. Calling'
  BY <1>2, <1>3, <1>4, LockedCalls DEF IInv
<1>6. ~JoiningStop
  BY <1>3, <1>4, HolderCalls DEF IInv
<1>7. todo \in Nat
  BY DEF IInv, TypeOK
<1>8. /\ Lists'
      /\ threads' \in Seq(Threads) /\ flags' \in Seq(Threads)
      /\ work' \in BOOLEAN /\ pc' \in [Threads -> Places]
      /\ work' => work \/ threads' # <<>>
      /\ threads # <<>> => threads' # <<>>
  BY <1>1, <1>6, <1>7, RunMoreLists DEF IInv
<1>9. PoolShape'
  BY <1>1, <1>4, <1>8 DEF IInv, PoolShape
<1>10. TypeOK'
  BY <1>1, <1>3, <1>8, SmallNumbers DEF IInv, TypeOK
<1>11. QED
  BY <1>5, <1>8, <1>9, <1>10 DEF IInv

LEMMA ShrinkInv ==
  ASSUME IInv, NEW c \in Clients, NEW n \in Sizes, Shrink(c, n)
  PROVE  IInv'
<1>1. /\ UNCHANGED <<started, pc, pending, calls>>
      /\ started /\ Step(c, "idle", "nudge") /\ Unlocked /\ mutex' = c
      /\ n < Len(threads) /\ todo' = 2 * Len(threads)
      /\ detached' = detached \cup {threads[i] : i \in (n + 1)..Len(threads)}
      /\ threads' = SubSeq(threads, 1, n) /\ flags' = SubSeq(flags, 1, n)
      /\ IF n = 0 THEN DropWork ELSE UNCHANGED <<work, stopped>>
  BY DEF Shrink, Reconfigurable, Lock
<1>2. /\ "idle" \in Steps /\ "nudge" \in Steps
      /\ "nudge" \notin Joins /\ "nudge" # "grow" /\ "nudge" # "join stop"
  BY DEF Steps, Joins
<1>3. at' \in [Clients -> Steps] /\ at' = [at EXCEPT ![c] = "nudge"] /\ at[c] = "idle"
  BY <1>1, <1>2, AtType DEF IInv
<1>4. Calling'
  BY <1>1, <1>2, <1>3, LockedCalls DEF IInv, Unlocked
<1>5. ~JoiningStop
  BY <1>1, UnlockedCalls DEF IInv
<1>6. n \in Nat /\ Len(threads) \in Nat
  BY SmallNumbers, LenProperties DEF IInv, TypeOK
<1>7. todo' \in Nat
  BY <1>1, <1>6
<1>8. /\ Lists'
      /\ threads' \in Seq(Threads) /\ flags' \in Seq(Threads)
      /\ detached' \subseteq Threads
      /\ n # 0 => threads' # <<>>
  BY <1>1, <1>5, <1>6, ShrunkLists DEF IInv
<1>9. /\ stopped' \in BOOLEAN /\ work' \in BOOLEAN
      /\ n = 0 => work' = FALSE
  BY <1>1, DropWorkType DEF IInv, TypeOK
<1>10. PoolShape'
  BY <1>1, <1>8, <1>9 DEF PoolShape
<1>11. TypeOK'
  BY <1>1, <1>3, <1>7, <1>8, <1>9 DEF IInv, TypeOK
<1>12. QED
  BY <1>4, <1>8, <1>10, <1>11 DEF IInv

LEMMA NudgeInv ==
  ASSUME IInv, NEW c \in Clients, Nudge(c)
  PROVE  IInv'
<1>1. /\ UNCHANGED <<threads, flags, detached, started, work, mutex, pc, stopped, calls>>
      /\ Step(c, "nudge", "nudge")
      /\ todo > 0 /\ todo' = todo - 1 /\ pending' = pending + 1
  BY DEF Nudge, poolVars
<1>2. at \in [Clients -> Steps] /\ at' = at
  BY <1>1 DEF IInv, TypeOK, Step
<1>3. todo \in Nat /\ pending \in Nat
  BY DEF IInv, TypeOK
<1>4. todo' \in Nat /\ pending' \in Nat
  BY <1>1, <1>3
<1>5. TypeOK'
  BY <1>1, <1>2, <1>4 DEF IInv, TypeOK
<1>6. SameThreads
  BY <1>1 DEF SameThreads, Alive
<1>7. QED
  BY <1>1, <1>2, <1>5, <1>6, QuietInv DEF poolVars

LEMMA NudgedInv ==
  ASSUME IInv, NEW c \in Clients, Nudged(c)
  PROVE  IInv'
<1>1. /\ UNCHANGED <<threads, flags, detached, started, work, pc, pending, stopped, calls>>
      /\ Step(c, "nudge", "idle") /\ mutex' = NoClient /\ todo' = 0
  BY DEF Nudged, Unlock, poolVars, queueVars
<1>2. /\ "idle" \in Steps /\ "nudge" \in Steps /\ "nudge" \in Held
      /\ "idle" \notin Held /\ "idle" \notin Joins
  BY DEF Steps, Held, Joins
<1>3. at' \in [Clients -> Steps] /\ at' = [at EXCEPT ![c] = "idle"] /\ at[c] = "nudge"
  BY <1>1, <1>2, AtType DEF IInv
<1>4. mutex = c
  BY <1>2, <1>3 DEF IInv, Calling
<1>5. Calling'
  BY <1>2, <1>3, <1>4, LockedCalls DEF IInv
<1>6. ~JoiningStop
  BY <1>3, <1>4, HolderCalls DEF IInv
<1>7. Lists'
  BY <1>1, <1>6, ListsUntouched DEF IInv
<1>8. TypeOK'
  BY <1>1, <1>3, SmallNumbers DEF IInv, TypeOK
<1>9. QED
  BY <1>1, <1>5, <1>7, <1>8 DEF IInv, PoolShape

(* What touches neither the pool nor the calls: posts, reset(), threads.   *)
LEMMA PostInv ==
  ASSUME IInv, Post
  PROVE  IInv'
<1>1. /\ UNCHANGED <<poolVars, callVars, pc, stopped>>
      /\ calls < MaxCalls /\ calls' = calls + 1 /\ pending' = pending + 1
  BY DEF Post
<1>2. calls \in 0..MaxCalls /\ pending \in Nat /\ MaxCalls \in Nat
  BY SizesAssumption DEF IInv, TypeOK
<1>3. calls' \in 0..MaxCalls /\ pending' \in Nat
  BY <1>1, <1>2
<1>4. TypeOK'
  BY <1>1, <1>3 DEF IInv, TypeOK, poolVars, callVars
<1>5. SameThreads
  BY <1>1 DEF SameThreads, Alive
<1>6. QED
  BY <1>1, <1>4, <1>5, QuietInv DEF callVars

LEMMA ResetInv ==
  ASSUME IInv, NEW c \in Clients, Reset(c)
  PROVE  IInv'
<1>1. /\ UNCHANGED <<poolVars, callVars, pc>> /\ QueueReset
      /\ calls < MaxCalls /\ calls' = calls + 1
  BY DEF Reset
<1>2. calls \in 0..MaxCalls /\ MaxCalls \in Nat
  BY SizesAssumption DEF IInv, TypeOK
<1>3. calls' \in 0..MaxCalls
  BY <1>1, <1>2
<1>4. stopped' \in BOOLEAN /\ pending' \in Nat
  BY <1>1, QueueResetType DEF IInv
<1>5. TypeOK'
  BY <1>1, <1>3, <1>4 DEF IInv, TypeOK, poolVars, callVars
<1>6. SameThreads
  BY <1>1 DEF SameThreads, Alive
<1>7. QED
  BY <1>1, <1>5, <1>6, QuietInv DEF callVars

LEMMA ThreadInv ==
  ASSUME IInv, NEW t \in Threads, Serve(t) \/ Throw(t)
  PROVE  IInv'
<1>1. /\ pc' \in [Threads -> Places] /\ SameThreads
      /\ pending' \in Nat /\ stopped' \in BOOLEAN
      /\ UNCHANGED <<poolVars, callVars, calls>>
  BY ThreadStep DEF IInv, ThreadKeeps
<1>2. TypeOK'
  BY <1>1 DEF IInv, TypeOK, poolVars, callVars
<1>3. QED
  BY <1>1, <1>2, QuietInv DEF callVars

-----------------------------------------------------------------------------
LEMMA InitInv ==
  ASSUME Init
  PROVE  IInv
<1>1. /\ threads = <<>> /\ flags = <<>> /\ detached = {}
      /\ started = FALSE /\ work = FALSE /\ stopped = FALSE
      /\ mutex = NoClient /\ todo = 0 /\ pending = 0 /\ calls = 0
      /\ \A c \in Clients : at[c] = "idle"
      /\ \A t \in Threads : pc[t] = "unborn"
  BY DEF Init
<1>2. /\ at \in [Clients -> Steps] /\ pc \in [Threads -> Places]
  BY DEF Init, Steps, Places
<1>3. calls \in 0..MaxCalls
  BY <1>1, SizesAssumption
<1>4. /\ threads \in Seq(Threads) /\ Len(threads) = 0 /\ Range(threads) = {}
      /\ flags \in Seq(Threads) /\ Len(flags) = 0 /\ Range(flags) = {}
  BY <1>1, EmptyList
<1>5. TypeOK
  BY <1>1, <1>2, <1>3, <1>4, SmallNumbers DEF TypeOK
<1>6. Calling /\ PoolShape
  BY <1>1 DEF Calling, PoolShape, Held, Joins
<1>7. Born /\ SurplusDismissed /\ NoneDropped
  BY <1>1, <1>4 DEF Born, SurplusDismissed, NoneDropped, Alive
<1>8. Behind(flags, threads) /\ Len(threads) <= Len(flags)
  BY <1>4 DEF Behind
<1>9. FlagsMatch
  BY <1>1 DEF FlagsMatch
<1>10. QED
  BY <1>5, <1>6, <1>7, <1>8, <1>9 DEF IInv, Lists

LEMMA StepInv ==
  ASSUME IInv, [Next]_vars
  PROVE  IInv'
<1>1. CASE Post
  BY <1>1, PostInv
<1>2. ASSUME NEW c \in Clients, Call(c)
      PROVE  IInv'
  BY <1>2, QueueStopInv, ShutdownInv, WaitInv, ResetInv, StartInv, GrowInv, ShrinkInv
     DEF Call
<1>3. ASSUME NEW c \in Clients, CallGoesOn(c)
      PROVE  IInv'
  BY <1>3, StopInv, JoinInv, ResetAfterWaitInv, GrownInv, NudgeInv, NudgedInv
     DEF CallGoesOn
<1>4. ASSUME NEW t \in Threads, Serve(t) \/ Throw(t)
      PROVE  IInv'
  BY <1>4, ThreadInv
<1>5. CASE UNCHANGED vars
  <2>1. UNCHANGED <<poolVars, callVars, pc, pending, stopped, calls>>
    BY <1>5 DEF vars, poolVars, callVars
  <2>2. TypeOK'
    BY <2>1 DEF IInv, TypeOK, poolVars, callVars
  <2>3. SameThreads
    BY <2>1 DEF SameThreads, Alive
  <2>4. QED
    BY <2>1, <2>2, <2>3, QuietInv DEF callVars
<1>6. QED
  BY <1>1, <1>2, <1>3, <1>4, <1>5 DEF Next

LEMMA Invariant == Spec => []IInv
<1>1. Init => IInv
  BY InitInv
<1>2. IInv /\ [Next]_vars => IInv'
  BY StepInv
<1>3. QED
  BY <1>1, <1>2, PTL DEF Spec

-----------------------------------------------------------------------------
(* The results.                                                            *)

(* Every variable keeps its type; in particular the count of nudges in     *)
(* reconfigure_() never goes below zero.                                   *)
THEOREM TypeCorrect == Spec => []TypeOK
<1>1. IInv => TypeOK
  BY DEF IInv
<1>2. QED
  BY <1>1, Invariant, PTL

(* The guard is held only while there are threads, and a pool that is not  *)
(* started has none.                                                       *)
THEOREM ShapeKept == Spec => []PoolShape
<1>1. IInv => PoolShape
  BY DEF IInv
<1>2. QED
  BY <1>1, Invariant, PTL

(* A thread that runs is in _threads or was detached.                      *)
THEOREM ThreadsAccountedFor == Spec => []NoneDropped
<1>1. IInv => NoneDropped
  BY DEF IInv, Lists
<1>2. QED
  BY <1>1, Invariant, PTL

(* However a wait() has left old flags in front of the new ones, resize()  *)
(* of both lists leaves no detached thread its flag.                       *)
THEOREM SurplusLosesFlags == Spec => []SurplusDismissed
<1>1. IInv => SurplusDismissed
  BY DEF IInv, Lists
<1>2. QED
  BY <1>1, Invariant, PTL

(* Flags and threads are the same list unless a wait() has left a flag of  *)
(* a joined thread at the head.                                            *)
THEOREM FlagsAreThreads == Spec => []FlagsMatch
<1>1. IInv => FlagsMatch
  BY DEF IInv, Lists
<1>2. QED
  BY <1>1, Invariant, PTL
===============================================================================
