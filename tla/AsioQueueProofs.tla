---------------------------- MODULE AsioQueueProofs ----------------------------
(* Proofs about AsioQueue, for any tasks, workers, callers, limits and     *)
(* clock.                                                                  *)
EXTENDS AsioQueue, SequenceTheorems, FiniteSetTheorems, TLAPS

-----------------------------------------------------------------------------
(* What a sequence holds after a put at its end or a take from its front.  *)

(* Append adds one element, and repeats none if that one is new.           *)
LEMMA AppendRange ==
  ASSUME NEW S, NEW q \in Seq(S), NEW x \in S
  PROVE  /\ Append(q, x) \in Seq(S)
         /\ Range(Append(q, x)) = Range(q) \cup {x}
         /\ IsInjective(q) /\ x \notin Range(q) => IsInjective(Append(q, x))
<1>1. PICK a : a = Append(q, x)
  OBVIOUS
<1>2. /\ a \in Seq(S) /\ Len(q) \in Nat /\ DOMAIN q = 1..Len(q) /\ DOMAIN a = 1..(Len(q) + 1)
      /\ \A i \in 1..Len(q) : a[i] = q[i]
      /\ a[Len(q) + 1] = x
  BY <1>1, AppendProperties, LenProperties
<1>3. DOMAIN a = DOMAIN q \cup {Len(q) + 1} /\ Len(q) + 1 \notin DOMAIN q
  BY <1>2
<1>4. QED
  BY <1>1, <1>2, <1>3 DEF Range, IsInjective

(* The tail leaves out the head, and nothing else if none is repeated.     *)
LEMMA TailRange ==
  ASSUME NEW S, NEW q \in Seq(S), q # <<>>
  PROVE  /\ Head(q) \in S /\ Tail(q) \in Seq(S)
         /\ Range(q) = Range(Tail(q)) \cup {Head(q)}
         /\ IsInjective(q) => IsInjective(Tail(q)) /\ Head(q) \notin Range(Tail(q))
<1>1. PICK r : r = Tail(q)
  OBVIOUS
<1>2. /\ Head(q) \in S /\ Head(q) = q[1] /\ r \in Seq(S)
      /\ Len(q) \in Nat \ {0} /\ DOMAIN q = 1..Len(q) /\ DOMAIN r = 1..(Len(q) - 1)
      /\ \A i \in DOMAIN r : r[i] = q[i + 1]
  BY <1>1, HeadTailProperties, LenProperties, EmptySeq
<1>3. /\ \A i \in DOMAIN r : i + 1 \in DOMAIN q /\ i + 1 # 1
      /\ \A i, j \in DOMAIN r : i + 1 = j + 1 => i = j
      /\ \A i \in DOMAIN q : i = 1 \/ \E j \in DOMAIN r : i = j + 1
  <2>1. \A i \in DOMAIN q \ {1} : i - 1 \in DOMAIN r /\ i = (i - 1) + 1
    BY <1>2
  <2>2. QED
    BY <1>2, <2>1
<1>4. Range(q) = Range(r) \cup {q[1]}
  BY <1>2, <1>3 DEF Range
<1>5. IsInjective(q) => IsInjective(r) /\ q[1] \notin Range(r)
  BY <1>2, <1>3 DEF Range, IsInjective
<1>6. QED
  BY <1>1, <1>2, <1>4, <1>5

-----------------------------------------------------------------------------
(* Types.                                                                  *)

(* The steps of a post.                                                    *)
LEMMA OfferType ==
  ASSUME TypeOK, NEW t \in Tasks, NEW k \in Kinds, NEW STATE tp, tp \in Nat,
         tp <= now \/ tp \in Time, NEW next \in Fates, Offer(t, k, tp, next)
  PROVE  /\ due' \in [Tasks -> Time] /\ kind' \in [Tasks -> Kinds \cup {"none"}]
         /\ fate' \in [Tasks -> Fates]
         /\ UNCHANGED <<ready, timers, stopped, guard, cur, pc, now, alive, counter,
                        maxsize, dropCount>>
<1>1. 0 \in Time
  BY BoundsAssumption DEF Time
<1>2. (IF tp <= now THEN 0 ELSE tp) \in Time
  BY <1>1
<1>3. due \in [Tasks -> Time] /\ kind \in [Tasks -> Kinds \cup {"none"}]
      /\ fate \in [Tasks -> Fates]
  BY DEF TypeOK
<1>4. QED
  BY <1>2, <1>3 DEF Offer, ioVars, workVars

LEMMA SafePostType ==
  ASSUME TypeOK, NEW t \in Tasks, NEW STATE tp, tp \in Nat, tp <= now \/ tp \in Time,
         SafePostAt(t, tp)
  PROVE  TypeOK'
<1>1. /\ due' \in [Tasks -> Time] /\ kind' \in [Tasks -> Kinds \cup {"none"}]
      /\ fate' \in [Tasks -> Fates]
      /\ UNCHANGED <<ready, timers, stopped, guard, cur, pc, now, alive, counter,
                     maxsize, dropCount>>
  BY OfferType DEF SafePostAt, Kinds, Fates
<1>2. safeCounter' = safeCounter + 1
  BY DEF SafePostAt
<1>3. safeCounter \in Int
  BY DEF TypeOK
<1>4. safeCounter' \in Int
  BY <1>2, <1>3
<1>5. QED
  BY <1>1, <1>4 DEF TypeOK

LEMMA PostType ==
  ASSUME TypeOK, NEW t \in Tasks, NEW STATE tp, tp \in Nat, tp <= now \/ tp \in Time,
         PostAt(t, tp)
  PROVE  TypeOK'
<1>1. /\ due' \in [Tasks -> Time] /\ kind' \in [Tasks -> Kinds \cup {"none"}]
      /\ fate' \in [Tasks -> Fates]
      /\ UNCHANGED <<ready, timers, stopped, guard, cur, pc, now, alive, counter,
                     maxsize, dropCount>>
  BY OfferType DEF PostAt, Kinds, Fates
<1>2. UNCHANGED safeCounter
  BY DEF PostAt
<1>3. QED
  BY <1>1, <1>2 DEF TypeOK

(* Whatever a client calls, it is a safe post, an unsafe one or refused.   *)
LEMMA ClientCases ==
  ASSUME TypeOK, Client
  PROVE  \E t \in Tasks :
           \/ \E tp \in Time : SafePostAt(t, tp) \/ PostAt(t, tp)
           \/ Refuse(t)
<1>1. PICK t \in Tasks :
        \/ SafePost(t) \/ Post(t) \/ Refuse(t)
        \/ \E tp \in Time : SafePostAt(t, tp) \/ PostAt(t, tp)
        \/ \E d \in 0..(MaxTime - now) : SafeDelayedPost(t, d) \/ DelayedPost(t, d)
  BY Zenon DEF Client
<1>2. now \in Time /\ MaxTime \in Nat
  BY BoundsAssumption DEF TypeOK
<1>3. CASE SafePost(t) \/ Post(t)
  <2>1. 0 \in Time
    BY <1>2 DEF Time
  <2>2. QED
    BY <1>3, <2>1, Zenon DEF SafePost, Post
<1>4. ASSUME NEW d \in 0..(MaxTime - now), SafeDelayedPost(t, d) \/ DelayedPost(t, d)
      PROVE  \E tp \in Time : SafePostAt(t, tp) \/ PostAt(t, tp)
  <2>1. now + d \in Time
    BY <1>2 DEF Time
  <2>2. QED
    BY <1>4, <2>1, Zenon DEF SafeDelayedPost, DelayedPost
<1>5. QED
  BY <1>1, <1>3, <1>4, Zenon

LEMMA ClientType ==
  ASSUME TypeOK, Client
  PROVE  TypeOK'
<1>1. PICK t \in Tasks :
        \/ \E tp \in Time : SafePostAt(t, tp) \/ PostAt(t, tp)
        \/ Refuse(t)
  BY ClientCases
<1>2. CASE \E tp \in Time : SafePostAt(t, tp) \/ PostAt(t, tp)
  <2>1. PICK tp \in Time : SafePostAt(t, tp) \/ PostAt(t, tp)
    BY <1>2
  <2>2. tp \in Nat
    BY BoundsAssumption DEF Time
  <2>3. QED
    BY <2>1, <2>2, SafePostType, PostType
<1>3. CASE Refuse(t)
  <2>1. /\ fate' = [fate EXCEPT ![t] = "refused"]
        /\ dropCount' = dropCount + 1
        /\ UNCHANGED <<ready, timers, stopped, guard, due, kind, cur, pc, now, alive,
                       counter, safeCounter, maxsize>>
    BY <1>3 DEF Refuse, ioVars, workVars
  <2>2. fate' \in [Tasks -> Fates]
    BY <2>1 DEF TypeOK, Fates
  <2>3. dropCount' \in Nat
    <3>1. dropCount \in Nat
      BY DEF TypeOK
    <3>2. QED
      BY <2>1, <3>1
  <2>4. QED
    BY <2>1, <2>2, <2>3 DEF TypeOK
<1>4. QED
  BY <1>1, <1>2, <1>3

LEMMA PostGoesOnType ==
  ASSUME TypeOK, NEW t \in Tasks, PostGoesOn(t)
  PROVE  TypeOK'
<1>1. CASE CountIn(t)
  <2>1. /\ fate' = [fate EXCEPT ![t] = "counted"]
        /\ counter' = counter + 1
        /\ UNCHANGED <<ready, timers, stopped, guard, due, kind, cur, pc, now, alive,
                       safeCounter, maxsize, dropCount>>
    BY <1>1 DEF CountIn, ioVars, workVars
  <2>2. fate' \in [Tasks -> Fates]
    BY <2>1 DEF TypeOK, Fates
  <2>3. counter' \in Int
    <3>1. counter \in Int
      BY DEF TypeOK
    <3>2. QED
      BY <2>1, <3>1
  <2>4. QED
    BY <2>1, <2>2, <2>3 DEF TypeOK
<1>2. CASE HandOver(t)
  <2>1. fate' \in [Tasks -> Fates]
    BY <1>2 DEF HandOver, TypeOK, Fates
  <2>2. ready' \in Seq(Tasks) /\ timers' \subseteq Tasks
    <3>1. ready \in Seq(Tasks) /\ timers \subseteq Tasks
      BY DEF TypeOK
    <3>2. CASE due[t] = 0
      BY <1>2, <3>1, <3>2, AppendProperties DEF HandOver
    <3>3. CASE due[t] # 0
      BY <1>2, <3>1, <3>3 DEF HandOver
    <3>4. QED
      BY <3>2, <3>3
  <2>3. UNCHANGED <<due, kind, cur, pc, now, stopped, guard, alive, counter, safeCounter,
                    maxsize, dropCount>>
    BY <1>2 DEF HandOver, workVars, sizeVars
  <2>4. QED
    BY <2>1, <2>2, <2>3 DEF TypeOK
<1>3. QED
  BY <1>1, <1>2 DEF PostGoesOn

LEMMA ExpireType ==
  ASSUME TypeOK, NEW t \in Tasks, Expire(t)
  PROVE  TypeOK'
<1>1. ready' \in Seq(Tasks) /\ timers' \subseteq Tasks
  BY AppendProperties DEF Expire, TypeOK
<1>2. UNCHANGED <<due, kind, now, guard, alive, maxsize, dropCount, fate, cur, pc, stopped,
                  counter, safeCounter>>
  BY DEF Expire, WorkerKeeps, workVars
<1>3. QED
  BY <1>1, <1>2 DEF TypeOK

LEMMA GotoType ==
  ASSUME TypeOK, NEW w \in Workers, NEW STATE l, l \in Places, Goto(w, l)
  PROVE  pc' \in [Workers -> Places]
  BY DEF TypeOK, Goto

LEMMA WrapperType ==
  ASSUME TypeOK, NEW w \in Workers, NEW end \in Fates, WrapperReturns(w, end)
  PROVE  TypeOK'
<1>1. /\ fate' = [fate EXCEPT ![cur[w]] = end]
      /\ cur' = [cur EXCEPT ![w] = NoTask]
      /\ stopped' = (stopped \/ ~(guard \/ Busy(ready, timers, cur')))
      /\ Goto(w, "in") \/ Goto(w, "ret")
      /\ UNCHANGED <<due, kind, now, guard, alive, maxsize, dropCount, ready, timers,
                     counter, safeCounter>>
  BY DEF WrapperReturns, WorkerKeeps
<1>2. fate' \in [Tasks -> Fates] /\ cur' \in [Workers -> Tasks \cup {NoTask}]
  BY <1>1 DEF TypeOK
<1>3. pc' \in [Workers -> Places]
  BY <1>1, GotoType DEF Places
<1>4. stopped' \in BOOLEAN
  BY <1>1, Zenon
<1>5. {stopped', guard', alive'} \subseteq BOOLEAN
  <2>1. guard \in BOOLEAN /\ alive \in BOOLEAN
    BY DEF TypeOK
  <2>2. guard' = guard /\ alive' = alive
    BY <1>1
  <2>3. guard' \in BOOLEAN /\ alive' \in BOOLEAN
    BY <2>1, <2>2, Zenon
  <2>4. QED
    BY <1>4, <2>3
<1>6. UNCHANGED <<due, kind, now, maxsize, dropCount, ready, timers, counter, safeCounter>>
  BY <1>1
<1>7. QED
  BY <1>2, <1>3, <1>5, <1>6 DEF TypeOK

LEMMA EnterType ==
  ASSUME TypeOK, NEW w \in Workers, Enter(w)
  PROVE  TypeOK'
<1>1. /\ stopped' = (stopped \/ ~(guard \/ Busy(ready, timers, cur)))
      /\ Goto(w, "ret") \/ Goto(w, "in")
      /\ UNCHANGED <<due, kind, now, guard, alive, maxsize, dropCount, ready, timers, fate,
                     cur, counter, safeCounter>>
  BY DEF Enter, WorkerKeeps
<1>2. pc' \in [Workers -> Places]
  BY <1>1, GotoType DEF Places
<1>3. stopped' \in BOOLEAN
  BY <1>1, Zenon
<1>4. {stopped', guard', alive'} \subseteq BOOLEAN
  <2>1. {guard', alive'} \subseteq BOOLEAN
    BY <1>1 DEF TypeOK
  <2>2. QED
    BY <1>3, <2>1
<1>5. UNCHANGED <<due, kind, now, maxsize, dropCount, ready, timers, fate, cur, counter,
                  safeCounter>>
  BY <1>1
<1>6. QED
  BY <1>2, <1>4, <1>5 DEF TypeOK

LEMMA TakeType ==
  ASSUME TypeOK, NEW w \in Workers, Take(w)
  PROVE  TypeOK'
<1>1. /\ ready # <<>> /\ ready' = Tail(ready)
      /\ cur' = [cur EXCEPT ![w] = Head(ready)]
      /\ Goto(w, "popped")
      /\ UNCHANGED <<due, kind, now, guard, alive, maxsize, dropCount, timers, fate,
                     stopped, counter, safeCounter>>
  BY DEF Take, WorkerKeeps
<1>2. ready \in Seq(Tasks)
  BY DEF TypeOK
<1>3. Head(ready) \in Tasks /\ Tail(ready) \in Seq(Tasks)
  BY <1>1, <1>2, HeadTailProperties
<1>4. ready' \in Seq(Tasks) /\ cur' \in [Workers -> Tasks \cup {NoTask}]
  BY <1>1, <1>3 DEF TypeOK
<1>5. pc' \in [Workers -> Places]
  BY <1>1, GotoType DEF Places
<1>6. UNCHANGED <<due, kind, now, guard, alive, maxsize, dropCount, timers, fate, stopped,
                  counter, safeCounter>>
  BY <1>1
<1>7. QED
  BY <1>4, <1>5, <1>6 DEF TypeOK

LEMMA CountOutType ==
  ASSUME TypeOK, NEW w \in Workers, CountOut(w)
  PROVE  TypeOK'
<1>1. /\ \/ counter' = counter - 1 /\ UNCHANGED safeCounter
         \/ safeCounter' = safeCounter - 1 /\ UNCHANGED counter
      /\ Goto(w, "running")
      /\ UNCHANGED <<due, kind, now, guard, alive, maxsize, dropCount, ready, timers, fate,
                     cur, stopped>>
  BY DEF CountOut, WorkerKeeps
<1>2. counter' \in Int /\ safeCounter' \in Int
  <2>1. counter \in Int /\ safeCounter \in Int
    BY DEF TypeOK
  <2>2. QED
    BY <1>1, <2>1
<1>3. pc' \in [Workers -> Places]
  BY <1>1, GotoType DEF Places
<1>4. UNCHANGED <<due, kind, now, guard, alive, maxsize, dropCount, ready, timers, fate,
                  cur, stopped>>
  BY <1>1
<1>5. QED
  BY <1>2, <1>3, <1>4 DEF TypeOK

LEMMA ServeType ==
  ASSUME TypeOK, NEW w \in Workers, Serve(w) \/ Finish(w)
  PROVE  TypeOK'
<1>1. CASE Leave(w) \/ Return(w)
  <2>1. /\ Goto(w, "ret") \/ Goto(w, "done") \/ Goto(w, "out")
        /\ UNCHANGED <<due, kind, now, guard, alive, maxsize, dropCount, ready, timers,
                       fate, cur, stopped, counter, safeCounter>>
    BY <1>1 DEF Leave, Return, WorkerKeeps
  <2>2. pc' \in [Workers -> Places]
    BY <2>1, GotoType DEF Places
  <2>3. QED
    BY <2>1, <2>2 DEF TypeOK
<1>2. CASE FindNoQueue(w) \/ Finish(w)
  <2>1. "discarded" \in Fates /\ "finished" \in Fates
    BY DEF Fates
  <2>2. QED
    BY <1>2, <2>1, WrapperType DEF FindNoQueue, Finish
<1>3. QED
  BY <1>1, <1>2, EnterType, TakeType, CountOutType DEF Serve

(* The owner and the clock.                                                *)
LEMMA OwnerType ==
  ASSUME TypeOK, Owner \/ Tick
  PROVE  TypeOK'
<1>1. CASE Tick
  <2>1. now' \in Time
    <3>1. now \in Time
      BY DEF TypeOK
    <3>2. QED
      BY <1>1, <3>1, BoundsAssumption DEF Tick, Time
  <2>2. UNCHANGED <<ready, timers, stopped, guard, due, kind, fate, cur, pc, alive, counter,
                    safeCounter, maxsize, dropCount>>
    BY <1>1 DEF Tick, ioVars, taskVars, workVars, sizeVars
  <2>3. QED
    BY <2>1, <2>2 DEF TypeOK
<1>2. ASSUME Owner
      PROVE  /\ UNCHANGED <<ready, timers, due, kind, fate, cur, now, counter, safeCounter,
                            dropCount>>
             /\ pc' = pc \/ pc' = [w \in Workers |-> "out"]
             /\ maxsize' \in Maxsizes
             /\ stopped' \in BOOLEAN /\ guard' \in BOOLEAN /\ alive' \in BOOLEAN
  <2>1. /\ OwnerKeeps => UNCHANGED <<ready, timers, due, kind, fate, cur, now, counter,
                                     safeCounter, dropCount>>
        /\ maxsize \in Maxsizes
        /\ stopped \in BOOLEAN /\ guard \in BOOLEAN /\ alive \in BOOLEAN
    BY DEF OwnerKeeps, taskVars, TypeOK
  <2>2. CASE Stop \/ Reset
    BY <2>1, <2>2 DEF Stop, Reset
  <2>3. CASE DropGuard
    <3>1. /\ OwnerKeeps /\ UNCHANGED <<pc, alive, maxsize>>
          /\ guard' = FALSE
          /\ stopped' = (stopped \/ (guard /\ ~Busy(ready, timers, cur)))
      BY <2>3 DEF DropGuard
    <3>2. stopped' \in BOOLEAN
      BY <3>1, Zenon
    <3>3. QED
      BY <2>1, <3>1, <3>2
  <2>4. CASE StartAll
    BY <2>1, <2>4 DEF StartAll
  <2>5. CASE Destroy
    BY <2>1, <2>5 DEF Destroy
  <2>6. CASE \E n \in Maxsizes : SetMaxsize(n)
    BY <2>1, <2>6 DEF SetMaxsize
  <2>7. QED
    BY <1>2, <2>2, <2>3, <2>4, <2>5, <2>6 DEF Owner
<1>3. CASE Owner
  <2>1. pc' \in [Workers -> Places]
    BY <1>2, <1>3 DEF TypeOK, Places
  <2>2. QED
    BY <1>2, <1>3, <2>1 DEF TypeOK
<1>4. QED
  BY <1>1, <1>3

LEMMA TypeInit ==
  ASSUME Init
  PROVE  TypeOK
<1>1. 0 \in Time
  BY BoundsAssumption DEF Time
<1>2. <<>> \in Seq(Tasks)
  OBVIOUS
<1>3. /\ due \in [Tasks -> Time] /\ kind \in [Tasks -> Kinds \cup {"none"}]
      /\ fate \in [Tasks -> Fates] /\ cur \in [Workers -> Tasks \cup {NoTask}]
      /\ pc \in [Workers -> Places]
  BY <1>1 DEF Init, Fates, Places
<1>4. /\ ready \in Seq(Tasks) /\ timers \subseteq Tasks /\ now \in Time
      /\ {stopped, guard, alive} \subseteq BOOLEAN /\ maxsize \in Maxsizes
  BY <1>1, <1>2 DEF Init
<1>5. counter \in Int /\ safeCounter \in Int /\ dropCount \in Nat
  BY DEF Init
<1>6. QED
  BY <1>3, <1>4, <1>5 DEF TypeOK

LEMMA TypeNext ==
  ASSUME TypeOK, [Next]_vars
  PROVE  TypeOK'
<1>1. CASE UNCHANGED vars
  BY <1>1 DEF vars, TypeOK
<1>2. CASE Next
  BY <1>2, ClientType, OwnerType, PostGoesOnType, ExpireType, ServeType DEF Next
<1>3. QED
  BY <1>1, <1>2

(* Every variable of the queue, of its io_context and of its threads keeps *)
(* its type, whatever is posted, stopped, restarted or destroyed.          *)
THEOREM TypeCorrect == Spec => []TypeOK
<1>1. Init => TypeOK
  BY TypeInit
<1>2. TypeOK /\ [Next]_vars => TypeOK'
  BY TypeNext
<1>3. QED
  BY <1>1, <1>2, PTL DEF Spec
-----------------------------------------------------------------------------
(* The limit.  No lock is held from check_() to ++_counter, so what bounds *)
(* the counter is the number of threads that stand between the two.        *)

MidPostBounded == Cardinality(MidPost) <= Callers

OvershootInv == TypeOK /\ MidPostBounded /\ Overshoot

LEMMA MidPostFinite ==
  /\ Checked \subseteq MidPost
  /\ IsFiniteSet(MidPost) /\ IsFiniteSet(Checked)
  /\ Cardinality(Checked) \in Nat /\ Cardinality(MidPost) \in Nat
  /\ Cardinality(Checked) <= Cardinality(MidPost)
<1>1. Checked \subseteq MidPost /\ MidPost \subseteq Tasks
  BY DEF Checked, MidPost
<1>2. IsFiniteSet(MidPost)
  BY <1>1, TasksAssumption, FS_Subset
<1>3. QED
  BY <1>1, <1>2, FS_Subset, FS_CardinalityType

LEMMA MidPostFiniteNext ==
  /\ (Checked \subseteq MidPost)'
  /\ IsFiniteSet(MidPost') /\ IsFiniteSet(Checked')
  /\ Cardinality(Checked') \in Nat /\ Cardinality(MidPost') \in Nat
  /\ Cardinality(Checked') <= Cardinality(MidPost')
<1>1. Checked' \subseteq MidPost' /\ MidPost' \subseteq Tasks
  BY DEF Checked, MidPost
<1>2. IsFiniteSet(MidPost')
  BY <1>1, TasksAssumption, FS_Subset
<1>3. QED
  BY <1>1, <1>2, FS_Subset, FS_CardinalityType

(* A step that lets no task into a post and counts none in.                *)
LEMMA OvershootShrinks ==
  ASSUME OvershootInv, TypeOK', MidPost' \subseteq MidPost, Checked' \subseteq Checked,
         counter' <= counter
  PROVE  OvershootInv'
<1>1. /\ Cardinality(MidPost') <= Cardinality(MidPost)
      /\ Cardinality(Checked') <= Cardinality(Checked)
  BY MidPostFinite, FS_Subset
<1>2. Callers \in Nat /\ Maxsizes \subseteq Nat
  BY BoundsAssumption
<1>3. MidPostBounded'
  BY <1>1, <1>2, MidPostFinite, MidPostFiniteNext DEF OvershootInv, MidPostBounded
<1>4. ASSUME 0 \notin Maxsizes
      PROVE  \E m \in Maxsizes : counter' + Cardinality(Checked') <= m - 1 + Callers
  <2>1. PICK m \in Maxsizes : counter + Cardinality(Checked) <= m - 1 + Callers
    BY <1>4 DEF OvershootInv, Overshoot
  <2>2. counter \in Int /\ counter' \in Int
    BY DEF OvershootInv, TypeOK
  <2>3. counter' + Cardinality(Checked') <= m - 1 + Callers
    BY <1>1, <1>2, <2>1, <2>2, MidPostFinite, MidPostFiniteNext
  <2>4. QED
    BY <2>3
<1>5. QED
  BY <1>3, <1>4 DEF OvershootInv, Overshoot

(* The steps that end a post, and those that are none.                     *)
LEMMA FateShrinks ==
  ASSUME TypeOK, NEW STATE x, NEW e, e \notin {"checked", "counted"},
         fate' = fate \/ fate' = [fate EXCEPT ![x] = e]
  PROVE  MidPost' \subseteq MidPost /\ Checked' \subseteq Checked
  BY DEF TypeOK, MidPost, Checked

LEMMA OtherStepsShrink ==
  ASSUME TypeOK,
         \/ Owner \/ Tick \/ UNCHANGED vars
         \/ \E t \in Tasks : Refuse(t) \/ HandOver(t) \/ Expire(t)
         \/ \E w \in Workers : Serve(w) \/ Finish(w)
  PROVE  MidPost' \subseteq MidPost /\ Checked' \subseteq Checked /\ counter' <= counter
<1>0. counter \in Int
  BY DEF TypeOK
<1>1. CASE Owner \/ Tick \/ UNCHANGED vars
  <2>1. UNCHANGED <<fate, counter>>
    BY <1>1 DEF Owner, Stop, Reset, DropGuard, StartAll, Destroy, SetMaxsize, OwnerKeeps,
                taskVars, Tick, sizeVars, vars
  <2>2. QED
    BY <1>0, <2>1 DEF MidPost, Checked
<1>2. CASE \E t \in Tasks : Refuse(t) \/ HandOver(t) \/ Expire(t)
  <2>1. PICK t \in Tasks : Refuse(t) \/ HandOver(t) \/ Expire(t)
    BY <1>2
  <2>2. /\ counter' = counter
        /\ \/ fate' = fate \/ fate' = [fate EXCEPT ![t] = "refused"]
           \/ fate' = [fate EXCEPT ![t] = "accepted"]
    BY <2>1 DEF Refuse, HandOver, Expire, sizeVars
  <2>3. QED
    BY <1>0, <2>2, FateShrinks
<1>3. CASE \E w \in Workers : Serve(w) \/ Finish(w)
  <2>1. PICK w \in Workers : Serve(w) \/ Finish(w)
    BY <1>3
  <2>2. CASE CountOut(w)
    <3>1. fate' = fate /\ (counter' = counter \/ counter' = counter - 1)
      BY <2>2 DEF CountOut
    <3>2. QED
      BY <1>0, <3>1 DEF MidPost, Checked
  <2>3. CASE Enter(w) \/ Take(w) \/ Leave(w) \/ Return(w)
    <3>1. UNCHANGED <<fate, counter>>
      BY <2>3 DEF Enter, Take, Leave, Return
    <3>2. QED
      BY <1>0, <3>1 DEF MidPost, Checked
  <2>4. CASE FindNoQueue(w) \/ Finish(w)
    <3>1. /\ counter' = counter
          /\ \/ fate' = [fate EXCEPT ![cur[w]] = "discarded"]
             \/ fate' = [fate EXCEPT ![cur[w]] = "finished"]
      BY <2>4 DEF FindNoQueue, Finish, WrapperReturns
    <3>2. QED
      BY <1>0, <3>1, FateShrinks
  <2>5. QED
    BY <2>1, <2>2, <2>3, <2>4 DEF Serve
<1>4. QED
  BY <1>1, <1>2, <1>3

(* A task enters a post only where fewer than Callers are in one.          *)
LEMMA OfferBounded ==
  ASSUME OvershootInv, NEW t \in Tasks, NEW k, NEW tp, NEW next, Offer(t, k, tp, next),
         next \in {"checked", "counted"}
  PROVE  MidPostBounded'
<1>1. fate' = [fate EXCEPT ![t] = next] /\ fate[t] = "fresh"
      /\ Cardinality(MidPost) < Callers
  BY DEF Offer
<1>2. MidPost' = MidPost \cup {t} /\ t \notin MidPost
  BY <1>1 DEF MidPost, OvershootInv, TypeOK
<1>3. Cardinality(MidPost') = Cardinality(MidPost) + 1
  BY <1>2, MidPostFinite, FS_AddElement
<1>4. QED
  BY <1>1, <1>3, MidPostFinite, BoundsAssumption DEF MidPostBounded

LEMMA SafePostOvershoot ==
  ASSUME OvershootInv, TypeOK', NEW t \in Tasks, NEW tp, SafePostAt(t, tp)
  PROVE  OvershootInv'
<1>1. fate' = [fate EXCEPT ![t] = "counted"] /\ fate[t] = "fresh" /\ counter' = counter
  BY DEF SafePostAt, Offer
<1>2. Checked' = Checked
  BY <1>1 DEF Checked, OvershootInv, TypeOK
<1>3. MidPostBounded'
  BY OfferBounded DEF SafePostAt
<1>4. Overshoot'
  BY <1>1, <1>2 DEF OvershootInv, Overshoot
<1>5. QED
  BY <1>3, <1>4 DEF OvershootInv

LEMMA PostOvershoot ==
  ASSUME OvershootInv, TypeOK', NEW t \in Tasks, NEW tp, PostAt(t, tp)
  PROVE  OvershootInv'
<1>1. Room /\ counter' = counter
  BY DEF PostAt, Offer
<1>2. MidPostBounded'
  BY OfferBounded DEF PostAt
<1>3. ASSUME 0 \notin Maxsizes
      PROVE  \E m \in Maxsizes : counter' + Cardinality(Checked') <= m - 1 + Callers
  <2>1. maxsize \in Maxsizes /\ maxsize \in Nat /\ counter \in Int /\ Callers \in Nat
    BY BoundsAssumption DEF OvershootInv, TypeOK
  <2>2. counter < maxsize
    BY <1>1, <1>3, <2>1 DEF Room
  <2>3. Cardinality(Checked') <= Callers
    BY <1>2, <2>1, MidPostFiniteNext DEF MidPostBounded
  <2>4. counter' + Cardinality(Checked') <= maxsize - 1 + Callers
    BY <1>1, <2>1, <2>2, <2>3, MidPostFiniteNext
  <2>5. QED
    BY <2>1, <2>4
<1>4. QED
  BY <1>2, <1>3 DEF OvershootInv, Overshoot

(* What ++_counter adds to the counter it takes from the tasks checked.    *)
LEMMA CountInOvershoot ==
  ASSUME OvershootInv, TypeOK', NEW t \in Tasks, CountIn(t)
  PROVE  OvershootInv'
<1>1. /\ fate[t] = "checked" /\ fate' = [fate EXCEPT ![t] = "counted"]
      /\ counter' = counter + 1
  BY DEF CountIn
<1>2. t \in Checked /\ Checked' = Checked \ {t} /\ MidPost' = MidPost
  BY <1>1 DEF Checked, MidPost, OvershootInv, TypeOK
<1>3. Cardinality(Checked') = Cardinality(Checked) - 1
  BY <1>2, MidPostFinite, FS_RemoveElement
<1>4. counter' + Cardinality(Checked') = counter + Cardinality(Checked)
  <2>1. counter \in Int
    BY DEF OvershootInv, TypeOK
  <2>2. QED
    BY <1>1, <1>3, <2>1, MidPostFinite
<1>5. QED
  BY <1>2, <1>4 DEF OvershootInv, MidPostBounded, Overshoot

LEMMA OvershootInit ==
  ASSUME Init
  PROVE  OvershootInv
<1>1. Checked = {} /\ MidPost = {} /\ counter = 0 /\ maxsize \in Maxsizes
  BY DEF Init, Checked, MidPost
<1>2. Cardinality(Checked) = 0 /\ Cardinality(MidPost) = 0
  BY <1>1, FS_EmptySet
<1>3. maxsize \in Nat /\ Callers \in Nat \ {0}
  BY <1>1, BoundsAssumption
<1>4. ASSUME 0 \notin Maxsizes
      PROVE  counter + Cardinality(Checked) <= maxsize - 1 + Callers
  BY <1>1, <1>2, <1>3, <1>4
<1>5. QED
  BY <1>1, <1>2, <1>3, <1>4, TypeInit DEF OvershootInv, MidPostBounded, Overshoot

LEMMA OvershootNext ==
  ASSUME OvershootInv, [Next]_vars
  PROVE  OvershootInv'
<1>1. TypeOK /\ TypeOK'
  BY TypeNext DEF OvershootInv
<1>2. CASE Client
  <2>1. PICK t \in Tasks :
          \/ \E tp \in Time : SafePostAt(t, tp) \/ PostAt(t, tp)
          \/ Refuse(t)
    BY <1>1, <1>2, ClientCases
  <2>2. CASE Refuse(t)
    BY <1>1, <2>2, OtherStepsShrink, OvershootShrinks
  <2>3. CASE \E tp \in Time : SafePostAt(t, tp) \/ PostAt(t, tp)
    BY <1>1, <2>3, SafePostOvershoot, PostOvershoot
  <2>4. QED
    BY <2>1, <2>2, <2>3
<1>3. CASE \E t \in Tasks : CountIn(t)
  BY <1>1, <1>3, CountInOvershoot
<1>4. CASE \/ Owner \/ Tick \/ UNCHANGED vars
           \/ \E t \in Tasks : Refuse(t) \/ HandOver(t) \/ Expire(t)
           \/ \E w \in Workers : Serve(w) \/ Finish(w)
  BY <1>1, <1>4, OtherStepsShrink, OvershootShrinks
<1>5. QED
  BY <1>2, <1>3, <1>4 DEF Next, PostGoesOn

(* The limit of the asio queue is soft, but not without bound: where every *)
(* limit that set_maxsize() chooses is positive, _counter never passes the *)
(* largest of them by more than the callers in a post at once, less one.   *)
THEOREM OvershootIsBounded == Spec => []Overshoot
<1>1. Init => OvershootInv
  BY OvershootInit
<1>2. OvershootInv /\ [Next]_vars => OvershootInv'
  BY OvershootNext
<1>3. OvershootInv => Overshoot
  BY DEF OvershootInv
<1>4. QED
  BY <1>1, <1>2, <1>3, PTL DEF Spec

-----------------------------------------------------------------------------
(* Where a task is.  Its fate says when it is in the io_context or with a  *)
(* worker, and it is in one place then.                                    *)

Holding == {"popped", "running"}

InOnePlace ==
  /\ IsInjective(ready)
  /\ \A v, w \in Workers : cur[v] = cur[w] /\ cur[v] # NoTask => v = w
  /\ \A w \in Workers : cur[w] # NoTask <=> pc[w] \in Holding
  /\ \A t \in Tasks :
       /\ fate[t] = "accepted" <=> t \in timers \/ t \in Ready \/ t \in Taken
       /\ t \in timers => t \notin Ready /\ t \notin Taken
       /\ t \in Ready => t \notin Taken

(* How a task was posted is known from its test or its count on, and it is *)
(* not early: what waits for no time point has none ahead.                 *)
PostKnown ==
  \A t \in Tasks :
    /\ fate[t] = "checked" => kind[t] = "unsafe"
    /\ fate[t] \in {"counted", "accepted", "discarded"} => kind[t] \in Kinds
    /\ fate[t] = "fresh" => due[t] = 0
    /\ t \in Ready \/ t \in Taken => due[t] <= now

(* Only accepted tasks are with a worker.                                  *)
LEMMA StartedTaken ==
  ASSUME InOnePlace, NEW t \in Tasks
  PROVE  /\ Started(t) => t \in Taken
         /\ t \in Taken => fate[t] = "accepted"
  BY DEF Started, Taken, InOnePlace

(* ++_counter, boost::asio::post() and async_wait() concern one task that  *)
(* is nowhere yet.                                                         *)
LEMMA HandOverEffect ==
  ASSUME TypeOK, InOnePlace, NEW t \in Tasks, HandOver(t)
  PROVE  /\ t \notin timers /\ t \notin Ready /\ t \notin Taken
         /\ IsInjective(ready')
         /\ due[t] = 0 \/ t \notin Ready'
         /\ \A u \in Tasks :
              /\ fate'[u] = IF u = t THEN "accepted" ELSE fate[u]
              /\ u \in timers' <=> u \in timers \/ (u = t /\ due[t] # 0)
              /\ u \in Ready' <=> u \in Ready \/ (u = t /\ due[t] = 0)
         /\ UNCHANGED <<cur, pc, kind, due, now, counter, safeCounter, dropCount>>
<1>1. fate[t] = "counted" /\ fate' = [fate EXCEPT ![t] = "accepted"]
      /\ UNCHANGED <<cur, pc, kind, due, now, counter, safeCounter, dropCount>>
  BY DEF HandOver, workVars, sizeVars
<1>2. t \notin timers /\ t \notin Ready /\ t \notin Taken /\ IsInjective(ready)
  BY <1>1 DEF InOnePlace
<1>3. ready \in Seq(Tasks) /\ fate \in [Tasks -> Fates]
  BY DEF TypeOK
<1>4. \A u \in Tasks : fate'[u] = IF u = t THEN "accepted" ELSE fate[u]
  BY <1>1, <1>3
<1>5. CASE due[t] = 0
  <2>1. ready' = Append(ready, t) /\ timers' = timers
    BY <1>5 DEF HandOver
  <2>2. Range(ready') = Range(ready) \cup {t} /\ IsInjective(ready')
    BY <1>2, <1>3, <2>1, AppendRange DEF Ready
  <2>3. QED
    BY <1>1, <1>2, <1>4, <1>5, <2>1, <2>2 DEF Ready
<1>6. CASE due[t] # 0
  <2>1. ready' = ready /\ timers' = timers \cup {t}
    BY <1>6 DEF HandOver
  <2>2. QED
    BY <1>1, <1>2, <1>4, <1>6, <2>1 DEF Ready
<1>7. QED
  BY <1>5, <1>6

LEMMA ExpireEffect ==
  ASSUME TypeOK, InOnePlace, NEW t \in Tasks, Expire(t)
  PROVE  /\ t \in timers /\ due[t] <= now
         /\ IsInjective(ready')
         /\ \A u \in Tasks : /\ u \in timers' <=> u \in timers /\ u # t
                             /\ u \in Ready' <=> u \in Ready \/ u = t
         /\ UNCHANGED <<fate, cur, pc, kind, due, now, counter, safeCounter, dropCount>>
<1>1. /\ t \in timers /\ due[t] <= now
      /\ timers' = timers \ {t} /\ ready' = Append(ready, t)
      /\ UNCHANGED <<fate, cur, pc, kind, due, now, counter, safeCounter, dropCount>>
  BY DEF Expire, WorkerKeeps, workVars
<1>2. t \notin Ready /\ IsInjective(ready) /\ ready \in Seq(Tasks)
  BY <1>1 DEF InOnePlace, TypeOK
<1>3. Range(ready') = Range(ready) \cup {t} /\ IsInjective(ready')
  BY <1>1, <1>2, AppendRange DEF Ready
<1>4. QED
  BY <1>1, <1>3 DEF Ready

(* A worker takes a handler: it was ready, and now it is with that worker. *)
LEMMA TakeEffect ==
  ASSUME TypeOK, InOnePlace, NEW w \in Workers, Take(w)
  PROVE  \E t \in Tasks :
           /\ t \in Ready /\ t \notin Taken /\ t # NoTask
           /\ cur[w] = NoTask /\ pc[w] = "in"
           /\ IsInjective(ready')
           /\ \A u \in Tasks : u \in Ready' <=> u \in Ready /\ u # t
           /\ \A v \in Workers : /\ cur'[v] = IF v = w THEN t ELSE cur[v]
                                 /\ pc'[v] = IF v = w THEN "popped" ELSE pc[v]
           /\ UNCHANGED <<timers, fate, kind, due, now, counter, safeCounter, dropCount>>
<1>1. PICK t : t = Head(ready)
  OBVIOUS
<1>2. /\ pc[w] = "in" /\ ready # <<>> /\ ready' = Tail(ready)
      /\ cur' = [cur EXCEPT ![w] = t] /\ pc' = [pc EXCEPT ![w] = "popped"]
      /\ UNCHANGED <<timers, fate, kind, due, now, counter, safeCounter, dropCount>>
  BY <1>1 DEF Take, Goto, WorkerKeeps
<1>3. /\ ready \in Seq(Tasks) /\ cur \in [Workers -> Tasks \cup {NoTask}]
      /\ pc \in [Workers -> Places]
  BY DEF TypeOK
<1>4. /\ t \in Tasks /\ Range(ready) = Range(ready') \cup {t}
      /\ IsInjective(ready') /\ t \notin Range(ready')
  BY <1>1, <1>2, <1>3, TailRange DEF InOnePlace
<1>5. \A u \in Tasks : u \in Ready' <=> u \in Ready /\ u # t
  BY <1>4 DEF Ready
<1>6. t \in Ready /\ t \notin Taken /\ t # NoTask
  BY <1>4, TasksAssumption DEF Ready, InOnePlace
<1>7. cur[w] = NoTask
  BY <1>2 DEF InOnePlace, Holding
<1>8. \A v \in Workers : /\ cur'[v] = IF v = w THEN t ELSE cur[v]
                         /\ pc'[v] = IF v = w THEN "popped" ELSE pc[v]
  BY <1>2, <1>3
<1>9. QED
  BY <1>2, <1>4, <1>5, <1>6, <1>7, <1>8

(* The handler leaves its worker's hand, and nothing else is touched.      *)
LEMMA WrapperEffect ==
  ASSUME TypeOK, InOnePlace, NEW w \in Workers, NEW end, pc[w] \in Holding,
         WrapperReturns(w, end)
  PROVE  \E t \in Tasks :
           /\ t = cur[w] /\ t # NoTask /\ fate[t] = "accepted"
           /\ t \notin Ready /\ t \notin timers
           /\ \A v \in Workers : v # w => cur[v] # t
           /\ \A u \in Tasks : fate'[u] = IF u = t THEN end ELSE fate[u]
           /\ \A v \in Workers : /\ cur'[v] = IF v = w THEN NoTask ELSE cur[v]
                                 /\ v # w => pc'[v] = pc[v]
           /\ pc'[w] \notin Holding
           /\ UNCHANGED <<ready, timers, kind, due, now, counter, safeCounter, dropCount>>
<1>1. PICK t : t = cur[w]
  OBVIOUS
<1>2. /\ fate' = [fate EXCEPT ![t] = end] /\ cur' = [cur EXCEPT ![w] = NoTask]
      /\ pc' = [pc EXCEPT ![w] = "in"] \/ pc' = [pc EXCEPT ![w] = "ret"]
      /\ UNCHANGED <<ready, timers, kind, due, now, counter, safeCounter, dropCount>>
  BY <1>1 DEF WrapperReturns, Goto, WorkerKeeps
<1>3. /\ cur \in [Workers -> Tasks \cup {NoTask}] /\ pc \in [Workers -> Places]
      /\ fate \in [Tasks -> Fates]
  BY DEF TypeOK
<1>4. t # NoTask /\ \A v \in Workers : v # w => cur[v] # t
  BY <1>1 DEF InOnePlace
<1>5. t \in Tasks /\ t \in Taken
  BY <1>1, <1>3, <1>4 DEF Taken
<1>6. fate[t] = "accepted" /\ t \notin Ready /\ t \notin timers
  BY <1>5 DEF InOnePlace
<1>7. \A u \in Tasks : fate'[u] = IF u = t THEN end ELSE fate[u]
  BY <1>2, <1>3, <1>5
<1>8. /\ \A v \in Workers : /\ cur'[v] = IF v = w THEN NoTask ELSE cur[v]
                            /\ v # w => pc'[v] = pc[v]
      /\ pc'[w] \notin Holding
  BY <1>2, <1>3 DEF Holding
<1>9. QED
  BY <1>1, <1>2, <1>4, <1>5, <1>6, <1>7, <1>8

(* A test, a post that has only begun, a count: no handler moves.          *)
LEMMA OfferEffect ==
  ASSUME TypeOK, NEW t \in Tasks, NEW k, NEW tp, NEW next, Offer(t, k, tp, next)
  PROVE  /\ fate[t] = "fresh"
         /\ \A u \in Tasks : /\ fate'[u] = IF u = t THEN next ELSE fate[u]
                             /\ kind'[u] = IF u = t THEN k ELSE kind[u]
                             /\ u # t => due'[u] = due[u]
         /\ UNCHANGED <<ready, timers, cur, pc, now, counter, dropCount>>
<1>1. /\ fate[t] = "fresh"
      /\ fate' = [fate EXCEPT ![t] = next] /\ kind' = [kind EXCEPT ![t] = k]
      /\ \E d : due' = [due EXCEPT ![t] = d]
      /\ UNCHANGED <<ready, timers, cur, pc, now, counter, dropCount>>
  BY DEF Offer, ioVars, workVars
<1>2. fate \in [Tasks -> Fates] /\ kind \in [Tasks -> Kinds \cup {"none"}]
      /\ due \in [Tasks -> Time]
  BY DEF TypeOK
<1>3. \A u \in Tasks : u # t => due'[u] = due[u]
  BY <1>1, <1>2
<1>4. QED
  BY <1>1, <1>2, <1>3

LEMMA RefuseEffect ==
  ASSUME TypeOK, NEW t \in Tasks, Refuse(t)
  PROVE  /\ fate[t] = "fresh" /\ dropCount' = dropCount + 1
         /\ \A u \in Tasks : fate'[u] = IF u = t THEN "refused" ELSE fate[u]
         /\ UNCHANGED <<ready, timers, cur, pc, kind, due, now, counter, safeCounter>>
<1>1. /\ fate[t] = "fresh" /\ dropCount' = dropCount + 1
      /\ fate' = [fate EXCEPT ![t] = "refused"]
      /\ UNCHANGED <<ready, timers, cur, pc, kind, due, now, counter, safeCounter>>
  BY DEF Refuse, ioVars, workVars
<1>2. fate \in [Tasks -> Fates]
  BY DEF TypeOK
<1>3. QED
  BY <1>1, <1>2

LEMMA CountInEffect ==
  ASSUME TypeOK, NEW t \in Tasks, CountIn(t)
  PROVE  /\ fate[t] = "checked" /\ counter' = counter + 1
         /\ \A u \in Tasks : fate'[u] = IF u = t THEN "counted" ELSE fate[u]
         /\ UNCHANGED <<ready, timers, cur, pc, kind, due, now, safeCounter, dropCount>>
<1>1. /\ fate[t] = "checked" /\ counter' = counter + 1
      /\ fate' = [fate EXCEPT ![t] = "counted"]
      /\ UNCHANGED <<ready, timers, cur, pc, kind, due, now, safeCounter, dropCount>>
  BY DEF CountIn, ioVars, workVars
<1>2. fate \in [Tasks -> Fates]
  BY DEF TypeOK
<1>3. QED
  BY <1>1, <1>2

(* The wrapper of a handler a worker holds counts it out and calls it.     *)
LEMMA CountOutEffect ==
  ASSUME TypeOK, InOnePlace, NEW w \in Workers, CountOut(w)
  PROVE  \E t \in Tasks :
           /\ t = cur[w] /\ t # NoTask /\ pc[w] = "popped" /\ fate[t] = "accepted"
           /\ \A v \in Workers : v # w => cur[v] # t
           /\ \A v \in Workers : pc'[v] = IF v = w THEN "running" ELSE pc[v]
           /\ IF kind[t] = "unsafe"
              THEN counter' = counter - 1 /\ UNCHANGED safeCounter
              ELSE safeCounter' = safeCounter - 1 /\ UNCHANGED counter
           /\ UNCHANGED <<ready, timers, cur, fate, kind, due, now, dropCount>>
<1>1. PICK t : t = cur[w]
  OBVIOUS
<1>2. /\ pc[w] = "popped" /\ pc' = [pc EXCEPT ![w] = "running"]
      /\ IF kind[t] = "unsafe"
         THEN counter' = counter - 1 /\ UNCHANGED safeCounter
         ELSE safeCounter' = safeCounter - 1 /\ UNCHANGED counter
      /\ UNCHANGED <<ready, timers, cur, fate, kind, due, now, dropCount>>
  BY <1>1 DEF CountOut, Goto, WorkerKeeps
<1>3. cur \in [Workers -> Tasks \cup {NoTask}] /\ pc \in [Workers -> Places]
  BY DEF TypeOK
<1>4. t # NoTask /\ \A v \in Workers : v # w => cur[v] # t
  BY <1>1, <1>2 DEF InOnePlace, Holding
<1>5. t \in Tasks /\ t \in Taken
  BY <1>1, <1>3, <1>4 DEF Taken
<1>6. fate[t] = "accepted"
  BY <1>5 DEF InOnePlace
<1>7. \A v \in Workers : pc'[v] = IF v = w THEN "running" ELSE pc[v]
  BY <1>2, <1>3
<1>8. QED
  BY <1>1, <1>2, <1>4, <1>5, <1>6, <1>7

(* What the other steps leave alone.                                       *)
Quiet == /\ UNCHANGED <<ready, timers, cur, fate, kind, due, counter, safeCounter,
                        dropCount>>
         /\ \A w \in Workers : /\ pc'[w] \in Holding <=> pc[w] \in Holding
                               /\ pc'[w] = "running" <=> pc[w] = "running"

LEMMA QuietSteps ==
  ASSUME TypeOK, \/ Owner \/ Tick \/ UNCHANGED vars
                 \/ \E w \in Workers : Enter(w) \/ Leave(w) \/ Return(w)
  PROVE  Quiet /\ (Tick \/ UNCHANGED now)
<1>1. pc \in [Workers -> Places]
  BY DEF TypeOK
<1>2. CASE \E w \in Workers : Enter(w) \/ Leave(w) \/ Return(w)
  <2>1. PICK w \in Workers : Enter(w) \/ Leave(w) \/ Return(w)
    BY <1>2
  <2>2. /\ pc[w] \notin Holding
        /\ Goto(w, "in") \/ Goto(w, "ret") \/ Goto(w, "out") \/ Goto(w, "done")
        /\ UNCHANGED <<ready, timers, cur, fate, kind, due, now, counter, safeCounter,
                       dropCount>>
    BY <2>1 DEF Enter, Leave, Return, WorkerKeeps, Holding
  <2>3. \A v \in Workers : /\ v # w => pc'[v] = pc[v]
                           /\ pc'[w] \notin Holding
    BY <1>1, <2>2 DEF Goto, Holding
  <2>4. QED
    BY <2>2, <2>3 DEF Quiet, Holding
<1>3. CASE StartAll
  <2>1. /\ \A w \in Workers : pc[w] = "done" /\ pc'[w] = "out"
        /\ UNCHANGED <<ready, timers, cur, fate, kind, due, now, counter, safeCounter,
                       dropCount>>
    BY <1>3 DEF StartAll, AllDone, OwnerKeeps, taskVars
  <2>2. QED
    BY <2>1 DEF Quiet, Holding
<1>4. CASE (Owner /\ ~StartAll) \/ UNCHANGED vars
  <2>1. UNCHANGED <<ready, timers, cur, fate, kind, due, counter, safeCounter, dropCount,
                    pc, now>>
    BY <1>4 DEF Owner, Stop, Reset, DropGuard, Destroy, SetMaxsize, OwnerKeeps, taskVars, vars
  <2>2. QED
    BY <2>1 DEF Quiet
<1>5. CASE Tick
  <2>1. UNCHANGED <<ready, timers, cur, fate, kind, due, counter, safeCounter, dropCount, pc>>
    BY <1>5 DEF Tick, ioVars, taskVars, workVars, sizeVars
  <2>2. QED
    BY <1>5, <2>1 DEF Quiet
<1>6. QED
  BY <1>2, <1>3, <1>4, <1>5

(* All steps, by what they do to a task.                                   *)
LEMMA StepCases ==
  ASSUME TypeOK, InOnePlace, [Next]_vars
  PROVE  \/ \E t \in Tasks : \/ \E tp \in Time : SafePostAt(t, tp) \/ PostAt(t, tp)
                             \/ Refuse(t) \/ CountIn(t) \/ HandOver(t) \/ Expire(t)
         \/ \E w \in Workers : \/ Take(w) \/ CountOut(w)
                               \/ FindNoQueue(w) \/ Finish(w)
         \/ Quiet /\ (Tick \/ UNCHANGED now)
<1>1. CASE Client
  BY <1>1, ClientCases
<1>2. CASE \E t \in Tasks : PostGoesOn(t) \/ Expire(t)
  BY <1>2 DEF PostGoesOn
<1>3. CASE \E w \in Workers : Serve(w) \/ Finish(w)
  <2>1. PICK w \in Workers : Serve(w) \/ Finish(w)
    BY <1>3
  <2>2. CASE Enter(w) \/ Leave(w) \/ Return(w)
    BY <2>2, QuietSteps
  <2>3. CASE Take(w) \/ CountOut(w) \/ FindNoQueue(w) \/ Finish(w)
    BY <2>3
  <2>4. QED
    BY <2>1, <2>2, <2>3 DEF Serve
<1>4. CASE Owner \/ Tick \/ UNCHANGED vars
  BY <1>4, QuietSteps
<1>5. QED
  BY <1>1, <1>2, <1>3, <1>4 DEF Next

(* A wrapper returns only from a handler that its worker holds.            *)
LEMMA WrapperCases ==
  ASSUME NEW w \in Workers, FindNoQueue(w) \/ Finish(w)
  PROVE  /\ pc[w] \in Holding
         /\ \/ FindNoQueue(w) /\ pc[w] = "popped" /\ WrapperReturns(w, "discarded")
            \/ Finish(w) /\ pc[w] = "running" /\ WrapperReturns(w, "finished")
  BY DEF FindNoQueue, Finish, Holding

(* No handler moves where only fates before "accepted" change.             *)
LEMMA NothingMoves ==
  ASSUME InOnePlace, UNCHANGED <<ready, timers, cur>>,
         \A w \in Workers : pc'[w] \in Holding <=> pc[w] \in Holding,
         \A u \in Tasks : fate'[u] = "accepted" <=> fate[u] = "accepted"
  PROVE  InOnePlace'
  BY DEF InOnePlace, Ready, Taken

LEMMA InOnePlaceNext ==
  ASSUME TypeOK, InOnePlace, [Next]_vars
  PROVE  InOnePlace'
<1>0. /\ IsInjective(ready)
      /\ \A v, w \in Workers : cur[v] = cur[w] /\ cur[v] # NoTask => v = w
      /\ \A w \in Workers : cur[w] # NoTask <=> pc[w] \in Holding
      /\ \A u \in Tasks :
           /\ fate[u] = "accepted" <=> u \in timers \/ u \in Ready \/ u \in Taken
           /\ u \in timers => u \notin Ready /\ u \notin Taken
           /\ u \in Ready => u \notin Taken
      /\ NoTask \notin Tasks
  BY TasksAssumption DEF InOnePlace
<1>1. ASSUME NEW t \in Tasks, NEW tp \in Time, SafePostAt(t, tp) \/ PostAt(t, tp)
      PROVE  InOnePlace'
  <2>1. PICK k, next : Offer(t, k, tp, next) /\ next \in {"checked", "counted"}
    BY <1>1 DEF SafePostAt, PostAt
  <2>2. /\ fate[t] = "fresh" /\ UNCHANGED <<ready, timers, cur, pc>>
        /\ \A u \in Tasks : fate'[u] = IF u = t THEN next ELSE fate[u]
    BY <2>1, OfferEffect
  <2>3. QED
    BY <2>1, <2>2, NothingMoves
<1>2. ASSUME NEW t \in Tasks, Refuse(t) \/ CountIn(t)
      PROVE  InOnePlace'
  <2>1. PICK next \in {"refused", "counted"} :
           /\ fate[t] \in {"fresh", "checked"} /\ UNCHANGED <<ready, timers, cur, pc>>
           /\ \A u \in Tasks : fate'[u] = IF u = t THEN next ELSE fate[u]
    BY <1>2, RefuseEffect, CountInEffect
  <2>2. QED
    BY <2>1, NothingMoves
<1>3. ASSUME NEW t \in Tasks, HandOver(t)
      PROVE  InOnePlace'
  <2>1. /\ t \notin timers /\ t \notin Ready /\ t \notin Taken
        /\ IsInjective(ready')
        /\ \A u \in Tasks :
             /\ fate'[u] = IF u = t THEN "accepted" ELSE fate[u]
             /\ u \in timers' <=> u \in timers \/ (u = t /\ due[t] # 0)
             /\ u \in Ready' <=> u \in Ready \/ (u = t /\ due[t] = 0)
        /\ UNCHANGED <<cur, pc>>
    BY <1>3, HandOverEffect
  <2>2. \A u \in Tasks : u \in Taken' <=> u \in Taken
    BY <2>1 DEF Taken
  <2>3. QED
    BY <1>0, <2>1, <2>2 DEF InOnePlace
<1>4. ASSUME NEW t \in Tasks, Expire(t)
      PROVE  InOnePlace'
  <2>1. /\ t \in timers /\ due[t] <= now
        /\ IsInjective(ready')
        /\ \A u \in Tasks : /\ u \in timers' <=> u \in timers /\ u # t
                            /\ u \in Ready' <=> u \in Ready \/ u = t
        /\ UNCHANGED <<fate, cur, pc, kind, due, now, counter, safeCounter, dropCount>>
    BY <1>4, ExpireEffect
  <2>2. \A u \in Tasks : u \in Taken' <=> u \in Taken
    BY <2>1 DEF Taken
  <2>3. QED
    BY <1>0, <2>1, <2>2 DEF InOnePlace
<1>5. ASSUME NEW w \in Workers, Take(w)
      PROVE  InOnePlace'
  <2>1. PICK t \in Tasks :
           /\ t \in Ready /\ t \notin Taken /\ t # NoTask
           /\ cur[w] = NoTask /\ pc[w] = "in"
           /\ IsInjective(ready')
           /\ \A u \in Tasks : u \in Ready' <=> u \in Ready /\ u # t
           /\ \A v \in Workers : /\ cur'[v] = IF v = w THEN t ELSE cur[v]
                                 /\ pc'[v] = IF v = w THEN "popped" ELSE pc[v]
           /\ UNCHANGED <<timers, fate>>
    BY <1>5, TakeEffect
  <2>2. \A u \in Tasks : u \in Taken' <=> u \in Taken \/ u = t
    BY <1>0, <2>1 DEF Taken
  <2>3. \A v \in Workers : cur[v] # t
    BY <2>1 DEF Taken
  <2>4. \A v, x \in Workers : cur'[v] = cur'[x] /\ cur'[v] # NoTask => v = x
    BY <1>0, <2>1, <2>3
  <2>5. \A v \in Workers : cur'[v] # NoTask <=> pc'[v] \in Holding
    BY <1>0, <2>1 DEF Holding
  <2>6. QED
    BY <1>0, <2>1, <2>2, <2>4, <2>5 DEF InOnePlace
<1>6. ASSUME NEW w \in Workers, CountOut(w)
      PROVE  InOnePlace'
  <2>1. /\ pc[w] = "popped" /\ UNCHANGED <<ready, timers, cur, fate>>
        /\ \A v \in Workers : pc'[v] = IF v = w THEN "running" ELSE pc[v]
    BY <1>6, CountOutEffect
  <2>2. QED
    BY <2>1, NothingMoves DEF Holding
<1>7. ASSUME NEW w \in Workers, FindNoQueue(w) \/ Finish(w)
      PROVE  InOnePlace'
  <2>1. PICK end \in {"discarded", "finished"} : WrapperReturns(w, end)
    BY <1>7, WrapperCases
  <2>2. PICK t \in Tasks :
           /\ t = cur[w] /\ t # NoTask /\ fate[t] = "accepted"
           /\ t \notin Ready /\ t \notin timers
           /\ \A v \in Workers : v # w => cur[v] # t
           /\ \A u \in Tasks : fate'[u] = IF u = t THEN end ELSE fate[u]
           /\ \A v \in Workers : /\ cur'[v] = IF v = w THEN NoTask ELSE cur[v]
                                 /\ v # w => pc'[v] = pc[v]
           /\ pc'[w] \notin Holding
           /\ UNCHANGED <<ready, timers, kind, due, now, counter, safeCounter, dropCount>>
    <3>1. pc[w] \in Holding
      BY <1>7, WrapperCases
    <3>2. QED
      BY <2>1, <3>1, WrapperEffect
  <2>3. \A u \in Tasks : u \in Taken' <=> u \in Taken /\ u # t
    BY <1>0, <2>2 DEF Taken
  <2>4. \A v, x \in Workers : cur'[v] = cur'[x] /\ cur'[v] # NoTask => v = x
    BY <1>0, <2>2
  <2>5. \A v \in Workers : cur'[v] # NoTask <=> pc'[v] \in Holding
    BY <1>0, <2>2
  <2>6. Ready' = Ready
    BY <2>2 DEF Ready
  <2>7. \A u \in Tasks : fate'[u] = "accepted" <=> fate[u] = "accepted" /\ u # t
    BY <2>1, <2>2
  <2>8. \A u \in Tasks :
           /\ fate'[u] = "accepted" <=> u \in timers' \/ u \in Ready' \/ u \in Taken'
           /\ u \in timers' => u \notin Ready' /\ u \notin Taken'
           /\ u \in Ready' => u \notin Taken'
    BY <1>0, <2>2, <2>3, <2>6, <2>7
  <2>9. QED
    BY <1>0, <2>2, <2>4, <2>5, <2>8 DEF InOnePlace
<1>8. CASE Quiet
  BY <1>8, NothingMoves DEF Quiet
<1>9. QED
  BY <1>1, <1>2, <1>3, <1>4, <1>5, <1>6, <1>7, <1>8, StepCases

LEMMA PostKnownNext ==
  ASSUME TypeOK, InOnePlace, PostKnown, [Next]_vars
  PROVE  PostKnown'
<1>0. \A u \in Tasks :
        /\ fate[u] = "checked" => kind[u] = "unsafe"
        /\ fate[u] \in {"counted", "accepted", "discarded"} => kind[u] \in Kinds
        /\ fate[u] = "fresh" => due[u] = 0
        /\ u \in Ready \/ u \in Taken => due[u] <= now /\ fate[u] = "accepted"
  BY DEF PostKnown, InOnePlace
<1>1. now \in Nat /\ \A u \in Tasks : due[u] \in Nat
  BY BoundsAssumption DEF TypeOK, Time
<1>2. ASSUME NEW t \in Tasks, NEW tp \in Time, SafePostAt(t, tp) \/ PostAt(t, tp)
      PROVE  PostKnown'
  <2>1. PICK k \in Kinds, next \in {"checked", "counted"} :
           Offer(t, k, tp, next) /\ (next = "checked" => k = "unsafe")
    BY <1>2 DEF SafePostAt, PostAt, Kinds
  <2>2. /\ fate[t] = "fresh"
        /\ \A u \in Tasks : /\ fate'[u] = IF u = t THEN next ELSE fate[u]
                            /\ kind'[u] = IF u = t THEN k ELSE kind[u]
                            /\ u # t => due'[u] = due[u]
        /\ UNCHANGED <<ready, timers, cur, pc, now, counter, dropCount>>
    BY <2>1, OfferEffect
  <2>3. Ready' = Ready /\ Taken' = Taken
    BY <2>2 DEF Ready, Taken
  <2>4. \A u \in Tasks :
          /\ fate'[u] = "checked" => kind'[u] = "unsafe"
          /\ fate'[u] \in {"counted", "accepted", "discarded"} => kind'[u] \in Kinds
          /\ fate'[u] = "fresh" => due'[u] = 0
    BY <1>0, <2>1, <2>2
  <2>5. \A u \in Tasks : u \in Ready' \/ u \in Taken' => due'[u] <= now'
    BY <1>0, <2>2, <2>3
  <2>6. QED
    BY <2>4, <2>5 DEF PostKnown
<1>3. ASSUME NEW t \in Tasks, Refuse(t) \/ CountIn(t)
      PROVE  PostKnown'
  <2>1. PICK next \in {"refused", "counted"} :
           /\ next = "counted" => fate[t] = "checked"
           /\ UNCHANGED <<ready, timers, cur, pc, kind, due, now>>
           /\ \A u \in Tasks : fate'[u] = IF u = t THEN next ELSE fate[u]
    BY <1>3, RefuseEffect, CountInEffect
  <2>2. Ready' = Ready /\ Taken' = Taken
    BY <2>1 DEF Ready, Taken
  <2>3. \A u \in Tasks :
          /\ fate'[u] = "checked" => kind'[u] = "unsafe"
          /\ fate'[u] \in {"counted", "accepted", "discarded"} => kind'[u] \in Kinds
          /\ fate'[u] = "fresh" => due'[u] = 0
    BY <1>0, <2>1 DEF Kinds
  <2>4. QED
    BY <1>0, <2>1, <2>2, <2>3 DEF PostKnown
<1>4. ASSUME NEW t \in Tasks, HandOver(t) \/ Expire(t)
      PROVE  PostKnown'
  <2>1. /\ \A u \in Tasks :
             /\ \/ fate'[u] = fate[u]
                \/ fate[u] = "counted" /\ fate'[u] = "accepted"
             /\ u \in Ready' => u \in Ready \/ (u = t /\ (due[t] = 0 \/ due[t] <= now))
        /\ UNCHANGED <<cur, kind, due, now>>
    BY <1>4, HandOverEffect, ExpireEffect DEF HandOver
  <2>2. Taken' = Taken
    BY <2>1 DEF Taken
  <2>3. \A u \in Tasks :
          /\ fate'[u] = "checked" => kind'[u] = "unsafe"
          /\ fate'[u] \in {"counted", "accepted", "discarded"} => kind'[u] \in Kinds
          /\ fate'[u] = "fresh" => due'[u] = 0
    BY <1>0, <2>1
  <2>4. \A u \in Tasks : u \in Ready' \/ u \in Taken' => due'[u] <= now'
    BY <1>0, <1>1, <2>1, <2>2
  <2>5. QED
    BY <2>3, <2>4 DEF PostKnown
<1>5. ASSUME NEW w \in Workers, Take(w) \/ CountOut(w)
      PROVE  PostKnown'
  <2>1. /\ \A u \in Tasks :
             u \in Ready' \/ u \in Taken' => u \in Ready \/ u \in Taken
        /\ UNCHANGED <<fate, kind, due, now>>
    <3>1. CASE CountOut(w)
      BY <3>1, CountOutEffect DEF Ready, Taken
    <3>2. CASE Take(w)
      <4>1. PICK t \in Tasks :
               /\ t \in Ready
               /\ \A u \in Tasks : u \in Ready' <=> u \in Ready /\ u # t
               /\ \A v \in Workers : cur'[v] = IF v = w THEN t ELSE cur[v]
               /\ UNCHANGED <<fate, kind, due, now>>
        BY <3>2, TakeEffect
      <4>2. QED
        BY <4>1 DEF Taken
    <3>3. QED
      BY <1>5, <3>1, <3>2
  <2>2. QED
    BY <1>0, <2>1 DEF PostKnown
<1>6. ASSUME NEW w \in Workers, FindNoQueue(w) \/ Finish(w)
      PROVE  PostKnown'
  <2>1. PICK end \in {"discarded", "finished"} : WrapperReturns(w, end)
    BY <1>6, WrapperCases
  <2>2. PICK t \in Tasks :
           /\ fate[t] = "accepted"
           /\ \A u \in Tasks : fate'[u] = IF u = t THEN end ELSE fate[u]
           /\ \A v \in Workers : cur'[v] = IF v = w THEN NoTask ELSE cur[v]
           /\ UNCHANGED <<ready, kind, due, now>>
    <3>1. pc[w] \in Holding
      BY <1>6, WrapperCases
    <3>2. QED
      BY <2>1, <3>1, WrapperEffect
  <2>3. Ready' = Ready /\ \A u \in Tasks : u \in Taken' => u \in Taken
    BY <2>2, TasksAssumption DEF Ready, Taken
  <2>4. QED
    BY <1>0, <2>1, <2>2, <2>3 DEF PostKnown
<1>7. CASE Quiet /\ (Tick \/ UNCHANGED now)
  <2>1. UNCHANGED <<fate, kind, due>> /\ Ready' = Ready /\ Taken' = Taken
    BY <1>7 DEF Quiet, Ready, Taken
  <2>2. now <= now' /\ now' \in Nat
    BY <1>1, <1>7 DEF Tick
  <2>3. \A u \in Tasks : u \in Ready' \/ u \in Taken' => due'[u] <= now'
    BY <1>0, <1>1, <2>1, <2>2
  <2>4. QED
    BY <1>0, <2>1, <2>3 DEF PostKnown
<1>8. QED
  BY <1>2, <1>3, <1>4, <1>5, <1>6, <1>7, StepCases

LEMMA PlacesInit ==
  ASSUME Init
  PROVE  InOnePlace /\ PostKnown
<1>1. /\ Ready = {} /\ Taken = {} /\ timers = {} /\ ready = <<>>
      /\ \A t \in Tasks : fate[t] = "fresh" /\ due[t] = 0
      /\ \A w \in Workers : cur[w] = NoTask /\ pc[w] = "out"
  <2>1. \A w \in Workers : cur[w] = NoTask
    BY DEF Init
  <2>2. Taken = {}
    BY <2>1, TasksAssumption DEF Taken
  <2>3. QED
    BY <2>1, <2>2 DEF Init, Ready, Range
<1>2. IsInjective(ready)
  BY <1>1 DEF IsInjective
<1>3. QED
  BY <1>1, <1>2 DEF InOnePlace, PostKnown, Holding

LEMMA PlacesHold == Spec => [](TypeOK /\ InOnePlace /\ PostKnown)
<1>1. Init => TypeOK /\ InOnePlace /\ PostKnown
  BY TypeInit, PlacesInit
<1>2. TypeOK /\ InOnePlace /\ PostKnown /\ [Next]_vars
        => (TypeOK /\ InOnePlace /\ PostKnown)'
  BY TypeNext, InOnePlaceNext, PostKnownNext
<1>3. QED
  BY <1>1, <1>2, PTL DEF Spec

-----------------------------------------------------------------------------
(* The counters.  A task is counted from ++_counter until its handler is   *)
(* under way, and one whose wrapper found no queue is counted for ever.    *)

Live(t) == fate[t] \in {"counted", "accepted", "discarded"} /\ ~Started(t)

Kept(k) == {t \in Tasks : kind[t] = k /\ Counted(t)}

Refused == {t \in Tasks : fate[t] = "refused"}

CountersRight == /\ counter = Cardinality(Kept("unsafe"))
                 /\ safeCounter = Cardinality(Kept("safe"))

DropsRight == dropCount = Cardinality(Refused)

LEMMA AccountingParts == /\ Accounting <=> CountersRight /\ DropsRight
                         /\ Accounting' <=> CountersRight' /\ DropsRight'
  BY DEF Accounting, CountersRight, DropsRight, Kept, Refused

LEMMA CountedLive ==
  ASSUME InOnePlace, NEW t \in Tasks
  PROVE  Counted(t) <=> Live(t)
<1>1. /\ fate[t] = "accepted" <=> t \in timers \/ t \in Ready \/ t \in Taken
      /\ t \in timers => t \notin Ready /\ t \notin Taken
      /\ t \in Ready => t \notin Taken
  BY DEF InOnePlace
<1>2. CASE t \notin Taken
  <2>1. \A w \in Workers : cur[w] # t
    BY <1>2 DEF Taken
  <2>2. QED
    BY <1>1, <1>2, <2>1 DEF Counted, Live, Started
<1>3. CASE t \in Taken
  <2>1. PICK w \in Workers : cur[w] = t
    BY <1>3 DEF Taken
  <2>2. cur[w] # NoTask
    BY <2>1, TasksAssumption
  <2>3. /\ pc[w] = "popped" \/ pc[w] = "running"
        /\ \A v \in Workers : cur[v] = t => v = w
    BY <2>1, <2>2 DEF InOnePlace, Holding
  <2>4. fate[t] = "accepted" /\ t \notin timers /\ t \notin Ready
    BY <1>1, <1>3
  <2>5. Counted(t) <=> pc[w] = "popped"
    BY <2>1, <2>3, <2>4 DEF Counted
  <2>6. Live(t) <=> pc[w] # "running"
    BY <2>1, <2>3, <2>4 DEF Live, Started
  <2>7. QED
    BY <2>3, <2>5, <2>6
<1>4. QED
  BY <1>2, <1>3

LEMMA CountedLiveNext ==
  ASSUME InOnePlace', NEW t \in Tasks
  PROVE  Counted(t)' <=> Live(t)'
<1>1. /\ fate'[t] = "accepted" <=> t \in timers' \/ t \in Ready' \/ t \in Taken'
      /\ t \in timers' => t \notin Ready' /\ t \notin Taken'
      /\ t \in Ready' => t \notin Taken'
  BY DEF InOnePlace
<1>2. CASE t \notin Taken'
  <2>1. \A w \in Workers : cur'[w] # t
    BY <1>2 DEF Taken
  <2>2. QED
    BY <1>1, <1>2, <2>1 DEF Counted, Live, Started
<1>3. CASE t \in Taken'
  <2>1. PICK w \in Workers : cur'[w] = t
    BY <1>3 DEF Taken
  <2>2. cur'[w] # NoTask
    BY <2>1, TasksAssumption
  <2>3. /\ pc'[w] = "popped" \/ pc'[w] = "running"
        /\ \A v \in Workers : cur'[v] = t => v = w
    BY <2>1, <2>2 DEF InOnePlace, Holding
  <2>4. fate'[t] = "accepted" /\ t \notin timers' /\ t \notin Ready'
    BY <1>1, <1>3
  <2>5. Counted(t)' <=> pc'[w] = "popped"
    BY <2>1, <2>3, <2>4 DEF Counted
  <2>6. Live(t)' <=> pc'[w] # "running"
    BY <2>1, <2>3, <2>4 DEF Live, Started
  <2>7. QED
    BY <2>3, <2>5, <2>6
<1>4. QED
  BY <1>2, <1>3

LEMMA KeptFinite ==
  \A k \in Kinds : IsFiniteSet(Kept(k)) /\ Cardinality(Kept(k)) \in Nat
<1> SUFFICES ASSUME NEW k \in Kinds
             PROVE  IsFiniteSet(Kept(k)) /\ Cardinality(Kept(k)) \in Nat
  OBVIOUS
<1>1. Kept(k) \in SUBSET Tasks
  BY DEF Kept
<1>2. QED
  BY <1>1, TasksAssumption, FS_Subset, FS_CardinalityType

(* A step that counts nothing in or out.                                   *)
LEMMA SameCount ==
  ASSUME InOnePlace, InOnePlace', CountersRight, UNCHANGED <<counter, safeCounter>>,
         \A u \in Tasks : /\ Live(u)' <=> Live(u)
                          /\ Live(u) => kind'[u] = kind[u]
  PROVE  CountersRight'
<1>1. \A u \in Tasks : /\ Counted(u)' <=> Counted(u)
                       /\ Counted(u) => kind'[u] = kind[u]
  BY CountedLive, CountedLiveNext
<1>2. Kept("unsafe")' = Kept("unsafe") /\ Kept("safe")' = Kept("safe")
  BY <1>1 DEF Kept
<1>3. QED
  BY <1>2 DEF CountersRight

(* ++_counter or ++_safe_counter.                                          *)
LEMMA OneMore ==
  ASSUME InOnePlace, InOnePlace', CountersRight, NEW t \in Tasks, NEW k \in Kinds,
         ~Live(t), kind'[t] = k,
         \A u \in Tasks : /\ Live(u)' <=> u = t \/ Live(u)
                          /\ u # t => kind'[u] = kind[u],
         counter' = IF k = "unsafe" THEN counter + 1 ELSE counter,
         safeCounter' = IF k = "safe" THEN safeCounter + 1 ELSE safeCounter
  PROVE  CountersRight'
<1>1. /\ \A u \in Tasks : Counted(u)' <=> u = t \/ Counted(u)
      /\ ~Counted(t)
  BY CountedLive, CountedLiveNext
<1>2. \A j \in Kinds : Kept(j)' = IF j = k THEN Kept(j) \cup {t} ELSE Kept(j)
  BY <1>1 DEF Kept
<1>3. t \notin Kept(k) /\ IsFiniteSet(Kept(k))
  BY <1>1, KeptFinite DEF Kept
<1>4. Cardinality(Kept(k) \cup {t}) = Cardinality(Kept(k)) + 1
  BY <1>3, FS_AddElement
<1>5. \A j \in Kinds :
        Cardinality(Kept(j)') = IF j = k THEN Cardinality(Kept(j)) + 1
                                         ELSE Cardinality(Kept(j))
  BY <1>2, <1>4
<1>6. counter' = Cardinality(Kept("unsafe")') /\ safeCounter' = Cardinality(Kept("safe")')
  BY <1>5 DEF CountersRight, Kinds
<1>7. QED
  BY <1>6 DEF CountersRight

(* --_counter or --_safe_counter.                                          *)
LEMMA OneLess ==
  ASSUME InOnePlace, InOnePlace', CountersRight, NEW t \in Tasks, NEW k \in Kinds,
         Live(t), kind[t] = k,
         \A u \in Tasks : /\ Live(u)' <=> u # t /\ Live(u)
                          /\ kind'[u] = kind[u],
         counter' = IF k = "unsafe" THEN counter - 1 ELSE counter,
         safeCounter' = IF k = "safe" THEN safeCounter - 1 ELSE safeCounter
  PROVE  CountersRight'
<1>1. /\ \A u \in Tasks : Counted(u)' <=> u # t /\ Counted(u)
      /\ Counted(t)
  BY CountedLive, CountedLiveNext
<1>2. \A j \in Kinds : Kept(j)' = IF j = k THEN Kept(j) \ {t} ELSE Kept(j)
  BY <1>1 DEF Kept
<1>3. t \in Kept(k) /\ IsFiniteSet(Kept(k))
  BY <1>1, KeptFinite DEF Kept
<1>4. Cardinality(Kept(k) \ {t}) = Cardinality(Kept(k)) - 1
  BY <1>3, FS_RemoveElement
<1>5. \A j \in Kinds :
        Cardinality(Kept(j)') = IF j = k THEN Cardinality(Kept(j)) - 1
                                         ELSE Cardinality(Kept(j))
  BY <1>2, <1>4
<1>6. counter' = Cardinality(Kept("unsafe")') /\ safeCounter' = Cardinality(Kept("safe")')
  BY <1>5 DEF CountersRight, Kinds
<1>7. QED
  BY <1>6 DEF CountersRight

(* What the steps of a worker do to the handlers that are under way.       *)
LEMMA TakeStarts ==
  ASSUME TypeOK, InOnePlace, NEW w \in Workers, Take(w)
  PROVE  /\ \A u \in Tasks : Started(u)' <=> Started(u)
         /\ UNCHANGED <<timers, fate, kind, due, now, counter, safeCounter, dropCount>>
<1>1. PICK t \in Tasks :
        /\ cur[w] = NoTask /\ pc[w] = "in"
        /\ \A v \in Workers : /\ cur'[v] = IF v = w THEN t ELSE cur[v]
                              /\ pc'[v] = IF v = w THEN "popped" ELSE pc[v]
        /\ UNCHANGED <<timers, fate, kind, due, now, counter, safeCounter, dropCount>>
  BY TakeEffect
<1>2. \A u \in Tasks : Started(u)' <=> Started(u)
  BY <1>1 DEF Started
<1>3. QED
  BY <1>1, <1>2

LEMMA CountOutStarts ==
  ASSUME TypeOK, InOnePlace, NEW w \in Workers, CountOut(w)
  PROVE  \E t \in Tasks :
           /\ fate[t] = "accepted" /\ ~Started(t) /\ t \in Taken
           /\ \A u \in Tasks : Started(u)' <=> u = t \/ Started(u)
           /\ IF kind[t] = "unsafe"
              THEN counter' = counter - 1 /\ UNCHANGED safeCounter
              ELSE safeCounter' = safeCounter - 1 /\ UNCHANGED counter
           /\ UNCHANGED <<ready, timers, cur, fate, kind, due, now, dropCount>>
<1>1. PICK t \in Tasks :
        /\ t = cur[w] /\ t # NoTask /\ pc[w] = "popped" /\ fate[t] = "accepted"
        /\ \A v \in Workers : v # w => cur[v] # t
        /\ \A v \in Workers : pc'[v] = IF v = w THEN "running" ELSE pc[v]
        /\ IF kind[t] = "unsafe"
           THEN counter' = counter - 1 /\ UNCHANGED safeCounter
           ELSE safeCounter' = safeCounter - 1 /\ UNCHANGED counter
        /\ UNCHANGED <<ready, timers, cur, fate, kind, due, now, dropCount>>
  BY CountOutEffect
<1>2. ~Started(t) /\ t \in Taken
  BY <1>1 DEF Started, Taken
<1>3. \A u \in Tasks : Started(u)' <=> u = t \/ Started(u)
  BY <1>1 DEF Started
<1>4. QED
  BY <1>1, <1>2, <1>3

LEMMA WrapperStarts ==
  ASSUME TypeOK, InOnePlace, NEW w \in Workers, FindNoQueue(w) \/ Finish(w)
  PROVE  \E t \in Tasks :
           /\ fate[t] = "accepted"
           /\ Started(t) <=> Finish(w)
           /\ \A u \in Tasks : fate'[u] = IF u # t THEN fate[u]
                                          ELSE IF Finish(w) THEN "finished" ELSE "discarded"
           /\ \A u \in Tasks : Started(u)' <=> u # t /\ Started(u)
           /\ UNCHANGED <<ready, timers, kind, due, now, counter, safeCounter, dropCount>>
<1>1. PICK end : /\ WrapperReturns(w, end) /\ pc[w] \in Holding
                 /\ Finish(w) => end = "finished" /\ pc[w] = "running"
                 /\ ~Finish(w) => end = "discarded" /\ pc[w] # "running"
  BY DEF FindNoQueue, Finish, Holding
<1>2. PICK t \in Tasks :
        /\ t = cur[w] /\ t # NoTask /\ fate[t] = "accepted"
        /\ \A v \in Workers : v # w => cur[v] # t
        /\ \A u \in Tasks : fate'[u] = IF u = t THEN end ELSE fate[u]
        /\ \A v \in Workers : /\ cur'[v] = IF v = w THEN NoTask ELSE cur[v]
                              /\ v # w => pc'[v] = pc[v]
        /\ UNCHANGED <<ready, timers, kind, due, now, counter, safeCounter, dropCount>>
  BY <1>1, WrapperEffect
<1>3. Started(t) <=> Finish(w)
  BY <1>1, <1>2 DEF Started
<1>4. \A u \in Tasks : Started(u)' <=> u # t /\ Started(u)
  BY <1>2, TasksAssumption DEF Started
<1>5. QED
  BY <1>1, <1>2, <1>3, <1>4

LEMMA CountersNext ==
  ASSUME TypeOK, InOnePlace, InOnePlace', PostKnown, CountersRight, [Next]_vars
  PROVE  CountersRight'
<1>0. \A u \in Tasks : Started(u) => fate[u] = "accepted"
  BY StartedTaken
<1>1. ASSUME NEW t \in Tasks, NEW tp \in Time, PostAt(t, tp)
      PROVE  CountersRight'
  <2>1. /\ fate[t] = "fresh"
        /\ \A u \in Tasks : /\ fate'[u] = IF u = t THEN "checked" ELSE fate[u]
                            /\ kind'[u] = IF u = t THEN "unsafe" ELSE kind[u]
        /\ UNCHANGED <<cur, pc, counter, safeCounter>>
    BY <1>1, OfferEffect DEF PostAt
  <2>2. \A u \in Tasks : Started(u)' <=> Started(u)
    BY <2>1 DEF Started
  <2>3. \A u \in Tasks : /\ Live(u)' <=> Live(u)
                         /\ Live(u) => kind'[u] = kind[u]
    BY <2>1, <2>2 DEF Live
  <2>4. QED
    BY <2>1, <2>3, SameCount
<1>2. ASSUME NEW t \in Tasks, NEW tp \in Time, SafePostAt(t, tp)
      PROVE  CountersRight'
  <2>1. /\ fate[t] = "fresh"
        /\ \A u \in Tasks : /\ fate'[u] = IF u = t THEN "counted" ELSE fate[u]
                            /\ kind'[u] = IF u = t THEN "safe" ELSE kind[u]
        /\ UNCHANGED <<cur, pc, counter>>
    BY <1>2, OfferEffect DEF SafePostAt
  <2>2. safeCounter' = safeCounter + 1
    BY <1>2 DEF SafePostAt
  <2>3. ~Started(t) /\ \A u \in Tasks : Started(u)' <=> Started(u)
    BY <1>0, <2>1 DEF Started
  <2>4. ~Live(t) /\ \A u \in Tasks : Live(u)' <=> u = t \/ Live(u)
    BY <2>1, <2>3 DEF Live
  <2>5. "safe" \in Kinds
    BY DEF Kinds
  <2>6. QED
    BY <2>1, <2>2, <2>4, <2>5, OneMore
<1>3. ASSUME NEW t \in Tasks, CountIn(t)
      PROVE  CountersRight'
  <2>1. /\ fate[t] = "checked" /\ counter' = counter + 1
        /\ \A u \in Tasks : fate'[u] = IF u = t THEN "counted" ELSE fate[u]
        /\ UNCHANGED <<cur, pc, kind, safeCounter>>
    BY <1>3, CountInEffect
  <2>2. ~Started(t) /\ \A u \in Tasks : Started(u)' <=> Started(u)
    BY <1>0, <2>1 DEF Started
  <2>3. ~Live(t) /\ \A u \in Tasks : Live(u)' <=> u = t \/ Live(u)
    BY <2>1, <2>2 DEF Live
  <2>4. kind[t] = "unsafe" /\ "unsafe" \in Kinds
    BY <2>1 DEF PostKnown, Kinds
  <2>5. QED
    BY <2>1, <2>3, <2>4, OneMore
<1>4. ASSUME NEW t \in Tasks, Refuse(t) \/ HandOver(t) \/ Expire(t)
      PROVE  CountersRight'
  <2>1. /\ UNCHANGED <<cur, pc, kind, counter, safeCounter>>
        /\ \A u \in Tasks : \/ fate'[u] = fate[u]
                            \/ fate[u] = "fresh" /\ fate'[u] = "refused"
                            \/ fate[u] = "counted" /\ fate'[u] = "accepted"
    BY <1>4, RefuseEffect, HandOverEffect, ExpireEffect DEF HandOver
  <2>2. \A u \in Tasks : Started(u)' <=> Started(u)
    BY <2>1 DEF Started
  <2>3. \A u \in Tasks : /\ Live(u)' <=> Live(u)
                         /\ Live(u) => kind'[u] = kind[u]
    BY <2>1, <2>2 DEF Live
  <2>4. QED
    BY <2>1, <2>3, SameCount
<1>5. ASSUME NEW w \in Workers, Take(w)
      PROVE  CountersRight'
  <2>1. /\ \A u \in Tasks : Started(u)' <=> Started(u)
        /\ UNCHANGED <<fate, kind, counter, safeCounter>>
    BY <1>5, TakeStarts
  <2>2. QED
    BY <2>1, SameCount DEF Live
<1>6. ASSUME NEW w \in Workers, CountOut(w)
      PROVE  CountersRight'
  <2>1. PICK t \in Tasks :
           /\ fate[t] = "accepted" /\ ~Started(t)
           /\ \A u \in Tasks : Started(u)' <=> u = t \/ Started(u)
           /\ IF kind[t] = "unsafe"
              THEN counter' = counter - 1 /\ UNCHANGED safeCounter
              ELSE safeCounter' = safeCounter - 1 /\ UNCHANGED counter
           /\ UNCHANGED <<fate, kind>>
    BY <1>6, CountOutStarts
  <2>2. Live(t) /\ \A u \in Tasks : Live(u)' <=> u # t /\ Live(u)
    BY <2>1 DEF Live
  <2>3. kind[t] \in Kinds
    BY <2>1 DEF PostKnown
  <2>4. /\ counter' = IF kind[t] = "unsafe" THEN counter - 1 ELSE counter
        /\ safeCounter' = IF kind[t] = "safe" THEN safeCounter - 1 ELSE safeCounter
    BY <2>1, <2>3 DEF Kinds
  <2>5. QED
    BY <2>1, <2>2, <2>3, <2>4, OneLess
<1>7. ASSUME NEW w \in Workers, FindNoQueue(w) \/ Finish(w)
      PROVE  CountersRight'
  <2>1. PICK t \in Tasks :
           /\ fate[t] = "accepted"
           /\ Started(t) <=> Finish(w)
           /\ \A u \in Tasks : fate'[u] = IF u # t THEN fate[u]
                                          ELSE IF Finish(w) THEN "finished" ELSE "discarded"
           /\ \A u \in Tasks : Started(u)' <=> u # t /\ Started(u)
           /\ UNCHANGED <<kind, counter, safeCounter>>
    BY <1>7, WrapperStarts
  <2>2. \A u \in Tasks : Live(u)' <=> Live(u)
    BY <2>1 DEF Live
  <2>3. QED
    BY <2>1, <2>2, SameCount
<1>8. CASE Quiet
  <2>1. /\ UNCHANGED <<fate, kind, counter, safeCounter>>
        /\ \A u \in Tasks : Started(u)' <=> Started(u)
    BY <1>8 DEF Quiet, Started
  <2>2. QED
    BY <2>1, SameCount DEF Live
<1>9. QED
  BY <1>1, <1>2, <1>3, <1>4, <1>5, <1>6, <1>7, <1>8, StepCases

LEMMA DropsNext ==
  ASSUME TypeOK, InOnePlace, DropsRight, [Next]_vars
  PROVE  DropsRight'
<1>1. ASSUME NEW t \in Tasks, Refuse(t)
      PROVE  DropsRight'
  <2>1. /\ fate[t] = "fresh" /\ dropCount' = dropCount + 1
        /\ \A u \in Tasks : fate'[u] = IF u = t THEN "refused" ELSE fate[u]
    BY <1>1, RefuseEffect
  <2>2. Refused' = Refused \cup {t} /\ t \notin Refused
    BY <2>1 DEF Refused
  <2>3. IsFiniteSet(Refused)
    <3>1. Refused \subseteq Tasks
      BY DEF Refused
    <3>2. QED
      BY <3>1, TasksAssumption, FS_Subset
  <2>4. Cardinality(Refused') = Cardinality(Refused) + 1
    BY <2>2, <2>3, FS_AddElement
  <2>5. QED
    BY <2>1, <2>4 DEF DropsRight
<1>2. ASSUME UNCHANGED dropCount,
             \A u \in Tasks : fate'[u] = "refused" <=> fate[u] = "refused"
      PROVE  DropsRight'
  BY <1>2 DEF DropsRight, Refused
<1>3. ASSUME NEW t \in Tasks, NEW tp \in Time, SafePostAt(t, tp) \/ PostAt(t, tp)
      PROVE  DropsRight'
  <2>1. PICK k, next : Offer(t, k, tp, next) /\ next \in {"checked", "counted"}
    BY <1>3 DEF SafePostAt, PostAt
  <2>2. /\ fate[t] = "fresh" /\ UNCHANGED dropCount
        /\ \A u \in Tasks : fate'[u] = IF u = t THEN next ELSE fate[u]
    BY <2>1, OfferEffect
  <2>3. QED
    BY <1>2, <2>1, <2>2
<1>4. ASSUME NEW t \in Tasks, CountIn(t) \/ HandOver(t) \/ Expire(t)
      PROVE  DropsRight'
  <2>1. /\ UNCHANGED dropCount
        /\ \A u \in Tasks : \/ fate'[u] = fate[u]
                            \/ fate[u] = "checked" /\ fate'[u] = "counted"
                            \/ fate[u] = "counted" /\ fate'[u] = "accepted"
    BY <1>4, CountInEffect, HandOverEffect, ExpireEffect DEF HandOver
  <2>2. QED
    BY <1>2, <2>1
<1>5. ASSUME NEW w \in Workers, Take(w) \/ CountOut(w)
      PROVE  DropsRight'
  <2>1. UNCHANGED <<fate, dropCount>>
    BY <1>5, TakeStarts, CountOutStarts
  <2>2. QED
    BY <1>2, <2>1
<1>6. ASSUME NEW w \in Workers, FindNoQueue(w) \/ Finish(w)
      PROVE  DropsRight'
  <2>1. PICK t \in Tasks :
           /\ fate[t] = "accepted" /\ UNCHANGED dropCount
           /\ \A u \in Tasks : fate'[u] = IF u # t THEN fate[u]
                                          ELSE IF Finish(w) THEN "finished" ELSE "discarded"
    BY <1>6, WrapperStarts
  <2>2. QED
    BY <1>2, <2>1
<1>7. CASE Quiet
  BY <1>2, <1>7 DEF Quiet
<1>8. QED
  BY <1>1, <1>3, <1>4, <1>5, <1>6, <1>7, StepCases

(* The posts and the wrappers keep the counters of the asio queue without  *)
(* any lock: _counter and _safe_counter are the numbers of the tasks that  *)
(* have been counted in and not yet out, _drop_count that of all refusals. *)
THEOREM CountersAreRight == Spec => []Accounting
<1>1. Init => CountersRight /\ DropsRight
  <2> SUFFICES ASSUME Init PROVE CountersRight /\ DropsRight
    OBVIOUS
  <2>1. InOnePlace /\ \A t \in Tasks : fate[t] = "fresh"
    BY PlacesInit DEF Init
  <2>2. \A t \in Tasks : ~Counted(t)
    BY <2>1, CountedLive DEF Live
  <2>3. Kept("unsafe") = {} /\ Kept("safe") = {} /\ Refused = {}
    BY <2>1, <2>2 DEF Kept, Refused
  <2>4. QED
    BY <2>3, FS_EmptySet DEF Init, CountersRight, DropsRight
<1>2. /\ TypeOK /\ InOnePlace /\ PostKnown /\ CountersRight /\ DropsRight
      /\ InOnePlace' /\ [Next]_vars
      => CountersRight' /\ DropsRight'
  BY CountersNext, DropsNext
<1>3. CountersRight /\ DropsRight => Accounting
  BY AccountingParts
<1>4. QED
  BY <1>1, <1>2, <1>3, PlacesHold, PTL DEF Spec

-----------------------------------------------------------------------------
(* The queue implements TaskQueue.                                         *)

LEMMA StatusOf ==
  /\ \A t \in Tasks : statusBar[t] = IF Started(t) THEN "started"
                                     ELSE IF fate[t] = "accepted" THEN "pending"
                                     ELSE IF fate[t] \in {"checked", "counted"} THEN "fresh"
                                     ELSE fate[t]
  /\ \A t \in Tasks : dueBar[t] = IF fate[t] \in {"checked", "counted"} THEN 0 ELSE due[t]
  /\ statusBar = [t \in Tasks |-> statusBar[t]] /\ dueBar = [t \in Tasks |-> dueBar[t]]
  BY DEF statusBar, dueBar, MidPost

LEMMA StatusOfNext ==
  /\ \A t \in Tasks : statusBar'[t] = IF Started(t)' THEN "started"
                                      ELSE IF fate'[t] = "accepted" THEN "pending"
                                      ELSE IF fate'[t] \in {"checked", "counted"} THEN "fresh"
                                      ELSE fate'[t]
  /\ \A t \in Tasks : dueBar'[t] = IF fate'[t] \in {"checked", "counted"} THEN 0 ELSE due'[t]
  /\ statusBar' = [t \in Tasks |-> statusBar'[t]] /\ dueBar' = [t \in Tasks |-> dueBar'[t]]
  BY DEF statusBar, dueBar, MidPost

(* A step that concerns the status of one task.                            *)
LEMMA BarBecomes ==
  ASSUME NEW STATE t, t \in Tasks, NEW CONSTANT from, NEW CONSTANT to,
         statusBar[t] = from, statusBar'[t] = to, UNCHANGED now,
         \A u \in Tasks : u # t => fate'[u] = fate[u] /\ (Started(u)' <=> Started(u))
  PROVE  Abstract!Become(t, from, to)
<1>1. ASSUME NEW u \in Tasks, u # t PROVE statusBar'[u] = statusBar[u]
  <2>1. fate'[u] = fate[u] /\ (Started(u)' <=> Started(u))
    BY <1>1
  <2>2. statusBar[u] = IF Started(u) THEN "started"
                       ELSE IF fate[u] = "accepted" THEN "pending"
                       ELSE IF fate[u] \in {"checked", "counted"} THEN "fresh"
                       ELSE fate[u]
    BY StatusOf
  <2>3. statusBar'[u] = IF Started(u)' THEN "started"
                        ELSE IF fate'[u] = "accepted" THEN "pending"
                        ELSE IF fate'[u] \in {"checked", "counted"} THEN "fresh"
                        ELSE fate'[u]
    BY StatusOfNext
  <2>4. QED
    BY <2>1, <2>2, <2>3
<1>2. statusBar' = [statusBar EXCEPT ![t] = to]
  BY <1>1, StatusOf, StatusOfNext
<1>3. QED
  BY <1>2 DEF Abstract!Become

(* What has begun but is not handed over, TaskQueue does not see.          *)
LEMMA StillRefines ==
  ASSUME UNCHANGED now,
         \A u \in Tasks : statusBar'[u] = statusBar[u] /\ dueBar'[u] = dueBar[u]
  PROVE  UNCHANGED Abstract!vars
<1>1. statusBar' = statusBar /\ dueBar' = dueBar
  BY StatusOf, StatusOfNext
<1>2. QED
  BY <1>1 DEF Abstract!vars

LEMMA BeginRefines ==
  ASSUME TypeOK, InOnePlace, PostKnown, NEW t \in Tasks,
         \/ \E tp \in Time : SafePostAt(t, tp) \/ PostAt(t, tp)
         \/ CountIn(t) \/ Expire(t)
  PROVE  UNCHANGED Abstract!vars
<1>0. \A u \in Tasks : fate[u] = "fresh" => due[u] = 0 /\ ~Started(u)
  BY StartedTaken DEF PostKnown
<1>1. CASE CountIn(t) \/ Expire(t)
  <2>1. /\ UNCHANGED <<cur, pc, due, now>>
        /\ \A u \in Tasks : \/ fate'[u] = fate[u]
                            \/ fate[u] = "checked" /\ fate'[u] = "counted"
    BY <1>1, CountInEffect, ExpireEffect
  <2>2. \A u \in Tasks : Started(u)' <=> Started(u)
    BY <2>1 DEF Started
  <2>3. \A u \in Tasks : statusBar'[u] = statusBar[u] /\ dueBar'[u] = dueBar[u]
    BY <2>1, <2>2, StatusOf, StatusOfNext
  <2>4. QED
    BY <2>1, <2>3, StillRefines
<1>2. ASSUME NEW tp \in Time, SafePostAt(t, tp) \/ PostAt(t, tp)
      PROVE  UNCHANGED Abstract!vars
  <2>1. PICK k, next : Offer(t, k, tp, next) /\ next \in {"checked", "counted"}
    BY <1>2 DEF SafePostAt, PostAt
  <2>2. /\ fate[t] = "fresh"
        /\ \A u \in Tasks : /\ fate'[u] = IF u = t THEN next ELSE fate[u]
                            /\ u # t => due'[u] = due[u]
        /\ UNCHANGED <<cur, pc, now>>
    BY <2>1, OfferEffect
  <2>3. \A u \in Tasks : Started(u)' <=> Started(u)
    BY <2>2 DEF Started
  <2>4. \A u \in Tasks : u # t => statusBar'[u] = statusBar[u] /\ dueBar'[u] = dueBar[u]
    BY <2>2, <2>3, StatusOf, StatusOfNext
  <2>5. /\ statusBar[t] = "fresh" /\ dueBar[t] = 0
        /\ statusBar'[t] = "fresh" /\ dueBar'[t] = 0
    BY <1>0, <2>1, <2>2, <2>3, StatusOf, StatusOfNext
  <2>6. QED
    BY <2>2, <2>4, <2>5, StillRefines
<1>3. QED
  BY <1>1, <1>2

(* asio::post() or async_wait() is the moment a task is accepted.          *)
LEMMA HandOverRefines ==
  ASSUME TypeOK, InOnePlace, PostKnown, NEW t \in Tasks, HandOver(t)
  PROVE  Abstract!Accept(t)
<1>1. /\ fate[t] = "counted" /\ UNCHANGED <<cur, pc, due, now>>
      /\ \A u \in Tasks : fate'[u] = IF u = t THEN "accepted" ELSE fate[u]
  BY HandOverEffect DEF HandOver
<1>2. ~Started(t) /\ \A u \in Tasks : Started(u)' <=> Started(u)
  BY <1>1, StartedTaken DEF Started
<1>3. statusBar[t] = "fresh" /\ statusBar'[t] = "pending"
  BY <1>1, <1>2, StatusOf, StatusOfNext
<1>4. Abstract!Become(t, "fresh", "pending")
  BY <1>1, <1>2, <1>3, BarBecomes
<1>5. dueBar' = [dueBar EXCEPT ![t] = due[t]]
  <2>1. \A u \in Tasks : dueBar'[u] = IF u = t THEN due[t] ELSE dueBar[u]
    BY <1>1, StatusOf, StatusOfNext
  <2>2. QED
    BY <2>1, StatusOf, StatusOfNext
<1>6. due[t] \in 0..MaxTime
  BY DEF TypeOK, Time
<1>7. QED
  BY <1>4, <1>5, <1>6 DEF Abstract!Accept

LEMMA DueKept ==
  ASSUME UNCHANGED due,
         \A u \in Tasks :
           fate'[u] \in {"checked", "counted"} <=> fate[u] \in {"checked", "counted"}
  PROVE  UNCHANGED dueBar
<1>1. \A u \in Tasks : dueBar'[u] = dueBar[u]
  BY StatusOf, StatusOfNext
<1>2. QED
  BY <1>1, StatusOf, StatusOfNext

LEMMA RefuseRefines ==
  ASSUME TypeOK, InOnePlace, NEW t \in Tasks, Refuse(t)
  PROVE  Abstract!Refuse(t)
<1>1. /\ fate[t] = "fresh" /\ UNCHANGED <<cur, pc, due, now>>
      /\ \A u \in Tasks : fate'[u] = IF u = t THEN "refused" ELSE fate[u]
  BY RefuseEffect
<1>2. ~Started(t) /\ \A u \in Tasks : Started(u)' <=> Started(u)
  BY <1>1, StartedTaken DEF Started
<1>3. statusBar[t] = "fresh" /\ statusBar'[t] = "refused"
  BY <1>1, <1>2, StatusOf, StatusOfNext
<1>4. Abstract!Become(t, "fresh", "refused")
  BY <1>1, <1>2, <1>3, BarBecomes
<1>5. UNCHANGED dueBar
  BY <1>1, DueKept
<1>6. QED
  BY <1>4, <1>5 DEF Abstract!Refuse

(* The wrapper's call of the handler is its start, and it is not early.    *)
LEMMA CountOutRefines ==
  ASSUME TypeOK, InOnePlace, PostKnown, NEW w \in Workers, CountOut(w)
  PROVE  \E t \in Tasks : Abstract!Start(t)
<1>1. PICK t \in Tasks :
        /\ fate[t] = "accepted" /\ ~Started(t) /\ t \in Taken
        /\ \A u \in Tasks : Started(u)' <=> u = t \/ Started(u)
        /\ UNCHANGED <<fate, due, now>>
  BY CountOutStarts
<1>2. statusBar[t] = "pending" /\ statusBar'[t] = "started"
  BY <1>1, StatusOf, StatusOfNext
<1>3. Abstract!Become(t, "pending", "started")
  BY <1>1, <1>2, BarBecomes
<1>4. dueBar[t] <= now
  BY <1>1, StatusOf DEF PostKnown
<1>5. UNCHANGED dueBar
  BY <1>1, DueKept
<1>6. QED
  BY <1>3, <1>4, <1>5 DEF Abstract!Start

LEMMA WrapperRefines ==
  ASSUME TypeOK, InOnePlace, NEW w \in Workers, FindNoQueue(w) \/ Finish(w)
  PROVE  \E t \in Tasks : Abstract!Finish(t) \/ Abstract!Discard(t)
<1>1. PICK t \in Tasks :
        /\ fate[t] = "accepted"
        /\ Started(t) <=> Finish(w)
        /\ \A u \in Tasks : fate'[u] = IF u # t THEN fate[u]
                                       ELSE IF Finish(w) THEN "finished" ELSE "discarded"
        /\ \A u \in Tasks : Started(u)' <=> u # t /\ Started(u)
        /\ UNCHANGED <<due, now>>
  BY WrapperStarts
<1>2. UNCHANGED dueBar
  BY <1>1, DueKept
<1>3. CASE Finish(w)
  <2>1. statusBar[t] = "started" /\ statusBar'[t] = "finished"
    BY <1>1, <1>3, StatusOf, StatusOfNext
  <2>2. Abstract!Become(t, "started", "finished")
    BY <1>1, <2>1, BarBecomes
  <2>3. QED
    BY <1>2, <2>2 DEF Abstract!Finish
<1>4. CASE ~Finish(w)
  <2>1. statusBar[t] = "pending" /\ statusBar'[t] = "discarded"
    BY <1>1, <1>4, StatusOf, StatusOfNext
  <2>2. Abstract!Become(t, "pending", "discarded")
    BY <1>1, <2>1, BarBecomes
  <2>3. QED
    BY <1>2, <2>2 DEF Abstract!Discard
<1>5. QED
  BY <1>3, <1>4

LEMMA QuietRefines ==
  ASSUME Quiet, Tick \/ UNCHANGED now
  PROVE  Abstract!Tick \/ UNCHANGED Abstract!vars
<1>1. /\ UNCHANGED <<fate, due>>
      /\ \A u \in Tasks : Started(u)' <=> Started(u)
  BY DEF Quiet, Started
<1>2. \A u \in Tasks : statusBar'[u] = statusBar[u] /\ dueBar'[u] = dueBar[u]
  BY <1>1, StatusOf, StatusOfNext
<1>3. statusBar' = statusBar /\ dueBar' = dueBar
  BY <1>2, StatusOf, StatusOfNext
<1>4. CASE Tick
  BY <1>3, <1>4 DEF Tick, Abstract!Tick
<1>5. CASE UNCHANGED now
  BY <1>2, <1>5, StillRefines
<1>6. QED
  BY <1>4, <1>5

LEMMA NextRefines ==
  ASSUME TypeOK, InOnePlace, PostKnown, [Next]_vars
  PROVE  Abstract!Next \/ UNCHANGED Abstract!vars
<1>1. CASE \E t \in Tasks : \/ \E tp \in Time : SafePostAt(t, tp) \/ PostAt(t, tp)
                            \/ CountIn(t) \/ Expire(t)
  BY <1>1, BeginRefines
<1>2. CASE \E t \in Tasks : Refuse(t) \/ HandOver(t)
  BY <1>2, RefuseRefines, HandOverRefines DEF Abstract!Next
<1>3. CASE \E w \in Workers : Take(w)
  <2>1. /\ UNCHANGED <<fate, due, now>>
        /\ \A u \in Tasks : Started(u)' <=> Started(u)
    BY <1>3, TakeStarts
  <2>2. \A u \in Tasks : statusBar'[u] = statusBar[u] /\ dueBar'[u] = dueBar[u]
    BY <2>1, StatusOf, StatusOfNext
  <2>3. QED
    BY <2>1, <2>2, StillRefines
<1>4. CASE \E w \in Workers : CountOut(w)
  BY <1>4, CountOutRefines DEF Abstract!Next
<1>5. CASE \E w \in Workers : FindNoQueue(w) \/ Finish(w)
  BY <1>5, WrapperRefines DEF Abstract!Next
<1>6. CASE Quiet /\ (Tick \/ UNCHANGED now)
  BY <1>6, QuietRefines DEF Abstract!Next
<1>7. QED
  BY <1>1, <1>2, <1>3, <1>4, <1>5, <1>6, StepCases

LEMMA InitRefines == Init => Abstract!Init
<1> SUFFICES ASSUME Init PROVE Abstract!Init
  OBVIOUS
<1>1. \A t \in Tasks : fate[t] = "fresh" /\ due[t] = 0 /\ ~Started(t)
  BY DEF Init, Started
<1>2. \A t \in Tasks : statusBar[t] = "fresh" /\ dueBar[t] = 0
  BY <1>1, StatusOf
<1>3. QED
  BY <1>2, StatusOf DEF Init, Abstract!Init

(* asio_queue keeps the promise of TaskQueue, although its posts are three *)
(* steps: a handler is accepted or refused once, started at most once and  *)
(* not before its time, and leaves unstarted only when the queue has gone. *)
THEOREM QueueImplementsTaskQueue == Spec => ImplementsTaskQueue
<1>1. TypeOK /\ InOnePlace /\ PostKnown /\ [Next]_vars => [Abstract!Next]_(Abstract!vars)
  BY NextRefines
<1>2. QED
  BY <1>1, InitRefines, PlacesHold, PTL DEF Spec, ImplementsTaskQueue, Abstract!Spec
================================================================================
