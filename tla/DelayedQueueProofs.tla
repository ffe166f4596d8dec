-------------------------- MODULE DelayedQueueProofs --------------------------
(* Proofs about DelayedQueue, for any tasks, workers, limits and clock.    *)
EXTENDS DelayedQueue, SequenceTheorems, FiniteSetTheorems, TLAPS

-----------------------------------------------------------------------------
(* What a sequence holds after a put at its end or a take from its front.  *)

(* Append adds one element, and repeats none if that one is new.           *)
LEMMA AppendRange ==
  ASSUME NEW S, NEW q \in Seq(S), NEW x \in S
  PROVE  /\ Append(q, x) \in Seq(S)
         /\ Range(Append(q, x)) = Range(q) \cup {x}
         /\ IsInjective(q) /\ x \notin Range(q) => IsInjective(Append(q, x))
<1>1. PICK a : a = Append(q, x)
  OBVIOUS
<1>2. /\ a \in Seq(S) /\ Len(q) \in Nat /\ DOMAIN q = 1..Len(q) /\ DOMAIN a = 1..(Len(q) + 1)
      /\ \A i \in 1..Len(q) : a[i] = q[i]
      /\ a[Len(q) + 1] = x
  BY <1>1, AppendProperties, LenProperties
<1>3. DOMAIN a = DOMAIN q \cup {Len(q) + 1} /\ Len(q) + 1 \notin DOMAIN q
  BY <1>2
<1>4. QED
  BY <1>1, <1>2, <1>3 DEF Range, IsInjective

(* The tail leaves out the head, and nothing else if none is repeated.     *)
LEMMA TailRange ==
  ASSUME NEW S, NEW q \in Seq(S), q # <<>>
  PROVE  /\ Head(q) \in S /\ Tail(q) \in Seq(S)
         /\ Range(q) = Range(Tail(q)) \cup {Head(q)}
         /\ IsInjective(q) => IsInjective(Tail(q)) /\ Head(q) \notin Range(Tail(q))
<1>1. PICK r : r = Tail(q)
  OBVIOUS
<1>2. /\ Head(q) \in S /\ Head(q) = q[1] /\ r \in Seq(S)
      /\ Len(q) \in Nat \ {0} /\ DOMAIN q = 1..Len(q) /\ DOMAIN r = 1..(Len(q) - 1)
      /\ \A i \in DOMAIN r : r[i] = q[i + 1]
  BY <1>1, HeadTailProperties, LenProperties, EmptySeq
<1>3. /\ \A i \in DOMAIN r : i + 1 \in DOMAIN q /\ i + 1 # 1
      /\ \A i, j \in DOMAIN r : i + 1 = j + 1 => i = j
      /\ \A i \in DOMAIN q : i = 1 \/ \E j \in DOMAIN r : i = j + 1
  <2>1. \A i \in DOMAIN q \ {1} : i - 1 \in DOMAIN r /\ i = (i - 1) + 1
    BY <1>2
  <2>2. QED
    BY <1>2, <2>1
<1>4. Range(q) = Range(r) \cup {q[1]}
  BY <1>2, <1>3 DEF Range
<1>5. IsInjective(q) => IsInjective(r) /\ q[1] \notin Range(r)
  BY <1>2, <1>3 DEF Range, IsInjective
<1>6. QED
  BY <1>1, <1>2, <1>4, <1>5

-----------------------------------------------------------------------------
(* Types.                                                                  *)

(* The tail of a non-empty sequence, and its head.                         *)
LEMMA HeadTail ==
  ASSUME NEW S, NEW q \in Seq(S), q # <<>>
  PROVE  Head(q) \in S /\ Tail(q) \in Seq(S)
  BY HeadTailProperties

LEMMA ForeverType == Forever \in Alarms /\ Time \subseteq Alarms
  BY BoundsAssumption DEF Forever, Alarms, Time

(* A wakeup respects the types of what it changes.                         *)
LEMMA WakeType ==
  ASSUME TypeOK, NEW STATE S, Wake(S)
  PROVE  /\ pc' \in [Workers -> Places]
         /\ deadline' \in [Workers -> Alarms]
<1>1. "awake" \in Places
  BY DEF Places
<1>2. pc \in [Workers -> Places] /\ deadline \in [Workers -> Alarms]
  BY DEF TypeOK
<1>3. QED
  BY <1>1, <1>2, ForeverType DEF Wake

LEMMA NotifyType ==
  ASSUME TypeOK, NotifyOne
  PROVE  /\ pc' \in [Workers -> Places]
         /\ deadline' \in [Workers -> Alarms]
<1>1. CASE Asleep = {}
  BY <1>1 DEF NotifyOne, TypeOK
<1>2. CASE Asleep # {}
  <2>1. PICK w \in Asleep : Wake({w})
    BY <1>2 DEF NotifyOne
  <2>2. QED
    BY <2>1, WakeType
<1>3. QED
  BY <1>1, <1>2

(* The accepting half of the posts.                                        *)
LEMMA AdmitType ==
  ASSUME TypeOK, NEW t \in Tasks, NEW k \in Kinds, NEW STATE tp, tp \in Time,
         Admit(t, k, tp), que' \in Seq(Tasks), dque' \subseteq Tasks
  PROVE  TypeOK'
<1>1. /\ pc' \in [Workers -> Places]
      /\ deadline' \in [Workers -> Alarms]
  BY NotifyType DEF Admit
<1>2. fate' \in [Tasks -> Fates]
  BY DEF Admit, TypeOK, Fates
<1>3. kind' \in [Tasks -> Kinds \cup {"none"}] /\ due' \in [Tasks -> Time]
  BY DEF Admit, TypeOK
<1>4. counter' \in Int /\ safeCounter' \in Int
  <2>1. counter \in Int /\ safeCounter \in Int
    BY DEF TypeOK
  <2>2. /\ counter' = counter + 1 \/ counter' = counter
        /\ safeCounter' = safeCounter + 1 \/ safeCounter' = safeCounter
    BY Zenon DEF Admit
  <2>3. QED
    BY <2>1, <2>2
<1>5. UNCHANGED <<cur, now, loopExit, maxsize, dropCount, lock, ctl>>
  BY DEF Admit
<1>6. QED
  BY <1>1, <1>2, <1>3, <1>4, <1>5 DEF TypeOK

LEMMA PushType ==
  ASSUME TypeOK, NEW t \in Tasks, NEW k \in Kinds
  PROVE  /\ PushReady(t, k) => TypeOK'
         /\ \A tp \in Time : PushDelayed(t, k, tp) => TypeOK'
<1>1. 0 \in Time
  BY BoundsAssumption DEF Time
<1>2. ASSUME PushReady(t, k) PROVE TypeOK'
  <2>1. que' \in Seq(Tasks) /\ dque' \subseteq Tasks
    BY <1>2, AppendProperties DEF PushReady, TypeOK
  <2>2. QED
    BY <1>1, <1>2, <2>1, AdmitType DEF PushReady
<1>3. ASSUME NEW tp \in Time, PushDelayed(t, k, tp) PROVE TypeOK'
  <2>1. que' \in Seq(Tasks) /\ dque' \subseteq Tasks
    BY <1>3 DEF PushDelayed, TypeOK
  <2>2. QED
    BY <1>3, <2>1, AdmitType DEF PushDelayed
<1>4. QED
  BY <1>2, <1>3

(* Whatever a client calls, the queue takes a task or refuses it.          *)
LEMMA ClientCases ==
  ASSUME TypeOK, Client
  PROVE  \E t \in Tasks :
           \/ \E k \in Kinds : /\ k = "unsafe" => Room
                               /\ \/ PushReady(t, k)
                                 \/ \E tp \in Time : PushDelayed(t, k, tp)
           \/ \E hasDrop \in BOOLEAN : Refuse(t, hasDrop)
<1>1. PICK t \in Tasks :
        \/ SafePost(t) \/ Post(t)
        \/ \E tp \in Time : SafePostAt(t, tp) \/ PostAt(t, tp)
        \/ \E d \in 0..(MaxTime - now) : SafeDelayedPost(t, d) \/ DelayedPost(t, d)
        \/ \E hasDrop \in BOOLEAN : Refuse(t, hasDrop)
  BY Zenon DEF Client
<1> DEFINE Safe == PushReady(t, "safe") \/ \E tp \in Time : PushDelayed(t, "safe", tp)
           Unsafe == /\ Room
                     /\ \/ PushReady(t, "unsafe")
                        \/ \E tp \in Time : PushDelayed(t, "unsafe", tp)
<1>2. SUFFICES Safe \/ Unsafe \/ \E hasDrop \in BOOLEAN : Refuse(t, hasDrop)
  BY Zenon DEF Kinds
<1>3. CASE SafePost(t) \/ Post(t)
  BY <1>3, Zenon DEF SafePost, Post
<1>4. CASE \E tp \in Time : SafePostAt(t, tp) \/ PostAt(t, tp)
  BY <1>4, Zenon DEF SafePostAt, PostAt
<1>5. ASSUME NEW d \in 0..(MaxTime - now),
             SafeDelayedPost(t, d) \/ DelayedPost(t, d)
      PROVE  Safe \/ Unsafe
  <2>1. now + d \in Time
    <3>1. now \in 0..MaxTime
      BY DEF TypeOK, Time
    <3>2. now + d \in 0..MaxTime
      BY <3>1, BoundsAssumption
    <3>3. QED
      BY <3>2 DEF Time
  <2>2. CASE SafeDelayedPost(t, d)
    BY <2>1, <2>2, Zenon DEF SafeDelayedPost, SafePost, SafePostAt
  <2>3. CASE DelayedPost(t, d)
    BY <2>1, <2>3, Zenon DEF DelayedPost, Post, PostAt
  <2>4. QED
    BY <1>5, <2>2, <2>3
<1>6. QED
  BY <1>1, <1>3, <1>4, <1>5, Zenon

(* The jumps of a worker respect the types.                                *)
LEMMA GotoType ==
  ASSUME TypeOK, NEW w \in Workers, NEW STATE l, l \in Places, Goto(w, l)
  PROVE  pc' \in [Workers -> Places]
  BY DEF TypeOK, Goto

LEMMA EarliestType ==
  /\ Earliest(dque) \subseteq dque
  /\ Due \subseteq dque
  BY DEF Earliest, Due

LEMMA TakeType ==
  ASSUME TypeOK, NEW w \in Workers, NEW STATE q, q \in Seq(Tasks),
         NEW STATE d, d \in SUBSET Tasks, Take(w, q, d)
  PROVE  /\ que' \in Seq(Tasks) /\ dque' \subseteq Tasks
         /\ cur' \in [Workers -> Tasks \cup {NoTask}]
         /\ pc' \in [Workers -> Places]
<1>1. dque' \subseteq Tasks
  BY DEF Take
<1>2. CASE q = <<>>
  <2>1. UNCHANGED <<que, cur>> /\ (Goto(w, "ret") \/ Goto(w, "wait"))
    BY <1>2, Zenon DEF Take
  <2>2. QED
    BY <1>1, <2>1, GotoType DEF TypeOK, Places
<1>3. CASE q # <<>>
  <2>1. que' = Tail(q) /\ cur' = [cur EXCEPT ![w] = Head(q)] /\ Goto(w, "popped")
    BY <1>3, Zenon DEF Take
  <2>2. pc' \in [Workers -> Places]
    BY <2>1, GotoType DEF Places
  <2>3. Tail(q) \in Seq(Tasks) /\ Head(q) \in Tasks
    BY <1>3, HeadTail
  <2>4. QED
    BY <1>1, <2>1, <2>2, <2>3 DEF TypeOK
<1>4. QED
  BY <1>2, <1>3

LEMMA ServeType ==
  ASSUME TypeOK, NEW w \in Workers, Serve(w) \/ Finish(w) \/ SpuriousWakeup(w)
  PROVE  TypeOK'
<1> USE DEF TypeOK, WorkerKeeps, workVars, sizeVars, taskVars
<1>1. CASE Enter(w)
  BY <1>1 DEF Enter, Places, Goto
<1>2. CASE LoopCheck(w)
  BY <1>2 DEF LoopCheck, Places, Goto
<1>3. CASE PollOne(w)
  <2>1. PICK q \in Seq(Tasks), d \in SUBSET Tasks : Take(w, q, d)
    <3>1. CASE Due = {} /\ Take(w, que, dque)
      BY <3>1
    <3>2. ASSUME NEW t \in Due, Take(w, Append(que, t), dque \ {t})
          PROVE  \E q \in Seq(Tasks), d \in SUBSET Tasks : Take(w, q, d)
      <4>1. t \in Tasks /\ dque \ {t} \in SUBSET Tasks
        BY EarliestType
      <4>2. Append(que, t) \in Seq(Tasks)
        BY <4>1, AppendProperties
      <4>3. QED
        BY <3>2, <4>1, <4>2
    <3>3. QED
      BY <1>3, <3>1, <3>2 DEF PollOne
  <2>2. /\ que' \in Seq(Tasks) /\ dque' \subseteq Tasks
        /\ cur' \in [Workers -> Tasks \cup {NoTask}]
        /\ pc' \in [Workers -> Places]
    BY <2>1, TakeType
  <2>3. QED
    BY <1>3, <2>2 DEF PollOne
<1>4. CASE CountOut(w)
  <2>1. pc' \in [Workers -> Places]
    BY <1>4 DEF CountOut, Goto, Places
  <2>2. counter' \in Int /\ safeCounter' \in Int
    <3>1. \/ counter' = counter - 1 /\ safeCounter' = safeCounter
          \/ safeCounter' = safeCounter - 1 /\ counter' = counter
      BY <1>4, Zenon DEF CountOut
    <3>2. counter \in Int /\ safeCounter \in Int
      OBVIOUS
    <3> HIDE DEF TypeOK
    <3>3. QED
      BY <3>1, <3>2
  <2>3. QED
    BY <1>4, <2>1, <2>2 DEF CountOut
<1>5. CASE RunWait(w)
  <2>1. pc' \in [Workers -> Places]
    BY <1>5 DEF RunWait, Goto, Places
  <2>2. deadline' \in [Workers -> Alarms]
    BY <1>5, EarliestType, ForeverType DEF RunWait
  <2>3. QED
    BY <1>5, <2>1, <2>2 DEF RunWait
<1>6. CASE Timeout(w) \/ SpuriousWakeup(w)
  <2>1. Wake({w}) /\ WorkerKeeps /\ UNCHANGED <<que, dque, fate, cur, sizeVars>>
    BY <1>6 DEF Timeout, SpuriousWakeup
  <2>2. QED
    BY <2>1, WakeType
<1>7. CASE WakeUp(w)
  BY <1>7 DEF WakeUp, Places, Goto
<1>8. CASE Return(w)
  BY <1>8 DEF Return, Places, Goto
<1>9. CASE Finish(w)
  BY <1>9 DEF Finish, Places, Goto, Fates
<1>10. QED
  BY <1>1, <1>2, <1>3, <1>4, <1>5, <1>6, <1>7, <1>8, <1>9 DEF Serve

LEMMA OwnerType ==
  ASSUME TypeOK, Owner
  PROVE  TypeOK'
<1> USE DEF TypeOK, ResetKeeps, workVars, sizeVars, taskVars
<1>1. CASE Stop
  <2>1. Wake(Asleep)
    BY <1>1 DEF Stop
  <2>2. QED
    BY <1>1, <2>1, WakeType DEF Stop
<1>2. CASE StartAll
  BY <1>2 DEF StartAll, Places
<1>3. CASE ResetFlags
  BY <1>3 DEF ResetFlags
<1>4. CASE ResetTestQue \/ ResetTestDelayed
  BY <1>4 DEF ResetTestQue, ResetTestDelayed, ResetTest
<1>5. CASE ResetPopQue
  <2>1. que' \in Seq(Tasks) /\ fate' \in [Tasks -> Fates]
    <3>1. CASE que = <<>>
      BY <1>5, <3>1 DEF ResetPopQue
    <3>2. CASE que # <<>>
      <4>1. que' = Tail(que) /\ fate' = [fate EXCEPT ![Head(que)] = "discarded"]
        BY <1>5, <3>2, Zenon DEF ResetPopQue, Discard
      <4>2. que' \in Seq(Tasks)
        BY <3>2, <4>1, HeadTail
      <4>3. fate' \in [Tasks -> Fates]
        BY <4>1 DEF Fates
      <4>4. QED
        BY <4>2, <4>3
    <3>3. QED
      BY <3>1, <3>2
  <2>2. ctl' \in {"idle", "test que", "pop que", "test dque", "pop dque", "corrupt"}
    BY <1>5 DEF ResetPopQue
  <2>3. QED
    BY <1>5, <2>1, <2>2 DEF ResetPopQue
<1>6. CASE ResetPopDelayed
  BY <1>6, EarliestType DEF ResetPopDelayed, Discard, Fates
<1>7. CASE \E n \in Maxsizes : SetMaxsize(n)
  BY <1>7 DEF SetMaxsize
<1>8. QED
  BY <1>1, <1>2, <1>3, <1>4, <1>5, <1>6, <1>7 DEF Owner, ResetStep

LEMMA TypeInit == Init => TypeOK
<1> SUFFICES ASSUME Init PROVE TypeOK
  OBVIOUS
<1> USE DEF Init
<1>1. que \in Seq(Tasks) /\ dque \subseteq Tasks
  BY EmptySeq
<1>2. 0 \in Time
  BY BoundsAssumption DEF Time
<1>3. due \in [Tasks -> Time] /\ now \in Time
  BY <1>2
<1>4. kind \in [Tasks -> Kinds \cup {"none"}] /\ fate \in [Tasks -> Fates]
  BY DEF Fates
<1>5. /\ cur \in [Workers -> Tasks \cup {NoTask}]
      /\ pc \in [Workers -> Places]
      /\ deadline \in [Workers -> Alarms]
  BY ForeverType DEF Places
<1>6. counter \in Int /\ safeCounter \in Int /\ dropCount \in Nat
  OBVIOUS
<1>7. /\ loopExit \in BOOLEAN /\ maxsize \in Maxsizes
      /\ lock \in Tasks \cup {NoTask}
      /\ ctl \in {"idle", "test que", "pop que", "test dque", "pop dque", "corrupt"}
  BY Zenon
<1>8. QED
  BY <1>1, <1>3, <1>4, <1>5, <1>6, <1>7, Zenon DEF TypeOK

LEMMA TypeNext ==
  ASSUME TypeOK, [Next]_vars
  PROVE  TypeOK'
<1>1. CASE Client
  <2>1. PICK t \in Tasks :
          \/ \E k \in Kinds : PushReady(t, k) \/ \E tp \in Time : PushDelayed(t, k, tp)
          \/ \E hasDrop \in BOOLEAN : Refuse(t, hasDrop)
    BY <1>1, ClientCases
  <2>2. ASSUME NEW hasDrop \in BOOLEAN, Refuse(t, hasDrop)
        PROVE  TypeOK'
    <3>1. fate' \in [Tasks -> Fates] /\ dropCount' \in Nat
      <4>1. fate' = [fate EXCEPT ![t] = "refused"] /\ dropCount' = dropCount + 1
        BY <2>2 DEF Refuse
      <4>2. fate \in [Tasks -> Fates] /\ dropCount \in Nat
        BY DEF TypeOK
      <4>3. QED
        BY <4>1, <4>2 DEF Fates
    <3>2. lock' \in Tasks \cup {NoTask}
      BY <2>2, Zenon DEF Refuse
    <3>3. UNCHANGED <<que, dque, due, kind, workVars, now, loopExit, sizeVars,
                      maxsize, ctl>>
      BY <2>2 DEF Refuse
    <3>4. QED
      BY <3>1, <3>2, <3>3 DEF TypeOK, workVars, sizeVars
  <2>3. QED
    BY <2>1, <2>2, PushType
<1>2. CASE Worker
  BY <1>2, ServeType DEF Worker
<1>3. CASE Owner
  BY <1>3, OwnerType
<1>4. CASE DropReturns
  BY <1>4 DEF TypeOK, DropReturns, taskVars, workVars, sizeVars
<1>5. CASE Tick
  <2>1. now' \in Time
    <3>1. now \in 0..MaxTime
      BY DEF TypeOK, Time
    <3>2. now < MaxTime /\ now' = now + 1
      BY <1>5 DEF Tick
    <3>3. now' \in 0..MaxTime
      BY <3>1, <3>2, BoundsAssumption
    <3>4. QED
      BY <3>3 DEF Time
  <2>2. QED
    BY <1>5, <2>1 DEF TypeOK, Tick, taskVars, workVars, sizeVars
<1>6. CASE UNCHANGED vars
  BY <1>6 DEF TypeOK, vars
<1>7. QED
  BY <1>1, <1>2, <1>3, <1>4, <1>5, <1>6 DEF Next

(* Every variable keeps its type: the clock stays in its bounds, a         *)
(* deadline is a time or "never", a worker holds a task or nothing.        *)
THEOREM TypeCorrect == Spec => []TypeOK
  BY TypeInit, TypeNext, PTL DEF Spec

-----------------------------------------------------------------------------
(* OnePlace and NotEarly.                                                  *)

Holding == {"popped", "running"}

(* A step that moves no handler and sends no worker into or out of one.    *)
Still == /\ UNCHANGED <<que, dque, fate, cur>>
         /\ \A w \in Workers : pc'[w] \in Holding <=> pc[w] \in Holding

LEMMA StillOnePlace ==
  ASSUME OnePlace, Still
  PROVE  OnePlace'
  BY DEF OnePlace, Still, Holding, Ready, Taken

LEMMA WakeStill ==
  ASSUME TypeOK, NEW STATE S, S \subseteq Asleep, Wake(S)
  PROVE  \A w \in Workers : /\ pc'[w] \in Holding <=> pc[w] \in Holding
                            /\ pc'[w] # pc[w] => pc[w] = "asleep" /\ pc'[w] = "awake"
  BY DEF TypeOK, Wake, Asleep, Holding

LEMMA NotifyStill ==
  ASSUME TypeOK, NotifyOne
  PROVE  \A w \in Workers : /\ pc'[w] \in Holding <=> pc[w] \in Holding
                            /\ pc'[w] # pc[w] => pc[w] = "asleep" /\ pc'[w] = "awake"
<1>1. CASE Asleep = {}
  BY <1>1 DEF NotifyOne
<1>2. CASE Asleep # {}
  <2>1. PICK w \in Asleep : Wake({w})
    BY <1>2 DEF NotifyOne
  <2>2. QED
    BY <2>1, WakeStill
<1>3. QED
  BY <1>1, <1>2

(* A fresh task is nowhere, an accepted one is put in one place.           *)
LEMMA PushOnePlace ==
  ASSUME TypeOK, OnePlace, NEW t \in Tasks, NEW k \in Kinds
  PROVE  /\ PushReady(t, k) => OnePlace'
         /\ \A tp \in Time : PushDelayed(t, k, tp) => OnePlace'
<1>1. fate[t] = "fresh" => t \notin dque /\ t \notin Ready /\ t \notin Taken
  BY DEF OnePlace
<1>2. ASSUME NEW STATE tp, Admit(t, k, tp)
      PROVE  /\ fate' = [fate EXCEPT ![t] = "accepted"]
             /\ UNCHANGED cur
             /\ \A w \in Workers : pc'[w] \in Holding <=> pc[w] \in Holding
  BY <1>2, NotifyStill DEF Admit
<1>3. ASSUME PushReady(t, k) PROVE OnePlace'
  <2>1. fate[t] = "fresh" /\ que' = Append(que, t) /\ UNCHANGED dque /\ Admit(t, k, 0)
    BY <1>3 DEF PushReady, MayOffer
  <2>2. Range(que') = Range(que) \cup {t} /\ IsInjective(que')
    <3>1. que \in Seq(Tasks) /\ IsInjective(que) /\ t \notin Range(que)
      BY <1>1, <2>1 DEF TypeOK, OnePlace, Ready
    <3>2. QED
      BY <2>1, <3>1, AppendRange
  <2>3. fate \in [Tasks -> Fates]
    BY DEF TypeOK
  <2>4. \A u \in Tasks :
          /\ fate'[u] = IF u = t THEN "accepted" ELSE fate[u]
          /\ u \in Ready' <=> u = t \/ u \in Ready
          /\ u \in dque' <=> u \in dque
          /\ u \in Taken' <=> u \in Taken
    BY <1>2, <2>1, <2>2, <2>3 DEF Ready, Taken
  <2>5. \A u \in Tasks :
          /\ fate'[u] = "accepted" <=> u \in dque' \/ u \in Ready' \/ u \in Taken'
          /\ u \in dque' => u \notin Ready' /\ u \notin Taken'
          /\ u \in Ready' => u \notin Taken'
    BY <1>1, <2>1, <2>4 DEF OnePlace
  <2>6. QED
    BY <1>2, <2>1, <2>2, <2>5 DEF OnePlace, Holding
<1>4. ASSUME NEW tp \in Time, PushDelayed(t, k, tp) PROVE OnePlace'
  <2>1. fate[t] = "fresh" /\ dque' = dque \cup {t} /\ UNCHANGED que /\ Admit(t, k, tp)
    BY <1>4 DEF PushDelayed, MayOffer
  <2>2. fate \in [Tasks -> Fates]
    BY DEF TypeOK
  <2>3. \A u \in Tasks :
          /\ fate'[u] = IF u = t THEN "accepted" ELSE fate[u]
          /\ u \in Ready' <=> u \in Ready
          /\ u \in dque' <=> u = t \/ u \in dque
          /\ u \in Taken' <=> u \in Taken
    BY <1>2, <2>1, <2>2 DEF Ready, Taken
  <2>4. \A u \in Tasks :
          /\ fate'[u] = "accepted" <=> u \in dque' \/ u \in Ready' \/ u \in Taken'
          /\ u \in dque' => u \notin Ready' /\ u \notin Taken'
          /\ u \in Ready' => u \notin Taken'
    BY <1>1, <2>1, <2>3 DEF OnePlace
  <2>5. QED
    BY <1>2, <2>1, <2>4 DEF OnePlace, Holding
<1>5. QED
  BY <1>3, <1>4

(* Taking the first of the ready tasks, once the due one has joined them.  *)
LEMMA TakeOnePlace ==
  ASSUME TypeOK, OnePlace, NEW w \in Workers, pc[w] = "poll", UNCHANGED fate,
         NEW STATE q, q \in Seq(Tasks), NEW STATE d, d \in SUBSET Tasks, Take(w, q, d),
         IsInjective(q), d \cap Range(q) = {},
         d \cup Range(q) = dque \cup Range(que), Range(que) \subseteq Range(q)
  PROVE  /\ OnePlace'
         /\ Range(que') \subseteq Range(q)
         /\ \A v \in Workers : cur'[v] = cur[v] \/ cur'[v] \in Range(q)
<1>1. \A u \in Tasks : (u \in d \/ u \in Range(q)) <=> (u \in dque \/ u \in Ready)
  BY DEF Ready
<1>2. cur[w] = NoTask
  BY DEF OnePlace
<1>3. CASE q = <<>>
  <2>1. Range(q) = {}
    BY <1>3 DEF Range
  <2>2. /\ UNCHANGED <<que, cur>> /\ dque' = d
        /\ Goto(w, "ret") \/ Goto(w, "wait")
    BY <1>3, Zenon DEF Take
  <2>3. d = dque
    BY <2>1
  <2>4. Still
    BY <2>2, <2>3 DEF Still, Holding, Goto, TypeOK
  <2>5. QED
    BY <2>1, <2>2, <2>4, StillOnePlace
<1>4. CASE q # <<>>
  <2>1. /\ que' = Tail(q) /\ cur' = [cur EXCEPT ![w] = Head(q)]
        /\ Goto(w, "popped") /\ dque' = d
    BY <1>4, Zenon DEF Take
  <2>2. /\ Head(q) \in Tasks /\ IsInjective(que')
        /\ Range(q) = Range(que') \cup {Head(q)}
        /\ Head(q) \notin Range(que')
    BY <1>4, <2>1, TailRange
  <2>3. /\ fate[Head(q)] = "accepted" /\ Head(q) \notin Taken
        /\ Head(q) \notin d
    BY <1>1, <2>2 DEF OnePlace
  <2>4. /\ cur \in [Workers -> Tasks \cup {NoTask}] /\ pc \in [Workers -> Places]
        /\ NoTask \notin Tasks
    BY TasksAssumption DEF TypeOK
  <2>5. \A v \in Workers : cur'[v] = IF v = w THEN Head(q) ELSE cur[v]
    BY <2>1, <2>4
  <2>6. \A v \in Workers : pc'[v] = IF v = w THEN "popped" ELSE pc[v]
    BY <2>1, <2>4 DEF Goto
  <2>7. \A u \in Tasks : u \in Taken <=> \E v \in Workers : cur[v] = u
    BY <2>4 DEF Taken, Range
  <2>8. \A u \in Tasks : u \in Taken' <=> u = Head(q) \/ u \in Taken
    <3>1. cur' \in [Workers -> Tasks \cup {NoTask}]
      BY <2>1, <2>2, <2>4
    <3>2. \A u \in Tasks : u \in Taken' <=> \E v \in Workers : cur'[v] = u
      BY <3>1 DEF Taken, Range
    <3>3. QED
      BY <1>2, <2>4, <2>5, <2>7, <3>2
  <2>9. \A v, z \in Workers : cur'[v] = cur'[z] /\ cur'[v] # NoTask => v = z
    BY <2>2, <2>3, <2>5, <2>7 DEF OnePlace
  <2>10. \A u \in Tasks :
           /\ fate'[u] = "accepted" <=> u \in dque' \/ u \in Ready' \/ u \in Taken'
           /\ u \in dque' => u \notin Ready' /\ u \notin Taken'
           /\ u \in Ready' => u \notin Taken'
    BY <1>1, <2>1, <2>2, <2>3, <2>8 DEF OnePlace, Ready
  <2>11. \A v \in Workers : cur'[v] # NoTask <=> pc'[v] \in {"popped", "running"}
    BY <2>2, <2>4, <2>5, <2>6 DEF OnePlace
  <2>12. OnePlace'
    BY <2>2, <2>9, <2>10, <2>11 DEF OnePlace
  <2>13. QED
    BY <2>2, <2>5, <2>12
<1>5. QED
  BY <1>3, <1>4

(* poll_one_() keeps both invariants.                                      *)
LEMMA PollOnePlace ==
  ASSUME TypeOK, OnePlace, NEW w \in Workers, PollOne(w)
  PROVE  OnePlace' /\ (NotEarly => NotEarly')
<1> DEFINE Ripe(S) == \A t \in S : due[t] <= now
<1>1. PICK q \in Seq(Tasks), d \in SUBSET Tasks :
        /\ Take(w, q, d)
        /\ IsInjective(q) /\ d \cap Range(q) = {}
        /\ d \cup Range(q) = dque \cup Range(que) /\ Range(que) \subseteq Range(q)
        /\ Ripe(Range(que)) => Ripe(Range(q))
  <2>1. que \in Seq(Tasks) /\ dque \in SUBSET Tasks
    BY DEF TypeOK
  <2>2. IsInjective(que) /\ dque \cap Range(que) = {}
    BY <2>1 DEF OnePlace, Ready
  <2>3. CASE Due = {} /\ Take(w, que, dque)
    BY <2>1, <2>2, <2>3, Zenon
  <2>4. ASSUME NEW t \in Due, Take(w, Append(que, t), dque \ {t})
        PROVE  \E q \in Seq(Tasks), d \in SUBSET Tasks :
                 /\ Take(w, q, d)
                 /\ IsInjective(q) /\ d \cap Range(q) = {}
                 /\ d \cup Range(q) = dque \cup Range(que) /\ Range(que) \subseteq Range(q)
                 /\ Ripe(Range(que)) => Ripe(Range(q))
    <3>1. t \in dque /\ t \in Tasks /\ due[t] <= now
      BY <2>1 DEF Due, Earliest
    <3>2. /\ Append(que, t) \in Seq(Tasks) /\ IsInjective(Append(que, t))
          /\ Range(Append(que, t)) = Range(que) \cup {t}
      BY <2>1, <2>2, <3>1, AppendRange
    <3>3. /\ (dque \ {t}) \cap Range(Append(que, t)) = {}
          /\ (dque \ {t}) \cup Range(Append(que, t)) = dque \cup Range(que)
          /\ dque \ {t} \in SUBSET Tasks
          /\ Range(que) \subseteq Range(Append(que, t))
          /\ Ripe(Range(que)) => Ripe(Range(Append(que, t)))
      BY <2>1, <2>2, <3>1, <3>2
    <3>4. QED
      BY <2>4, <3>2, <3>3, Zenon
  <2>5. QED
    BY <2>3, <2>4, Zenon DEF PollOne
<1>2. /\ pc[w] = "poll" /\ UNCHANGED <<fate, due, now>>
  BY DEF PollOne, WorkerKeeps
<1>3. /\ OnePlace'
      /\ Range(que') \subseteq Range(q)
      /\ \A v \in Workers : cur'[v] = cur[v] \/ cur'[v] \in Range(q)
  BY <1>1, <1>2, TakeOnePlace
<1>4. ASSUME NotEarly PROVE NotEarly'
  <2>1. que \in Seq(Tasks) /\ Range(que) \subseteq Tasks /\ cur \in [Workers -> Tasks \cup {NoTask}]
    <3>1. que \in Seq(Tasks) /\ cur \in [Workers -> Tasks \cup {NoTask}]
      BY DEF TypeOK
    <3>2. QED
      BY <3>1, LenProperties DEF Range
  <2>2. Ripe(Range(q))
    BY <1>1, <1>4, <2>1 DEF NotEarly, Ready
  <2>3. cur' \in [Workers -> Tasks \cup {NoTask}]
    BY TypeNext, Zenon DEF TypeOK, Next, Worker, Serve
  <2>4. \A t \in Tasks : t \in Taken' => t \in Taken \/ t \in Range(q)
    BY <1>3, <2>1, <2>3 DEF Taken, Range
  <2>5. QED
    BY <1>2, <1>3, <1>4, <2>2, <2>4 DEF NotEarly, Ready
<1>5. QED
  BY <1>3, <1>4

LEMMA FinishOnePlace ==
  ASSUME TypeOK, OnePlace, NEW w \in Workers, Finish(w)
  PROVE  OnePlace'
<1> DEFINE x == cur[w]
<1>1. /\ pc[w] = "running" /\ UNCHANGED <<que, dque>>
      /\ fate' = [fate EXCEPT ![x] = "finished"]
      /\ cur' = [cur EXCEPT ![w] = NoTask]
      /\ Goto(w, "check") \/ Goto(w, "ret")
  BY DEF Finish
<1>2. /\ cur \in [Workers -> Tasks \cup {NoTask}] /\ pc \in [Workers -> Places]
      /\ fate \in [Tasks -> Fates] /\ NoTask \notin Tasks
  BY TasksAssumption DEF TypeOK
<1>3. x \in Tasks
  BY <1>1, <1>2 DEF OnePlace
<1>4. \A v \in Workers : cur'[v] = IF v = w THEN NoTask ELSE cur[v]
  BY <1>1, <1>2
<1>5. \A v \in Workers : pc'[v] \in Holding <=> v # w /\ pc[v] \in Holding
  BY <1>1, <1>2 DEF Goto, Holding
<1>6. \A u \in Tasks : fate'[u] = IF u = x THEN "finished" ELSE fate[u]
  BY <1>1, <1>2, <1>3
<1>7. \A u \in Tasks : /\ u \in Taken <=> \E v \in Workers : cur[v] = u
                       /\ u \in Taken' <=> \E v \in Workers : cur'[v] = u
  <2>1. cur' \in [Workers -> Tasks \cup {NoTask}]
    BY <1>1, <1>2
  <2>2. QED
    BY <1>2, <2>1 DEF Taken, Range
<1>8. \A u \in Tasks : u \in Taken' <=> u # x /\ u \in Taken
  <2>1. \A v \in Workers : v # w => cur[v] # x
    BY <1>2, <1>3 DEF OnePlace
  <2> HIDE DEF x
  <2>2. cur[w] = x
    BY DEF x
  <2>3. ASSUME NEW u \in Tasks, u \in Taken' PROVE u # x /\ u \in Taken
    <3>1. PICK v \in Workers : cur'[v] = u
      BY <1>7, <2>3
    <3>2. v # w /\ cur[v] = u
      BY <1>2, <1>4, <3>1
    <3>3. QED
      BY <1>7, <2>1, <3>2
  <2>4. ASSUME NEW u \in Tasks, u # x, u \in Taken PROVE u \in Taken'
    <3>1. PICK v \in Workers : cur[v] = u
      BY <1>7, <2>4
    <3>2. cur'[v] = u
      BY <1>4, <2>2, <2>4, <3>1
    <3>3. QED
      BY <1>7, <3>2
  <2>5. QED
    BY <2>3, <2>4
<1>9. \A u \in Tasks : /\ u \in dque' <=> u \in dque
                       /\ u \in Ready' <=> u \in Ready
  BY <1>1 DEF Ready
<1> HIDE DEF x
<1>10. x \in Taken
  <2>1. cur[w] = x
    BY DEF x
  <2>2. QED
    BY <1>3, <1>7, <2>1
<1>11. \A u \in Tasks :
         /\ fate'[u] = "accepted" <=> u \in dque' \/ u \in Ready' \/ u \in Taken'
         /\ u \in dque' => u \notin Ready' /\ u \notin Taken'
         /\ u \in Ready' => u \notin Taken'
  <2>1. \A u \in Tasks :
          /\ fate[u] = "accepted" <=> u \in dque \/ u \in Ready \/ u \in Taken
          /\ u \in dque => u \notin Ready /\ u \notin Taken
          /\ u \in Ready => u \notin Taken
    BY DEF OnePlace
  <2> SUFFICES ASSUME NEW u \in Tasks
               PROVE  /\ fate'[u] = "accepted" <=> u \in dque' \/ u \in Ready' \/ u \in Taken'
                      /\ u \in dque' => u \notin Ready' /\ u \notin Taken'
                      /\ u \in Ready' => u \notin Taken'
    OBVIOUS
  <2>2. CASE u = x
    BY <1>3, <1>6, <1>8, <1>9, <1>10, <2>1, <2>2
  <2>3. CASE u # x
    BY <1>6, <1>8, <1>9, <2>1, <2>3
  <2>4. QED
    BY <2>2, <2>3
<1>12. /\ \A v, z \in Workers : cur'[v] = cur'[z] /\ cur'[v] # NoTask => v = z
       /\ \A v \in Workers : cur'[v] # NoTask <=> pc'[v] \in {"popped", "running"}
  BY <1>4, <1>5 DEF OnePlace, Holding
<1>13. QED
  BY <1>1, <1>11, <1>12 DEF OnePlace

(* reset() throws away one task at a time.                                 *)
LEMMA DiscardOnePlace ==
  ASSUME TypeOK, OnePlace, NEW STATE t, t \in Tasks, t \in dque \/ t \in Ready, Discard(t),
         UNCHANGED <<cur, pc>>,
         IsInjective(que'), \A u \in Tasks : /\ u \in dque' <=> u # t /\ u \in dque
                                             /\ u \in Ready' <=> u # t /\ u \in Ready
  PROVE  OnePlace'
<1>1. \A u \in Tasks : fate'[u] = IF u = t THEN "discarded" ELSE fate[u]
  BY DEF Discard, TypeOK
<1>2. \A u \in Tasks : u \in Taken' <=> u \in Taken
  BY DEF Taken
<1>3. \A u \in Tasks :
        /\ fate'[u] = "accepted" <=> u \in dque' \/ u \in Ready' \/ u \in Taken'
        /\ u \in dque' => u \notin Ready' /\ u \notin Taken'
        /\ u \in Ready' => u \notin Taken'
  <2>1. \A u \in Tasks :
          /\ fate[u] = "accepted" <=> u \in dque \/ u \in Ready \/ u \in Taken
          /\ u \in dque => u \notin Ready /\ u \notin Taken
          /\ u \in Ready => u \notin Taken
    BY DEF OnePlace
  <2> SUFFICES ASSUME NEW u \in Tasks
               PROVE  /\ fate'[u] = "accepted" <=> u \in dque' \/ u \in Ready' \/ u \in Taken'
                      /\ u \in dque' => u \notin Ready' /\ u \notin Taken'
                      /\ u \in Ready' => u \notin Taken'
    OBVIOUS
  <2>2. CASE u = t
    BY <1>1, <1>2, <2>1, <2>2
  <2>3. CASE u # t
    BY <1>1, <1>2, <2>1, <2>3
  <2>4. QED
    BY <2>2, <2>3
<1>4. QED
  BY <1>3 DEF OnePlace

LEMMA ResetOnePlace ==
  ASSUME TypeOK, OnePlace, ResetPopQue \/ ResetPopDelayed
  PROVE  /\ OnePlace'
         /\ \A u \in Tasks : (u \in Ready' => u \in Ready) /\ (u \in dque' => u \in dque)
<1>0. que \in Seq(Tasks) /\ IsInjective(que) /\ UNCHANGED <<cur, pc>>
  BY DEF TypeOK, OnePlace, ResetPopQue, ResetPopDelayed, ResetKeeps, workVars
<1>1. CASE ResetPopQue /\ que # <<>>
  <2>1. que' = Tail(que) /\ Discard(Head(que)) /\ UNCHANGED dque
    BY <1>1, Zenon DEF ResetPopQue
  <2>2. /\ Head(que) \in Tasks /\ IsInjective(que')
        /\ Range(que) = Range(que') \cup {Head(que)}
        /\ Head(que) \notin Range(que')
    BY <1>0, <1>1, <2>1, TailRange
  <2>3. Head(que) \in Ready /\ Head(que) \notin dque
    BY <2>2 DEF Ready, OnePlace
  <2>4. \A u \in Tasks : /\ u \in dque' <=> u # Head(que) /\ u \in dque
                         /\ u \in Ready' <=> u # Head(que) /\ u \in Ready
    BY <2>1, <2>2, <2>3 DEF Ready
  <2>5. QED
    BY <1>0, <2>1, <2>2, <2>3, <2>4, DiscardOnePlace
<1>2. CASE ResetPopDelayed /\ dque # {}
  <2>1. PICK t \in Earliest(dque) : dque' = dque \ {t} /\ Discard(t)
    BY <1>2, Zenon DEF ResetPopDelayed
  <2>2. UNCHANGED que /\ t \in Tasks /\ t \in dque /\ t \notin Ready
    BY <1>2, EarliestType DEF ResetPopDelayed, TypeOK, OnePlace
  <2>3. \A u \in Tasks : /\ u \in dque' <=> u # t /\ u \in dque
                         /\ u \in Ready' <=> u # t /\ u \in Ready
    BY <2>1, <2>2 DEF Ready
  <2>4. QED
    BY <1>0, <2>1, <2>2, <2>3, DiscardOnePlace
<1>3. CASE (ResetPopQue /\ que = <<>>) \/ (ResetPopDelayed /\ dque = {})
  <2>1. UNCHANGED <<que, dque, fate, cur, pc>>
    BY <1>0, <1>3 DEF ResetPopQue, ResetPopDelayed
  <2>2. Still
    BY <2>1 DEF Still
  <2>3. QED
    BY <2>1, <2>2, StillOnePlace DEF Ready
<1>4. QED
  BY <1>1, <1>2, <1>3

LEMMA RefuseOnePlace ==
  ASSUME TypeOK, OnePlace, NEW t \in Tasks, NEW hasDrop \in BOOLEAN, Refuse(t, hasDrop)
  PROVE  OnePlace'
<1>1. fate[t] = "fresh" /\ UNCHANGED <<que, dque, cur, pc>>
  BY DEF Refuse, MayOffer, workVars
<1>2. \A u \in Tasks : fate'[u] = IF u = t THEN "refused" ELSE fate[u]
  BY DEF Refuse, TypeOK
<1>3. \A u \in Tasks : fate'[u] = "accepted" <=> fate[u] = "accepted"
  BY <1>1, <1>2
<1>4. QED
  BY <1>1, <1>3 DEF OnePlace, Ready, Taken

(* What a worker does, but for the steps that take or give back a handler. *)
LEMMA ServeStill ==
  ASSUME TypeOK, NEW w \in Workers, Serve(w) \/ SpuriousWakeup(w), ~PollOne(w)
  PROVE  Still /\ UNCHANGED <<due, now>>
<1>1. pc \in [Workers -> Places]
  BY DEF TypeOK
<1>2. CASE Enter(w)
  BY <1>1, <1>2 DEF Enter, Goto, Still, Holding, WorkerKeeps
<1>3. CASE LoopCheck(w)
  BY <1>1, <1>3 DEF LoopCheck, Goto, Still, Holding, WorkerKeeps
<1>4. CASE CountOut(w)
  BY <1>1, <1>4 DEF CountOut, Goto, Still, Holding, WorkerKeeps
<1>5. CASE RunWait(w)
  <2>1. /\ pc[w] = "wait" /\ UNCHANGED <<que, dque, fate, cur, due, now>>
        /\ Goto(w, "check") \/ Goto(w, "asleep")
    BY <1>5 DEF RunWait, WorkerKeeps
  <2>2. QED
    BY <1>1, <2>1 DEF Goto, Still, Holding
<1>6. CASE Timeout(w)
  <2>1. {w} \subseteq Asleep /\ Wake({w}) /\ UNCHANGED <<que, dque, fate, cur, due, now>>
    BY <1>6 DEF Timeout, WorkerKeeps, Asleep
  <2>2. QED
    BY <2>1, WakeStill DEF Still
<1>7. CASE SpuriousWakeup(w)
  <2>1. {w} \subseteq Asleep /\ Wake({w}) /\ UNCHANGED <<que, dque, fate, cur, due, now>>
    BY <1>7 DEF SpuriousWakeup, WorkerKeeps, Asleep
  <2>2. QED
    BY <2>1, WakeStill DEF Still
<1>8. CASE WakeUp(w)
  BY <1>1, <1>8 DEF WakeUp, Goto, Still, Holding, WorkerKeeps
<1>9. CASE Return(w)
  BY <1>1, <1>9 DEF Return, Goto, Still, Holding, WorkerKeeps
<1>10. QED
  BY <1>2, <1>3, <1>4, <1>5, <1>6, <1>7, <1>8, <1>9 DEF Serve

(* The owner moves no handler but in the pops of reset().                  *)
LEMMA OwnerStill ==
  ASSUME TypeOK, Owner \/ DropReturns \/ Tick, ~ResetPopQue, ~ResetPopDelayed
  PROVE  Still /\ UNCHANGED due /\ (now' = now \/ now' = now + 1)
<1>1. CASE Stop
  <2>1. Wake(Asleep) /\ UNCHANGED <<que, dque, fate, cur, due, now>>
    BY <1>1 DEF Stop, taskVars
  <2>2. QED
    BY <2>1, WakeStill DEF Still
<1>2. CASE StartAll
  <2>1. /\ \A w \in Workers : pc[w] = "done" /\ pc'[w] = "out"
        /\ UNCHANGED <<que, dque, fate, cur, due, now>>
    BY <1>2 DEF StartAll, AllDone, taskVars
  <2>2. QED
    BY <2>1 DEF Still, Holding
<1>3. CASE ResetFlags \/ ResetTestQue \/ ResetTestDelayed
  BY <1>3 DEF ResetFlags, ResetTestQue, ResetTestDelayed, ResetTest, ResetKeeps,
              workVars, Still
<1>4. CASE \E n \in Maxsizes : SetMaxsize(n)
  BY <1>4 DEF SetMaxsize, taskVars, workVars, Still
<1>5. CASE DropReturns
  BY <1>5 DEF DropReturns, taskVars, workVars, Still
<1>6. CASE Tick
  BY <1>6 DEF Tick, taskVars, workVars, Still
<1>7. QED
  BY <1>1, <1>2, <1>3, <1>4, <1>5, <1>6 DEF Owner, ResetStep

LEMMA OnePlaceNext ==
  ASSUME TypeOK, OnePlace, [Next]_vars
  PROVE  OnePlace'
<1>1. CASE Client
  <2>1. PICK t \in Tasks :
           \/ \E k \in Kinds : \/ PushReady(t, k)
                               \/ \E tp \in Time : PushDelayed(t, k, tp)
           \/ \E hasDrop \in BOOLEAN : Refuse(t, hasDrop)
    BY <1>1, ClientCases
  <2>2. QED
    BY <2>1, PushOnePlace, RefuseOnePlace
<1>2. CASE Worker
  <2>1. PICK w \in Workers : Serve(w) \/ Finish(w) \/ SpuriousWakeup(w)
    BY <1>2 DEF Worker
  <2>2. CASE PollOne(w)
    BY <2>2, PollOnePlace
  <2>3. CASE Finish(w)
    BY <2>3, FinishOnePlace
  <2>4. CASE (Serve(w) \/ SpuriousWakeup(w)) /\ ~PollOne(w)
    BY <2>4, ServeStill, StillOnePlace
  <2>5. QED
    BY <2>1, <2>2, <2>3, <2>4
<1>3. CASE Owner \/ DropReturns \/ Tick
  BY <1>3, OwnerStill, StillOnePlace, ResetOnePlace
<1>4. CASE UNCHANGED vars
  <2>1. Still
    BY <1>4 DEF vars, Still
  <2>2. QED
    BY <2>1, StillOnePlace
<1>5. QED
  BY <1>1, <1>2, <1>3, <1>4 DEF Next

LEMMA OnePlaceInit == Init => OnePlace
<1> SUFFICES ASSUME Init PROVE OnePlace
  OBVIOUS
<1>1. Ready = {} /\ dque = {} /\ IsInjective(que)
  BY DEF Init, Ready, Range, IsInjective
<1>2. \A w \in Workers : cur[w] = NoTask /\ pc[w] = "out"
  BY DEF Init
<1>3. \A t \in Tasks : fate[t] = "fresh" /\ t \notin Taken
  BY <1>2, TasksAssumption DEF Init, Taken
<1>4. QED
  BY <1>1, <1>2, <1>3 DEF OnePlace

(* delayed_queue.cpp moves each handler under the mutex and by value: it is *)
(* in _que, in _delayed_que or with one worker, and never in two of them.   *)
THEOREM EachTaskInOnePlace == Spec => []OnePlace
<1>1. TypeOK /\ OnePlace /\ [Next]_vars => OnePlace'
  BY OnePlaceNext
<1>2. QED
  BY <1>1, OnePlaceInit, TypeCorrect, PTL DEF Spec

-----------------------------------------------------------------------------
(* No task that is not yet due is ready or taken.                          *)
LEMMA ClockType ==
  ASSUME TypeOK
  PROVE  now \in Nat /\ due \in [Tasks -> Nat]
<1>1. now \in Time /\ due \in [Tasks -> Time]
  BY DEF TypeOK
<1>2. Time \subseteq Nat
  BY BoundsAssumption DEF Time
<1>3. QED
  BY <1>1, <1>2

LEMMA StillNotEarly ==
  ASSUME TypeOK, NotEarly, UNCHANGED due, now' = now \/ now' = now + 1,
         \A u \in Tasks : u \in Ready' \/ u \in Taken' => u \in Ready \/ u \in Taken
  PROVE  NotEarly'
<1>1. now \in Int /\ \A u \in Tasks : due[u] \in Int
  BY ClockType
<1>2. \A u \in Tasks : u \in Ready' \/ u \in Taken' => due[u] <= now
  BY DEF NotEarly
<1>3. now <= now'
  BY <1>1
<1>4. \A u \in Tasks : u \in Ready' \/ u \in Taken' => due'[u] <= now'
  BY <1>1, <1>2, <1>3
<1>5. QED
  BY <1>4 DEF NotEarly

LEMMA PushNotEarly ==
  ASSUME TypeOK, OnePlace, NotEarly, NEW t \in Tasks, NEW k \in Kinds
  PROVE  /\ PushReady(t, k) => NotEarly'
         /\ \A tp \in Time : PushDelayed(t, k, tp) => NotEarly'
<1>1. fate[t] = "fresh" => t \notin Ready /\ t \notin Taken
  BY DEF OnePlace
<1>2. now \in Nat /\ due \in [Tasks -> Nat] /\ que \in Seq(Tasks)
  BY ClockType DEF TypeOK
<1>3. ASSUME PushReady(t, k) PROVE NotEarly'
  <2>1. /\ fate[t] = "fresh" /\ que' = Append(que, t)
        /\ due' = [due EXCEPT ![t] = 0] /\ UNCHANGED <<now, cur>>
    BY <1>3 DEF PushReady, MayOffer, Admit
  <2>2. Range(que') = Range(que) \cup {t}
    BY <1>2, <2>1, AppendRange
  <2>3. \A u \in Tasks : u \in Ready' \/ u \in Taken' => u = t \/ u \in Ready \/ u \in Taken
    BY <2>1, <2>2 DEF Ready, Taken
  <2>4. \A u \in Tasks : due'[u] = IF u = t THEN 0 ELSE due[u]
    BY <1>2, <2>1
  <2>5. 0 <= now
    BY <1>2
  <2>6. QED
    BY <2>1, <2>3, <2>4, <2>5 DEF NotEarly
<1>4. ASSUME NEW tp \in Time, PushDelayed(t, k, tp) PROVE NotEarly'
  <2>1. /\ fate[t] = "fresh" /\ UNCHANGED <<que, now, cur>>
        /\ due' = [due EXCEPT ![t] = tp]
    BY <1>4 DEF PushDelayed, MayOffer, Admit
  <2>2. \A u \in Tasks : u \in Ready' \/ u \in Taken' => u # t /\ (u \in Ready \/ u \in Taken)
    BY <1>1, <2>1 DEF Ready, Taken
  <2>3. \A u \in Tasks : u # t => due'[u] = due[u]
    BY <1>2, <2>1
  <2>4. QED
    BY <2>1, <2>2, <2>3 DEF NotEarly
<1>5. QED
  BY <1>3, <1>4

LEMMA NotEarlyNext ==
  ASSUME TypeOK, OnePlace, NotEarly, [Next]_vars
  PROVE  NotEarly'
<1>1. CASE Client
  <2>1. PICK t \in Tasks :
           \/ \E k \in Kinds : \/ PushReady(t, k)
                               \/ \E tp \in Time : PushDelayed(t, k, tp)
           \/ \E hasDrop \in BOOLEAN : Refuse(t, hasDrop)
    BY <1>1, ClientCases
  <2>2. CASE \E hasDrop \in BOOLEAN : Refuse(t, hasDrop)
    BY <2>2, StillNotEarly DEF Refuse, workVars, Ready, Taken
  <2>3. QED
    BY <2>1, <2>2, PushNotEarly
<1>2. CASE Worker
  <2>1. PICK w \in Workers : Serve(w) \/ Finish(w) \/ SpuriousWakeup(w)
    BY <1>2 DEF Worker
  <2>2. CASE PollOne(w)
    BY <2>2, PollOnePlace
  <2>3. CASE Finish(w)
    <3>1. UNCHANGED <<que, due, now>> /\ cur' = [cur EXCEPT ![w] = NoTask]
      BY <2>3 DEF Finish, WorkerKeeps
    <3>2. cur \in [Workers -> Tasks \cup {NoTask}] /\ NoTask \notin Tasks
      BY TasksAssumption DEF TypeOK
    <3>3. \A u \in Tasks : u \in Taken' => u \in Taken
      BY <3>1, <3>2 DEF Taken
    <3>4. \A u \in Tasks : u \in Ready' <=> u \in Ready
      BY <3>1 DEF Ready
    <3>5. QED
      BY <3>1, <3>3, <3>4, StillNotEarly
  <2>4. CASE (Serve(w) \/ SpuriousWakeup(w)) /\ ~PollOne(w)
    BY <2>4, ServeStill, StillNotEarly DEF Still, Ready, Taken
  <2>5. QED
    BY <2>1, <2>2, <2>3, <2>4
<1>3. CASE ResetPopQue \/ ResetPopDelayed
  <2>1. UNCHANGED <<cur, due, now>>
    BY <1>3 DEF ResetPopQue, ResetPopDelayed, ResetKeeps, workVars
  <2>2. \A u \in Tasks : (u \in Ready' => u \in Ready) /\ (u \in Taken' <=> u \in Taken)
    BY <1>3, <2>1, ResetOnePlace DEF Taken
  <2>3. QED
    BY <2>1, <2>2, StillNotEarly
<1>4. CASE (Owner \/ DropReturns \/ Tick) /\ ~ResetPopQue /\ ~ResetPopDelayed
  BY <1>4, OwnerStill, StillNotEarly DEF Still, Ready, Taken
<1>5. CASE UNCHANGED vars
  BY <1>5, StillNotEarly DEF vars, Ready, Taken
<1>6. QED
  BY <1>1, <1>2, <1>3, <1>4, <1>5 DEF Next

(* poll_one_() moves a task out of _delayed_que only when its time point is *)
(* past; no timed wait, wakeup or late worker can start a task before that. *)
THEOREM NothingStartsEarly == Spec => []NotEarly
<1>1. Init => NotEarly
  <2> SUFFICES ASSUME Init PROVE NotEarly
    OBVIOUS
  <2>1. Ready = {} /\ Taken = {}
    BY TasksAssumption DEF Init, Ready, Range, Taken
  <2>2. QED
    BY <2>1 DEF NotEarly
<1>2. TypeOK /\ OnePlace /\ NotEarly /\ [Next]_vars => NotEarly'
  BY NotEarlyNext
<1>3. QED
  BY <1>1, <1>2, EachTaskInOnePlace, TypeCorrect, PTL DEF Spec

-----------------------------------------------------------------------------
(* No lost wakeup, where reset() is kept away from the threads.            *)

(* reset() runs only while there is no thread.                             *)
ResetAlone == ctl # "idle" => AllDone

(* What one step of a worker leaves behind: a worker that will look at the *)
(* queue, one that has ended because of a stop, or one that has looked at  *)
(* both queues and gone to sleep.                                          *)
FallsAsleep(w) ==
  /\ UNCHANGED <<que, dque, due>>
  /\ que = <<>>
  /\ pc' = [pc EXCEPT ![w] = "asleep"]
  /\ dque # {} => \E t \in Earliest(dque) : deadline' = [deadline EXCEPT ![w] = due[t]]

LEMMA WorkerStep ==
  ASSUME TypeOK, NEW w \in Workers, Serve(w) \/ Finish(w) \/ SpuriousWakeup(w)
  PROVE  /\ pc[w] # "done" /\ UNCHANGED <<ctl, loopExit>>
         /\ \/ pc'[w] \notin {"asleep", "done"}
            \/ loopExit'
            \/ FallsAsleep(w)
<1>1. pc \in [Workers -> Places]
  BY DEF TypeOK
<1>2. CASE Enter(w)
  <2>1. /\ pc[w] = "out" /\ UNCHANGED <<ctl, loopExit>>
        /\ Goto(w, "ret") \/ Goto(w, "poll") \/ Goto(w, "check")
    BY <1>2 DEF Enter, WorkerKeeps
  <2>2. QED
    BY <1>1, <2>1 DEF Goto
<1>3. CASE LoopCheck(w)
  <2>1. /\ pc[w] = "check" /\ UNCHANGED <<ctl, loopExit>>
        /\ Goto(w, "ret") \/ Goto(w, "poll")
    BY <1>3 DEF LoopCheck, WorkerKeeps
  <2>2. QED
    BY <1>1, <2>1 DEF Goto
<1>4. CASE PollOne(w)
  <2>1. pc[w] = "poll" /\ UNCHANGED <<ctl, loopExit>>
    BY <1>4 DEF PollOne, WorkerKeeps
  <2>2. Goto(w, "ret") \/ Goto(w, "wait") \/ Goto(w, "popped")
    BY <1>4, Zenon DEF PollOne, Take
  <2>3. QED
    BY <1>1, <2>1, <2>2 DEF Goto
<1>5. CASE CountOut(w)
  BY <1>1, <1>5 DEF CountOut, Goto, WorkerKeeps
<1>6. CASE Finish(w)
  <2>1. /\ pc[w] = "running" /\ UNCHANGED <<ctl, loopExit>>
        /\ Goto(w, "ret") \/ Goto(w, "check")
    BY <1>6 DEF Finish, WorkerKeeps
  <2>2. QED
    BY <1>1, <2>1 DEF Goto
<1>7. CASE RunWait(w)
  <2>1. pc[w] = "wait" /\ UNCHANGED <<ctl, loopExit, que, dque, due>>
    BY <1>7 DEF RunWait, WorkerKeeps
  <2>2. CASE que # <<>>
    BY <1>1, <1>7, <2>1, <2>2 DEF RunWait, Goto
  <2>3. CASE que = <<>>
    <3>1. /\ Goto(w, "asleep")
          /\ dque # {} => \E t \in Earliest(dque) : deadline' = [deadline EXCEPT ![w] = due[t]]
      BY <1>7, <2>3, Zenon DEF RunWait
    <3>2. QED
      BY <2>1, <2>3, <3>1, Zenon DEF FallsAsleep, Goto
  <2>4. QED
    BY <2>2, <2>3
<1>8. CASE Timeout(w) \/ SpuriousWakeup(w)
  BY <1>1, <1>8 DEF Timeout, SpuriousWakeup, Wake, WorkerKeeps
<1>9. CASE WakeUp(w)
  BY <1>1, <1>9 DEF WakeUp, Goto, WorkerKeeps
<1>10. CASE Return(w)
  <2>1. pc[w] = "ret" /\ UNCHANGED <<ctl, loopExit>>
    BY <1>10 DEF Return, WorkerKeeps
  <2>2. loopExit \/ Goto(w, "out")
    BY <1>10, Zenon DEF Return
  <2>3. CASE loopExit
    BY <2>1, <2>3, Zenon
  <2>4. CASE Goto(w, "out")
    BY <1>1, <2>1, <2>4 DEF Goto
  <2>5. QED
    BY <2>2, <2>3, <2>4
<1>11. QED
  BY <1>2, <1>3, <1>4, <1>5, <1>6, <1>7, <1>8, <1>9, <1>10 DEF Serve

LEMMA ResetAloneNext ==
  ASSUME TypeOK, ~ConcurrentReset, ResetAlone, [Next]_vars
  PROVE  ResetAlone'
<1>1. CASE Client
  <2>1. PICK t \in Tasks :
           \/ \E k \in Kinds : \/ PushReady(t, k)
                               \/ \E tp \in Time : PushDelayed(t, k, tp)
           \/ \E hasDrop \in BOOLEAN : Refuse(t, hasDrop)
    BY <1>1, ClientCases
  <2>2. MayOffer(t) /\ UNCHANGED ctl
    BY <2>1 DEF PushReady, PushDelayed, Admit, Refuse
  <2>3. ctl' = "idle"
    BY <2>2, Zenon DEF MayOffer
  <2>4. QED
    BY <2>3 DEF ResetAlone
<1>2. CASE Worker
  <2>1. PICK w \in Workers : Serve(w) \/ Finish(w) \/ SpuriousWakeup(w)
    BY <1>2 DEF Worker
  <2>2. ctl' = "idle"
    BY <2>1, WorkerStep DEF ResetAlone, AllDone
  <2>3. QED
    BY <2>2 DEF ResetAlone
<1>3. CASE Stop \/ StartAll
  <2>1. ctl = "idle" /\ UNCHANGED ctl
    BY <1>3, Zenon DEF Stop, StartAll
  <2>2. QED
    BY <2>1 DEF ResetAlone
<1>4. CASE ResetFlags
  <2>1. AllDone /\ UNCHANGED pc
    BY <1>4, Zenon DEF ResetFlags, ResetKeeps, workVars
  <2>2. QED
    BY <2>1 DEF ResetAlone, AllDone
<1>5. CASE ResetStep
  <2>1. ctl # "idle" /\ UNCHANGED pc
    BY <1>5 DEF ResetStep, ResetTestQue, ResetTestDelayed, ResetTest, ResetPopQue,
                ResetPopDelayed, ResetKeeps, workVars
  <2>2. QED
    BY <2>1 DEF ResetAlone, AllDone
<1>6. CASE DropReturns \/ Tick \/ (\E n \in Maxsizes : SetMaxsize(n)) \/ UNCHANGED vars
  <2>1. UNCHANGED <<ctl, pc>>
    BY <1>6 DEF DropReturns, Tick, SetMaxsize, workVars, vars
  <2>2. QED
    BY <2>1 DEF ResetAlone, AllDone
<1>7. QED
  BY <1>1, <1>2, <1>3, <1>4, <1>5, <1>6 DEF Next, Owner

(* A post wakes one of the sleepers, so that somebody will look.           *)
LEMMA NotifyAttends ==
  ASSUME TypeOK, NotifyOne
  PROVE  Asleep' = {} \/ Attentive' # {}
<1>1. CASE Asleep = {}
  BY <1>1 DEF NotifyOne, Asleep
<1>2. CASE Asleep # {}
  <2>1. PICK w \in Asleep : Wake({w})
    BY <1>2 DEF NotifyOne
  <2>2. w \in Workers /\ pc'[w] = "awake"
    BY <2>1 DEF Asleep, Wake
  <2>3. QED
    BY <2>2 DEF Attentive
<1>3. QED
  BY <1>1, <1>2

LEMMA NoLostWakeupNext ==
  ASSUME TypeOK, ~ConcurrentReset, ResetAlone, NoLostWakeup, [Next]_vars
  PROVE  NoLostWakeup'
<1>1. ASSUME UNCHANGED <<que, dque, due, pc, deadline, ctl, loopExit>>
      PROVE  NoLostWakeup'
  BY <1>1 DEF NoLostWakeup, Asleep, Attentive
<1>2. CASE Client
  <2>1. PICK t \in Tasks :
           \/ \E k \in Kinds : \/ PushReady(t, k)
                               \/ \E tp \in Time : PushDelayed(t, k, tp)
           \/ \E hasDrop \in BOOLEAN : Refuse(t, hasDrop)
    BY <1>2, ClientCases
  <2>2. CASE \E hasDrop \in BOOLEAN : Refuse(t, hasDrop)
    BY <1>1, <2>2 DEF Refuse, workVars
  <2>3. CASE \E k \in Kinds : \/ PushReady(t, k)
                              \/ \E tp \in Time : PushDelayed(t, k, tp)
    <3>1. NotifyOne
      BY <2>3 DEF PushReady, PushDelayed, Admit
    <3>2. QED
      BY <3>1, NotifyAttends DEF NoLostWakeup
  <2>4. QED
    BY <2>1, <2>2, <2>3
<1>3. CASE Worker
  <2>1. PICK w \in Workers : Serve(w) \/ Finish(w) \/ SpuriousWakeup(w)
    BY <1>3 DEF Worker
  <2>2. CASE pc'[w] \notin {"asleep", "done"}
    BY <2>2 DEF NoLostWakeup, Attentive
  <2>3. CASE loopExit'
    BY <2>3, Zenon DEF NoLostWakeup
  <2>4. CASE FallsAsleep(w)
    <3>1. que' = <<>> /\ UNCHANGED <<dque, due>>
      BY <2>4 DEF FallsAsleep
    <3>2. pc'[w] = "asleep" /\ w \in Asleep'
      BY <2>4 DEF FallsAsleep, TypeOK, Asleep
    <3>3. ASSUME NEW u \in dque PROVE deadline'[w] <= due[u]
      <4>1. PICK t \in Earliest(dque) : deadline' = [deadline EXCEPT ![w] = due[t]]
        BY <2>4, <3>3 DEF FallsAsleep
      <4>2. due[t] <= due[u]
        BY <3>3, <4>1 DEF Earliest
      <4>3. deadline'[w] = due[t]
        BY <4>1 DEF TypeOK
      <4>4. QED
        BY <4>2, <4>3
    <3>4. QED
      BY <3>1, <3>2, <3>3 DEF NoLostWakeup
  <2>5. QED
    BY <2>1, <2>2, <2>3, <2>4, WorkerStep
<1>4. CASE Stop
  <2>1. loopExit' = TRUE
    BY <1>4 DEF Stop
  <2>2. QED
    BY <2>1, Zenon DEF NoLostWakeup
<1>5. CASE StartAll
  <2>1. \A w \in Workers : pc'[w] = "out"
    BY <1>5 DEF StartAll
  <2>2. Asleep' = {}
    BY <2>1 DEF Asleep
  <2>3. QED
    BY <2>2 DEF NoLostWakeup
<1>6. CASE ResetFlags \/ ResetStep
  <2>1. AllDone /\ UNCHANGED pc
    <3>1. CASE ResetFlags
      BY <3>1, Zenon DEF ResetFlags, ResetKeeps, workVars
    <3>2. CASE ResetStep
      BY <3>2 DEF ResetStep, ResetTestQue, ResetTestDelayed, ResetTest, ResetPopQue,
                  ResetPopDelayed, ResetKeeps, workVars, ResetAlone
    <3>3. QED
      BY <1>6, <3>1, <3>2
  <2>2. Asleep' = {}
    BY <2>1 DEF AllDone, Asleep
  <2>3. QED
    BY <2>2 DEF NoLostWakeup
<1>7. CASE DropReturns \/ Tick \/ (\E n \in Maxsizes : SetMaxsize(n)) \/ UNCHANGED vars
  BY <1>1, <1>7 DEF DropReturns, Tick, SetMaxsize, workVars, taskVars, vars
<1>8. QED
  BY <1>2, <1>3, <1>4, <1>5, <1>6, <1>7 DEF Next, Owner

(* Where reset() is not called beside running threads: whenever every      *)
(* worker that has not ended sleeps on the condition variable, nothing is  *)
(* ready and one of the sleepers wakes in time for each delayed task       *)
(* (notify_one in the posts, the second look in run_wait_).                *)
THEOREM NoWakeupIsLost == ASSUME ~ConcurrentReset PROVE Spec => []NoLostWakeup
<1>1. Init => ResetAlone /\ NoLostWakeup
  BY DEF Init, ResetAlone, NoLostWakeup, Asleep
<1>2. TypeOK /\ ResetAlone /\ NoLostWakeup /\ [Next]_vars
        => ResetAlone' /\ NoLostWakeup'
  BY ResetAloneNext, NoLostWakeupNext
<1>3. QED
  BY <1>1, <1>2, TypeCorrect, PTL DEF Spec

-----------------------------------------------------------------------------
(* The queue implements TaskQueue.                                         *)

(* Under OnePlace the status of a task is its fate and who holds it.       *)
LEMMA StatusOf ==
  ASSUME OnePlace, NEW t \in Tasks
  PROVE  statusBar[t] = IF fate[t] # "accepted" THEN fate[t]
                        ELSE IF t \in Taken THEN "started" ELSE "pending"
<1>1. /\ fate[t] = "accepted" <=> t \in dque \/ t \in Ready \/ t \in Taken
      /\ t \in dque => t \notin Ready /\ t \notin Taken
      /\ t \in Ready => t \notin Taken
  BY DEF OnePlace
<1>2. statusBar[t] = IF t \in Taken THEN "started"
                     ELSE IF t \in Ready \/ t \in dque THEN "pending" ELSE fate[t]
  BY DEF statusBar
<1>3. QED
  BY <1>1, <1>2

LEMMA StatusOfNext ==
  ASSUME OnePlace', NEW t \in Tasks
  PROVE  statusBar'[t] = IF fate'[t] # "accepted" THEN fate'[t]
                         ELSE IF t \in Taken' THEN "started" ELSE "pending"
<1>1. /\ fate'[t] = "accepted" <=> t \in dque' \/ t \in Ready' \/ t \in Taken'
      /\ t \in dque' => t \notin Ready' /\ t \notin Taken'
      /\ t \in Ready' => t \notin Taken'
  BY DEF OnePlace
<1>2. statusBar'[t] = IF t \in Taken' THEN "started"
                      ELSE IF t \in Ready' \/ t \in dque' THEN "pending" ELSE fate'[t]
  BY DEF statusBar
<1>3. QED
  BY <1>1, <1>2

(* A step that changes the fate of one task, or the hands it is in.        *)
LEMMA BarBecomes ==
  ASSUME OnePlace, OnePlace', NEW STATE t, t \in Tasks, NEW CONSTANT from, NEW CONSTANT to,
         statusBar[t] = from, statusBar'[t] = to, UNCHANGED now,
         \A u \in Tasks : u # t => fate'[u] = fate[u] /\ (u \in Taken' <=> u \in Taken)
  PROVE  Abstract!Become(t, from, to)
<1>1. ASSUME NEW u \in Tasks, u # t PROVE statusBar'[u] = statusBar[u]
  <2>1. fate'[u] = fate[u] /\ (u \in Taken' <=> u \in Taken)
    BY <1>1
  <2>2. statusBar[u] = IF fate[u] # "accepted" THEN fate[u]
                        ELSE IF u \in Taken THEN "started" ELSE "pending"
    BY StatusOf
  <2>3. statusBar'[u] = IF fate'[u] # "accepted" THEN fate'[u]
                        ELSE IF u \in Taken' THEN "started" ELSE "pending"
    BY StatusOfNext
  <2>4. QED
    BY <2>1, <2>2, <2>3
<1>2. /\ statusBar = [u \in Tasks |-> statusBar[u]]
      /\ statusBar' = [u \in Tasks |-> statusBar'[u]]
  BY DEF statusBar
<1>3. statusBar' = [statusBar EXCEPT ![t] = to]
  BY <1>1, <1>2
<1>4. QED
  BY <1>3 DEF Abstract!Become

LEMMA FateAccepted ==
  ASSUME TypeOK, OnePlace, NEW t \in Tasks
  PROVE  /\ fate[t] = "fresh" => statusBar[t] = "fresh" /\ t \notin Taken
         /\ t \in Taken => fate[t] = "accepted" /\ statusBar[t] = "started"
         /\ t \in Ready \/ t \in dque
              => fate[t] = "accepted" /\ t \notin Taken /\ statusBar[t] = "pending"
<1>1. fate[t] = "accepted" <=> t \in dque \/ t \in Ready \/ t \in Taken
  BY DEF OnePlace
<1>2. t \in dque \/ t \in Ready => t \notin Taken
  BY DEF OnePlace
<1>3. QED
  BY <1>1, <1>2, StatusOf

LEMMA PushRefines ==
  ASSUME TypeOK, OnePlace, OnePlace', NEW t \in Tasks, NEW k \in Kinds
  PROVE  /\ PushReady(t, k) => Abstract!Accept(t)
         /\ \A tp \in Time : PushDelayed(t, k, tp) => Abstract!Accept(t)
<1>1. ASSUME NEW tp \in Time, MayOffer(t), Admit(t, k, tp) PROVE Abstract!Accept(t)
  <2>1. /\ fate[t] = "fresh" /\ fate' = [fate EXCEPT ![t] = "accepted"]
        /\ due' = [due EXCEPT ![t] = tp] /\ UNCHANGED <<now, cur>>
    BY <1>1 DEF MayOffer, Admit
  <2>2. \A u \in Tasks : fate'[u] = IF u = t THEN "accepted" ELSE fate[u]
    BY <2>1 DEF TypeOK
  <2>3. \A u \in Tasks : u \in Taken' <=> u \in Taken
    BY <2>1 DEF Taken
  <2>4. statusBar[t] = "fresh" /\ t \notin Taken
    BY <2>1, FateAccepted
  <2>5. statusBar'[t] = "pending"
    BY <2>2, <2>3, <2>4, StatusOfNext
  <2>6. Abstract!Become(t, "fresh", "pending")
    BY <2>1, <2>2, <2>3, <2>4, <2>5, BarBecomes
  <2>7. QED
    BY <1>1, <2>1, <2>6 DEF Abstract!Accept, Time
<1>2. 0 \in Time
  BY BoundsAssumption DEF Time
<1>3. QED
  BY <1>1, <1>2 DEF PushReady, PushDelayed

LEMMA RefuseRefines ==
  ASSUME TypeOK, OnePlace, OnePlace', NEW t \in Tasks, NEW hasDrop \in BOOLEAN,
         Refuse(t, hasDrop)
  PROVE  Abstract!Refuse(t)
<1>1. fate[t] = "fresh" /\ UNCHANGED <<due, now, cur>>
  BY DEF Refuse, MayOffer, workVars
<1>2. \A u \in Tasks : fate'[u] = IF u = t THEN "refused" ELSE fate[u]
  BY DEF Refuse, TypeOK
<1>3. \A u \in Tasks : u \in Taken' <=> u \in Taken
  BY <1>1 DEF Taken
<1>4. statusBar[t] = "fresh" /\ statusBar'[t] = "refused"
  BY <1>1, <1>2, FateAccepted, StatusOfNext
<1>5. QED
  BY <1>1, <1>2, <1>3, <1>4, BarBecomes DEF Abstract!Refuse

LEMMA FinishRefines ==
  ASSUME TypeOK, OnePlace, OnePlace', NEW w \in Workers, Finish(w)
  PROVE  \E t \in Tasks : Abstract!Finish(t)
<1>1. PICK t : t = cur[w]
  OBVIOUS
<1>2. /\ pc[w] = "running" /\ UNCHANGED <<due, now>>
      /\ fate' = [fate EXCEPT ![t] = "finished"]
      /\ cur' = [cur EXCEPT ![w] = NoTask]
  BY <1>1 DEF Finish, WorkerKeeps
<1>3. /\ cur \in [Workers -> Tasks \cup {NoTask}]
      /\ fate \in [Tasks -> Fates] /\ NoTask \notin Tasks
  BY TasksAssumption DEF TypeOK
<1>4. t \in Tasks /\ t \in Taken
  <2>1. cur[w] # NoTask
    BY <1>2 DEF OnePlace
  <2>2. QED
    BY <1>1, <1>3, <2>1 DEF Taken
<1>5. \A u \in Tasks : fate'[u] = IF u = t THEN "finished" ELSE fate[u]
  BY <1>2, <1>3, <1>4
<1>6. \A u \in Tasks : u # t => (u \in Taken' <=> u \in Taken)
  <2>1. \A v \in Workers : cur'[v] = IF v = w THEN NoTask ELSE cur[v]
    BY <1>2, <1>3
  <2>2. QED
    BY <1>1, <1>3, <2>1 DEF Taken
<1>7. statusBar[t] = "started" /\ statusBar'[t] = "finished"
  BY <1>4, <1>5, FateAccepted, StatusOfNext
<1>8. Abstract!Become(t, "started", "finished")
  BY <1>2, <1>4, <1>5, <1>6, <1>7, BarBecomes
<1>9. QED
  BY <1>2, <1>4, <1>8 DEF Abstract!Finish

(* Without a move of the hands and fates nothing happens to TaskQueue.     *)
LEMMA StillRefines ==
  ASSUME OnePlace, OnePlace', UNCHANGED <<fate, cur, due, now>>
  PROVE  UNCHANGED Abstract!vars
<1>1. \A u \in Tasks : statusBar'[u] = statusBar[u]
  <2>1. \A u \in Tasks : u \in Taken' <=> u \in Taken
    BY DEF Taken
  <2>2. QED
    BY <2>1, StatusOf, StatusOfNext
<1>2. /\ statusBar = [u \in Tasks |-> statusBar[u]]
      /\ statusBar' = [u \in Tasks |-> statusBar'[u]]
  BY DEF statusBar
<1>3. statusBar' = statusBar
  BY <1>1, <1>2
<1>4. QED
  BY <1>3 DEF Abstract!vars

LEMMA DiscardRefines ==
  ASSUME TypeOK, OnePlace, OnePlace', NEW STATE t, t \in Tasks, t \in dque \/ t \in Ready,
         Discard(t), UNCHANGED <<cur, due, now>>
  PROVE  Abstract!Discard(t)
<1>1. \A u \in Tasks : fate'[u] = IF u = t THEN "discarded" ELSE fate[u]
  BY DEF Discard, TypeOK
<1>2. \A u \in Tasks : u \in Taken' <=> u \in Taken
  BY DEF Taken
<1>3. statusBar[t] = "pending" /\ statusBar'[t] = "discarded"
  BY <1>1, FateAccepted, StatusOfNext
<1>4. QED
  BY <1>1, <1>2, <1>3, BarBecomes DEF Abstract!Discard

LEMMA ResetRefines ==
  ASSUME TypeOK, OnePlace, OnePlace', ResetPopQue \/ ResetPopDelayed
  PROVE  (\E t \in Tasks : Abstract!Discard(t)) \/ UNCHANGED Abstract!vars
<1>0. UNCHANGED <<cur, due, now>>
  BY DEF ResetPopQue, ResetPopDelayed, ResetKeeps, workVars
<1>1. CASE ResetPopQue /\ que # <<>>
  <2>1. Discard(Head(que)) /\ que \in Seq(Tasks)
    BY <1>1, Zenon DEF ResetPopQue, TypeOK
  <2>2. Head(que) \in Tasks /\ Head(que) \in Ready
    BY <1>1, <2>1, HeadTailProperties DEF Ready, Range
  <2>3. QED
    BY <1>0, <2>1, <2>2, DiscardRefines
<1>2. CASE ResetPopDelayed /\ dque # {}
  <2>1. PICK t \in Earliest(dque) : dque' = dque \ {t} /\ Discard(t)
    BY <1>2, Zenon DEF ResetPopDelayed
  <2>2. t \in Tasks /\ t \in dque
    BY <1>2, EarliestType DEF TypeOK
  <2>3. QED
    BY <1>0, <2>1, <2>2, DiscardRefines
<1>3. CASE (ResetPopQue /\ que = <<>>) \/ (ResetPopDelayed /\ dque = {})
  BY <1>0, <1>3, StillRefines DEF ResetPopQue, ResetPopDelayed
<1>4. QED
  BY <1>1, <1>2, <1>3

(* A poll takes nothing, or one task that was in one of the queues.        *)
LEMMA PollTakes ==
  ASSUME TypeOK, NEW w \in Workers, PollOne(w)
  PROVE  \/ UNCHANGED cur
         \/ \E h \in Tasks : (h \in Ready \/ h \in dque) /\ cur' = [cur EXCEPT ![w] = h]
<1>1. que \in Seq(Tasks) /\ dque \subseteq Tasks
  BY DEF TypeOK
<1>2. ASSUME NEW STATE q, q \in Seq(Tasks), NEW STATE d, Take(w, q, d),
             \A h \in Range(q) : h \in Ready \/ h \in dque
      PROVE  \/ UNCHANGED cur
             \/ \E h \in Tasks : (h \in Ready \/ h \in dque) /\ cur' = [cur EXCEPT ![w] = h]
  <2>1. CASE q = <<>>
    BY <1>2, <2>1, Zenon DEF Take
  <2>2. CASE q # <<>>
    <3>1. cur' = [cur EXCEPT ![w] = Head(q)]
      BY <1>2, <2>2, Zenon DEF Take
    <3>2. Head(q) \in Tasks /\ Head(q) \in Range(q)
      BY <1>2, <2>2, HeadTailProperties DEF Range
    <3>3. QED
      BY <1>2, <3>1, <3>2
  <2>3. QED
    BY <2>1, <2>2
<1>3. CASE Take(w, que, dque)
  BY <1>1, <1>2, <1>3 DEF Ready
<1>4. CASE \E t \in Due : Take(w, Append(que, t), dque \ {t})
  <2>1. PICK t \in Due : Take(w, Append(que, t), dque \ {t})
    BY <1>4
  <2>2. t \in dque /\ t \in Tasks
    BY <1>1, EarliestType
  <2>3. /\ Append(que, t) \in Seq(Tasks)
        /\ Range(Append(que, t)) = Range(que) \cup {t}
    BY <1>1, <2>2, AppendRange, AppendProperties
  <2>4. QED
    BY <1>2, <2>1, <2>2, <2>3 DEF Ready
<1>5. QED
  BY <1>3, <1>4 DEF PollOne

LEMMA PollRefines ==
  ASSUME TypeOK, OnePlace, OnePlace', NotEarly', NEW w \in Workers, PollOne(w)
  PROVE  (\E t \in Tasks : Abstract!Start(t)) \/ UNCHANGED Abstract!vars
<1>1. pc[w] = "poll" /\ UNCHANGED <<fate, due, now>>
  BY DEF PollOne, WorkerKeeps
<1>2. CASE UNCHANGED cur
  BY <1>1, <1>2, StillRefines
<1>3. ASSUME NEW h \in Tasks, h \in Ready \/ h \in dque, cur' = [cur EXCEPT ![w] = h]
      PROVE  Abstract!Start(h)
  <2>1. /\ cur \in [Workers -> Tasks \cup {NoTask}] /\ NoTask \notin Tasks
        /\ cur[w] = NoTask
    BY <1>1, TasksAssumption DEF TypeOK, OnePlace
  <2>2. \A v \in Workers : cur'[v] = IF v = w THEN h ELSE cur[v]
    BY <1>3, <2>1
  <2>3. \A u \in Tasks : u \in Taken' <=> u = h \/ u \in Taken
    BY <2>1, <2>2 DEF Taken
  <2>4. fate[h] = "accepted" /\ statusBar[h] = "pending"
    BY <1>3, FateAccepted
  <2>5. statusBar'[h] = "started"
    BY <1>1, <2>3, <2>4, StatusOfNext
  <2>6. due[h] <= now
    BY <1>1, <2>3 DEF NotEarly
  <2>7. QED
    BY <1>1, <2>3, <2>4, <2>5, <2>6, BarBecomes DEF Abstract!Start
<1>4. QED
  BY <1>2, <1>3, PollTakes

LEMMA NextRefines ==
  ASSUME TypeOK, OnePlace, OnePlace', NotEarly', [Next]_vars
  PROVE  Abstract!Next \/ UNCHANGED Abstract!vars
<1>1. CASE Client
  <2>1. PICK t \in Tasks :
           \/ \E k \in Kinds : \/ PushReady(t, k)
                               \/ \E tp \in Time : PushDelayed(t, k, tp)
           \/ \E hasDrop \in BOOLEAN : Refuse(t, hasDrop)
    BY <1>1, ClientCases
  <2>2. QED
    BY <2>1, PushRefines, RefuseRefines DEF Abstract!Next
<1>2. CASE Worker
  <2>1. PICK w \in Workers : Serve(w) \/ Finish(w) \/ SpuriousWakeup(w)
    BY <1>2 DEF Worker
  <2>2. CASE PollOne(w)
    BY <2>2, PollRefines DEF Abstract!Next
  <2>3. CASE Finish(w)
    BY <2>3, FinishRefines DEF Abstract!Next
  <2>4. CASE (Serve(w) \/ SpuriousWakeup(w)) /\ ~PollOne(w)
    BY <2>4, ServeStill, StillRefines DEF Still
  <2>5. QED
    BY <2>1, <2>2, <2>3, <2>4
<1>3. CASE ResetPopQue \/ ResetPopDelayed
  BY <1>3, ResetRefines DEF Abstract!Next
<1>4. CASE Tick
  <2>1. UNCHANGED <<que, dque, fate, cur, due>>
    BY <1>4 DEF Tick, taskVars, workVars
  <2>2. UNCHANGED statusBar
    BY <2>1 DEF statusBar, Ready, Taken
  <2>3. Abstract!Tick
    BY <1>4, <2>1, <2>2 DEF Tick, Abstract!Tick
  <2>4. QED
    BY <2>3 DEF Abstract!Next
<1>5. CASE (Owner \/ DropReturns) /\ ~ResetPopQue /\ ~ResetPopDelayed
  <2>1. Still /\ UNCHANGED due
    BY <1>5, OwnerStill
  <2>2. UNCHANGED now
    BY <1>5 DEF Owner, DropReturns, Stop, StartAll, SetMaxsize, ResetFlags, ResetStep,
                ResetTestQue, ResetTestDelayed, ResetTest, ResetKeeps
  <2>3. QED
    BY <2>1, <2>2, StillRefines DEF Still
<1>6. CASE UNCHANGED vars
  BY <1>6, StillRefines DEF vars
<1>7. QED
  BY <1>1, <1>2, <1>3, <1>4, <1>5, <1>6 DEF Next

LEMMA InitRefines == Init => Abstract!Init
<1> SUFFICES ASSUME Init PROVE Abstract!Init
  OBVIOUS
<1>1. \A t \in Tasks : statusBar[t] = "fresh"
  <2>1. OnePlace
    BY OnePlaceInit
  <2>2. \A t \in Tasks : fate[t] = "fresh"
    BY DEF Init
  <2>3. QED
    BY <2>1, <2>2, StatusOf
<1>2. statusBar = [t \in Tasks |-> statusBar[t]]
  BY DEF statusBar
<1>3. QED
  BY <1>1, <1>2 DEF Init, Abstract!Init

(* delayed_queue keeps the promise of TaskQueue: a handler is taken or     *)
(* refused once, started at most once and not before its time, and leaves  *)
(* unstarted only through reset().                                         *)
THEOREM QueueImplementsTaskQueue == Spec => ImplementsTaskQueue
<1>1. TypeOK /\ OnePlace /\ OnePlace' /\ NotEarly' /\ [Next]_vars
        => [Abstract!Next]_(Abstract!vars)
  BY NextRefines
<1>2. QED
  BY <1>1, InitRefines, TypeCorrect, EachTaskInOnePlace, NothingStartsEarly, PTL
     DEF Spec, ImplementsTaskQueue, Abstract!Spec

-----------------------------------------------------------------------------
(* What counts: the limit of unsafe tasks and the two counters.            *)

LEMMA ReadyBound ==
  ASSUME TypeOK
  PROVE  /\ IsFiniteSet(Ready) /\ Cardinality(Ready) \in Nat
         /\ Cardinality(Ready) <= Len(que) /\ Len(que) \in Nat
<1>1. que \in Seq(Tasks)
  BY DEF TypeOK
<1>2. Len(que) \in Nat /\ DOMAIN que = 1..Len(que) /\ que \in [1..Len(que) -> Tasks]
  BY <1>1, LenProperties
<1>3. que \in Surjection(1..Len(que), Ready)
  BY <1>2 DEF Ready, Range, Surjection
<1>4. IsFiniteSet(1..Len(que)) /\ Cardinality(1..Len(que)) = Len(que)
  BY <1>2, FS_Interval
<1>5. IsFiniteSet(Ready) /\ Cardinality(Ready) <= Cardinality(1..Len(que))
  BY <1>3, <1>4, FS_Surjection
<1>6. QED
  BY <1>2, <1>4, <1>5, FS_CardinalityType

(* The tasks in the two queues are no more than size_() says.              *)
LEMMA SizeBound ==
  ASSUME TypeOK, NEW S, S \subseteq Ready \cup dque
  PROVE  IsFiniteSet(S) /\ Cardinality(S) \in Nat /\ Size \in Nat /\ Cardinality(S) <= Size
<1>1. IsFiniteSet(dque) /\ Cardinality(dque) \in Nat
  BY TasksAssumption, FS_Subset, FS_CardinalityType DEF TypeOK
<1>2. /\ IsFiniteSet(Ready \cup dque)
      /\ Cardinality(Ready \cup dque)
           = Cardinality(Ready) + Cardinality(dque) - Cardinality(Ready \cap dque)
  BY <1>1, ReadyBound, FS_Union
<1>3. Cardinality(Ready \cap dque) \in Nat
  BY ReadyBound, FS_Intersection, FS_CardinalityType
<1>4. IsFiniteSet(S) /\ Cardinality(S) <= Cardinality(Ready \cup dque) /\ Cardinality(S) \in Nat
  BY <1>2, FS_Subset, FS_CardinalityType
<1>5. Size = Len(que) + Cardinality(dque)
  BY DEF Size
<1>6. QED
  BY <1>1, <1>2, <1>3, <1>4, <1>5, ReadyBound

(* Only a post puts a task into the queues.                                *)
Posted(t, k) == /\ k = "unsafe" => Room
                /\ \/ PushReady(t, k)
                   \/ \E tp \in Time : PushDelayed(t, k, tp)

LEMMA OnlyPostsAdd ==
  ASSUME TypeOK, OnePlace, OnePlace', [Next]_vars
  PROVE  \/ \E t \in Tasks, k \in Kinds : Posted(t, k)
         \/ /\ UNCHANGED kind
            /\ \A u \in Tasks : u \in dque' \/ u \in Ready' => u \in dque \/ u \in Ready
<1>1. CASE Client
  <2>1. PICK t \in Tasks :
           \/ \E k \in Kinds : Posted(t, k)
           \/ \E hasDrop \in BOOLEAN : Refuse(t, hasDrop)
    BY <1>1, ClientCases DEF Posted
  <2>2. QED
    BY <2>1 DEF Refuse, Ready
<1>2. CASE Worker
  <2>1. PICK w \in Workers : Serve(w) \/ Finish(w) \/ SpuriousWakeup(w)
    BY <1>2 DEF Worker
  <2>2. UNCHANGED kind
    BY <2>1 DEF Serve, Enter, LoopCheck, PollOne, CountOut, RunWait, Timeout, WakeUp,
                Return, Finish, SpuriousWakeup, WorkerKeeps
  <2>3. CASE PollOne(w)
    <3>1. UNCHANGED fate /\ pc[w] = "poll"
      BY <2>3 DEF PollOne
    <3>2. /\ cur[w] = NoTask /\ NoTask \notin Tasks
          /\ cur \in [Workers -> Tasks \cup {NoTask}]
      BY <3>1, TasksAssumption DEF OnePlace, TypeOK
    <3>3. \A u \in Tasks : u \in Taken => u \in Taken'
      <4>1. \A v \in Workers : v # w => cur'[v] = cur[v]
        BY <2>3, <3>2, PollTakes
      <4>2. QED
        BY <3>2, <4>1 DEF Taken
    <3>4. \A u \in Tasks : u \in dque' \/ u \in Ready' => fate[u] = "accepted" /\ u \notin Taken
      <4>1. \A u \in Tasks : u \in dque' \/ u \in Ready' => fate'[u] = "accepted" /\ u \notin Taken'
        BY DEF OnePlace
      <4>2. QED
        BY <3>1, <3>3, <4>1
    <3>5. \A u \in Tasks : fate[u] = "accepted" => u \in dque \/ u \in Ready \/ u \in Taken
      BY DEF OnePlace
    <3>6. QED
      BY <2>2, <3>4, <3>5
  <2>4. CASE Finish(w)
    BY <2>2, <2>4 DEF Finish, Ready
  <2>5. CASE (Serve(w) \/ SpuriousWakeup(w)) /\ ~PollOne(w)
    BY <2>2, <2>5, ServeStill DEF Still, Ready
  <2>6. QED
    BY <2>1, <2>3, <2>4, <2>5
<1>3. CASE ResetPopQue \/ ResetPopDelayed
  BY <1>3, ResetOnePlace DEF ResetPopQue, ResetPopDelayed, ResetKeeps
<1>4. CASE (Owner \/ DropReturns \/ Tick) /\ ~ResetPopQue /\ ~ResetPopDelayed
  <2>1. Still
    BY <1>4, OwnerStill
  <2>2. UNCHANGED kind
    BY <1>4 DEF Owner, DropReturns, Tick, Stop, StartAll, SetMaxsize, ResetFlags, ResetStep,
                ResetTestQue, ResetTestDelayed, ResetTest, ResetKeeps, taskVars
  <2>3. QED
    BY <2>1, <2>2 DEF Still, Ready
<1>5. CASE UNCHANGED vars
  BY <1>5 DEF vars, Ready
<1>6. QED
  BY <1>1, <1>2, <1>3, <1>4, <1>5 DEF Next

(* What a post does to the two queues.                                     *)
LEMMA PostAdds ==
  ASSUME TypeOK, NEW t \in Tasks, NEW k \in Kinds, Posted(t, k)
  PROVE  /\ fate[t] = "fresh"
         /\ \A u \in Tasks : /\ kind'[u] = IF u = t THEN k ELSE kind[u]
                             /\ fate'[u] = IF u = t THEN "accepted" ELSE fate[u]
                             /\ u \in dque' \/ u \in Ready' <=> u = t \/ u \in dque \/ u \in Ready
         /\ UNCHANGED cur
         /\ \E tp \in Time : Admit(t, k, tp)
<1>1. que \in Seq(Tasks) /\ kind \in [Tasks -> Kinds \cup {"none"}] /\ fate \in [Tasks -> Fates]
  BY DEF TypeOK
<1>2. 0 \in Time
  BY BoundsAssumption DEF Time
<1>3. PICK tp \in Time : MayOffer(t) /\ Admit(t, k, tp)
  BY <1>2 DEF Posted, PushReady, PushDelayed
<1>4. \/ que' = Append(que, t) /\ UNCHANGED dque
      \/ UNCHANGED que /\ dque' = dque \cup {t}
  BY DEF Posted, PushReady, PushDelayed
<1>5. Range(Append(que, t)) = Range(que) \cup {t}
  BY <1>1, AppendRange
<1>6. \A u \in Tasks : u \in dque' \/ u \in Ready' <=> u = t \/ u \in dque \/ u \in Ready
  <2>1. CASE que' = Append(que, t) /\ UNCHANGED dque
    BY <1>5, <2>1 DEF Ready
  <2>2. CASE UNCHANGED que /\ dque' = dque \cup {t}
    BY <2>2 DEF Ready
  <2>3. QED
    BY <1>4, <2>1, <2>2
<1>7. \A u \in Tasks : /\ kind'[u] = IF u = t THEN k ELSE kind[u]
                       /\ fate'[u] = IF u = t THEN "accepted" ELSE fate[u]
  BY <1>1, <1>3 DEF Admit
<1>8. fate[t] = "fresh" /\ UNCHANGED cur
  BY <1>3 DEF MayOffer, Admit
<1>9. QED
  BY <1>3, <1>6, <1>7, <1>8

LEMMA UnsafeBoundNext ==
  ASSUME TypeOK, OnePlace, OnePlace', UnsafeBound, [Next]_vars
  PROVE  UnsafeBound'
<1> SUFFICES ASSUME 0 \notin Maxsizes
             PROVE  \E m \in Maxsizes : Cardinality(UnsafeQueued') <= m
  BY DEF UnsafeBound
<1>1. PICK m \in Maxsizes : Cardinality(UnsafeQueued) <= m
  BY DEF UnsafeBound
<1>2. /\ IsFiniteSet(UnsafeQueued) /\ Cardinality(UnsafeQueued) \in Nat
      /\ Size \in Nat /\ Cardinality(UnsafeQueued) <= Size
  <2>1. UnsafeQueued \subseteq Ready \cup dque
    BY DEF UnsafeQueued
  <2>2. QED
    BY <2>1, SizeBound
<1>3. m \in Nat /\ maxsize \in Maxsizes /\ maxsize \in Nat
  BY BoundsAssumption DEF TypeOK
<1>4. ASSUME UnsafeQueued' \subseteq UnsafeQueued
      PROVE  Cardinality(UnsafeQueued') <= m
  <2>1. /\ Cardinality(UnsafeQueued') <= Cardinality(UnsafeQueued)
        /\ Cardinality(UnsafeQueued') \in Nat
    BY <1>2, <1>4, FS_Subset, FS_CardinalityType
  <2>2. QED
    BY <1>1, <1>2, <1>3, <2>1
<1>5. ASSUME NEW t \in Tasks, NEW k \in Kinds, Posted(t, k)
      PROVE  \E n \in Maxsizes : Cardinality(UnsafeQueued') <= n
  <2>1. \A u \in Tasks : /\ kind'[u] = IF u = t THEN k ELSE kind[u]
                         /\ u \in dque' \/ u \in Ready' <=> u = t \/ u \in dque \/ u \in Ready
    BY <1>5, PostAdds
  <2>2. CASE k = "unsafe"
    <3>1. UnsafeQueued' \subseteq UnsafeQueued \cup {t}
      BY <2>1 DEF UnsafeQueued
    <3>2. /\ IsFiniteSet(UnsafeQueued \cup {t})
          /\ Cardinality(UnsafeQueued \cup {t}) <= Cardinality(UnsafeQueued) + 1
          /\ Cardinality(UnsafeQueued \cup {t}) \in Nat
      <4>1. /\ IsFiniteSet(UnsafeQueued \cup {t})
            /\ Cardinality(UnsafeQueued \cup {t}) =
                 IF t \in UnsafeQueued THEN Cardinality(UnsafeQueued)
                                       ELSE Cardinality(UnsafeQueued) + 1
        BY <1>2, FS_AddElement
      <4>2. Cardinality(UnsafeQueued) \in Nat
        BY <1>2
      <4>3. QED
        BY <4>1, <4>2
    <3>3. /\ Cardinality(UnsafeQueued') <= Cardinality(UnsafeQueued \cup {t})
          /\ Cardinality(UnsafeQueued') \in Nat
      BY <3>1, <3>2, FS_Subset, FS_CardinalityType
    <3>4. Size < maxsize
      <4>1. maxsize # 0
        BY <1>3
      <4>2. QED
        BY <1>5, <2>2, <4>1, Zenon DEF Posted, Room
    <3>5. Cardinality(UnsafeQueued') <= maxsize
      BY <1>2, <1>3, <3>2, <3>3, <3>4
    <3>6. QED
      BY <1>3, <3>5
  <2>3. CASE k # "unsafe"
    <3>1. UnsafeQueued' \subseteq UnsafeQueued
      BY <2>1, <2>3 DEF UnsafeQueued
    <3>2. QED
      BY <1>4, <3>1
  <2>4. QED
    BY <2>2, <2>3
<1>6. CASE /\ UNCHANGED kind
           /\ \A u \in Tasks : u \in dque' \/ u \in Ready' => u \in dque \/ u \in Ready
  <2>1. UnsafeQueued' \subseteq UnsafeQueued
    BY <1>6 DEF UnsafeQueued
  <2>2. QED
    BY <1>4, <2>1
<1>7. QED
  BY <1>5, <1>6, OnlyPostsAdd

(* post() and post_at() test the limit and add under one lock, and count   *)
(* safe tasks against it too: unsafe tasks never exceed the largest limit. *)
THEOREM LimitHolds == Spec => []UnsafeBound
<1>1. Init => UnsafeBound
  <2> SUFFICES ASSUME Init PROVE UnsafeBound
    OBVIOUS
  <2>1. UnsafeQueued = {}
    BY DEF Init, UnsafeQueued, Ready, Range
  <2>2. Cardinality(UnsafeQueued) = 0
    BY <2>1, FS_EmptySet
  <2>3. maxsize \in Maxsizes /\ maxsize \in Nat
    BY BoundsAssumption DEF Init
  <2>4. QED
    BY <2>2, <2>3 DEF UnsafeBound
<1>2. TypeOK /\ OnePlace /\ OnePlace' /\ UnsafeBound /\ [Next]_vars => UnsafeBound'
  BY UnsafeBoundNext
<1>3. QED
  BY <1>1, <1>2, TypeCorrect, EachTaskInOnePlace, PTL DEF Spec

-----------------------------------------------------------------------------
(* The counters.  A task is counted from its post until its handler is     *)
(* under way, and a discarded one is counted for ever.                     *)
Underway(t) == \E w \in Workers : cur[w] = t /\ pc[w] = "running"

Live(t) == fate[t] \in {"accepted", "discarded"} /\ ~Underway(t)

Kept(k) == {t \in Tasks : kind[t] = k /\ Counted(t)}

KindKnown == \A t \in Tasks : fate[t] \in {"accepted", "discarded"} => kind[t] \in Kinds

LEMMA CountedLive ==
  ASSUME OnePlace, NEW t \in Tasks
  PROVE  Counted(t) <=> Live(t)
<1>1. /\ fate[t] = "accepted" <=> t \in dque \/ t \in Ready \/ t \in Taken
      /\ t \in dque => t \notin Ready /\ t \notin Taken
      /\ t \in Ready => t \notin Taken
  BY DEF OnePlace
<1>2. ASSUME t \notin Taken
      PROVE  \A w \in Workers : cur[w] # t
  BY <1>2 DEF Taken
<1>3. CASE t \notin Taken
  BY <1>1, <1>2, <1>3 DEF Counted, Live, Underway
<1>4. CASE t \in Taken
  <2>1. PICK w \in Workers : cur[w] = t
    BY <1>4 DEF Taken
  <2>2. cur[w] # NoTask
    BY <2>1, TasksAssumption
  <2>3. /\ pc[w] = "popped" \/ pc[w] = "running"
        /\ \A v \in Workers : cur[v] = t => v = w
    BY <2>1, <2>2 DEF OnePlace
  <2>4. fate[t] = "accepted" /\ t \notin dque /\ t \notin Ready
    BY <1>1, <1>4
  <2>5. Counted(t) <=> pc[w] = "popped"
    BY <2>1, <2>3, <2>4 DEF Counted
  <2>6. Live(t) <=> pc[w] # "running"
    BY <2>1, <2>3, <2>4 DEF Live, Underway
  <2>7. QED
    BY <2>3, <2>5, <2>6
<1>5. QED
  BY <1>3, <1>4

LEMMA CountedLiveNext ==
  ASSUME OnePlace', NEW t \in Tasks
  PROVE  Counted(t)' <=> Live(t)'
<1>1. /\ fate'[t] = "accepted" <=> t \in dque' \/ t \in Ready' \/ t \in Taken'
      /\ t \in dque' => t \notin Ready' /\ t \notin Taken'
      /\ t \in Ready' => t \notin Taken'
  BY DEF OnePlace
<1>2. ASSUME t \notin Taken'
      PROVE  \A w \in Workers : cur'[w] # t
  BY <1>2 DEF Taken
<1>3. CASE t \notin Taken'
  BY <1>1, <1>2, <1>3 DEF Counted, Live, Underway
<1>4. CASE t \in Taken'
  <2>1. PICK w \in Workers : cur'[w] = t
    BY <1>4 DEF Taken
  <2>2. cur'[w] # NoTask
    BY <2>1, TasksAssumption
  <2>3. /\ pc'[w] = "popped" \/ pc'[w] = "running"
        /\ \A v \in Workers : cur'[v] = t => v = w
    BY <2>1, <2>2 DEF OnePlace
  <2>4. fate'[t] = "accepted" /\ t \notin dque' /\ t \notin Ready'
    BY <1>1, <1>4
  <2>5. Counted(t)' <=> pc'[w] = "popped"
    BY <2>1, <2>3, <2>4 DEF Counted
  <2>6. Live(t)' <=> pc'[w] # "running"
    BY <2>1, <2>3, <2>4 DEF Live, Underway
  <2>7. QED
    BY <2>3, <2>5, <2>6
<1>5. QED
  BY <1>3, <1>4

LEMMA KeptFinite ==
  \A k \in Kinds : IsFiniteSet(Kept(k)) /\ Cardinality(Kept(k)) \in Nat
<1> SUFFICES ASSUME NEW k \in Kinds
             PROVE  IsFiniteSet(Kept(k)) /\ Cardinality(Kept(k)) \in Nat
  OBVIOUS
<1>1. Kept(k) \in SUBSET Tasks
  BY DEF Kept
<1>2. QED
  BY <1>1, TasksAssumption, FS_Subset, FS_CardinalityType

(* A step that leaves the counted tasks as they are and the counters too.  *)
LEMMA SameCount ==
  ASSUME OnePlace, OnePlace', Accounting, UNCHANGED <<kind, counter, safeCounter>>,
         \A u \in Tasks : Live(u)' <=> Live(u)
  PROVE  Accounting'
<1>1. \A u \in Tasks : Counted(u)' <=> Counted(u)
  BY CountedLive, CountedLiveNext
<1>2. /\ {t \in Tasks : kind[t] = "unsafe" /\ Counted(t)}'
           = {t \in Tasks : kind[t] = "unsafe" /\ Counted(t)}
      /\ {t \in Tasks : kind[t] = "safe" /\ Counted(t)}'
           = {t \in Tasks : kind[t] = "safe" /\ Counted(t)}
  BY <1>1
<1>3. QED
  BY <1>2 DEF Accounting

(* A wakeup starts nothing.                                                *)
LEMMA NotifyStarts ==
  ASSUME TypeOK, NotifyOne
  PROVE  \A w \in Workers : pc'[w] = "running" <=> pc[w] = "running"
<1>1. \A w \in Workers : pc'[w] # pc[w] => pc[w] = "asleep" /\ pc'[w] = "awake"
  BY NotifyStill
<1>2. QED
  BY <1>1

(* A post adds one to the counter of its kind.                             *)
LEMMA PostCounts ==
  ASSUME TypeOK, OnePlace, OnePlace', KindKnown, Accounting,
         NEW t \in Tasks, NEW k \in Kinds, Posted(t, k)
  PROVE  Accounting' /\ KindKnown'
<1>1. /\ fate[t] = "fresh" /\ UNCHANGED cur
      /\ \A u \in Tasks : /\ kind'[u] = IF u = t THEN k ELSE kind[u]
                          /\ fate'[u] = IF u = t THEN "accepted" ELSE fate[u]
  BY PostAdds
<1>2. PICK tp \in Time : Admit(t, k, tp)
  BY PostAdds
<1>3. \A w \in Workers : pc'[w] = "running" <=> pc[w] = "running"
  BY <1>2, NotifyStarts DEF Admit
<1>4. \A u \in Tasks : Underway(u)' <=> Underway(u)
  BY <1>1, <1>3 DEF Underway
<1>5. ~Underway(t)
  <2>1. t \notin Taken
    BY <1>1, FateAccepted
  <2>2. QED
    BY <2>1 DEF Taken, Underway
<1>6. /\ \A u \in Tasks : Live(u)' <=> u = t \/ Live(u)
      /\ ~Live(t)
  BY <1>1, <1>4, <1>5 DEF Live
<1>7. /\ \A u \in Tasks : Counted(u)' <=> u = t \/ Counted(u)
      /\ ~Counted(t)
  BY <1>6, CountedLive, CountedLiveNext
<1>8. \A j \in Kinds : Kept(j)' = IF j = k THEN Kept(j) \cup {t} ELSE Kept(j)
  BY <1>1, <1>7 DEF Kept
<1>9. t \notin Kept(k)
  BY <1>7 DEF Kept
<1>10. \A j \in Kinds :
         Cardinality(Kept(j)') = IF j = k THEN Cardinality(Kept(j)) + 1
                                          ELSE Cardinality(Kept(j))
  <2>1. IsFiniteSet(Kept(k))
    BY KeptFinite
  <2>2. Cardinality(Kept(k) \cup {t}) = Cardinality(Kept(k)) + 1
    BY <1>9, <2>1, FS_AddElement
  <2>3. QED
    BY <1>8, <2>2
<1>11. counter = Cardinality(Kept("unsafe")) /\ safeCounter = Cardinality(Kept("safe"))
  BY DEF Accounting, Kept
<1>12. /\ counter' = IF k = "unsafe" THEN counter + 1 ELSE counter
       /\ safeCounter' = IF k = "safe" THEN safeCounter + 1 ELSE safeCounter
  BY <1>2 DEF Admit
<1>13. counter' = Cardinality(Kept("unsafe")') /\ safeCounter' = Cardinality(Kept("safe")')
  BY <1>10, <1>11, <1>12 DEF Kinds
<1>14. Accounting'
  BY <1>13 DEF Accounting, Kept
<1>15. KindKnown'
  BY <1>1 DEF KindKnown
<1>16. QED
  BY <1>14, <1>15

(* The wrapper takes its task out of the count it was in.                  *)
LEMMA CountOutCounts ==
  ASSUME TypeOK, OnePlace, OnePlace', KindKnown, Accounting,
         NEW w \in Workers, CountOut(w)
  PROVE  Accounting'
<1>1. PICK t : t = cur[w]
  OBVIOUS
<1>2. /\ pc[w] = "popped" /\ pc' = [pc EXCEPT ![w] = "running"]
      /\ UNCHANGED <<kind, fate, cur>>
  BY DEF CountOut, Goto, WorkerKeeps
<1>3. cur \in [Workers -> Tasks \cup {NoTask}] /\ pc \in [Workers -> Places]
  BY DEF TypeOK
<1>4. t \in Tasks /\ t \in Taken
  <2>1. t # NoTask
    BY <1>1, <1>2 DEF OnePlace
  <2>2. QED
    BY <1>1, <1>3, <2>1 DEF Taken
<1>5. fate[t] = "accepted" /\ kind[t] \in Kinds
  <2>1. fate[t] = "accepted"
    BY <1>4, FateAccepted
  <2>2. QED
    BY <1>4, <2>1 DEF KindKnown
<1>6. \A v \in Workers : cur[v] = t => v = w
  <2>1. t # NoTask
    BY <1>4, TasksAssumption
  <2>2. QED
    BY <1>1, <2>1 DEF OnePlace
<1>7. \A v \in Workers : pc'[v] = IF v = w THEN "running" ELSE pc[v]
  BY <1>2, <1>3
<1>8. ~Underway(t)
  BY <1>2, <1>6 DEF Underway
<1>9. \A u \in Tasks : Underway(u)' <=> u = t \/ Underway(u)
  BY <1>1, <1>2, <1>6, <1>7 DEF Underway
<1>10. \A u \in Tasks : Live(u)' <=> u # t /\ Live(u)
  BY <1>2, <1>9 DEF Live
<1>11. Live(t)
  BY <1>5, <1>8 DEF Live
<1>12. /\ \A u \in Tasks : Counted(u)' <=> u # t /\ Counted(u)
       /\ Counted(t)
  BY <1>4, <1>10, <1>11, CountedLive, CountedLiveNext
<1>13. \A j \in Kinds : Kept(j)' = IF j = kind[t] THEN Kept(j) \ {t} ELSE Kept(j)
  BY <1>2, <1>12 DEF Kept
<1>14. t \in Kept(kind[t])
  BY <1>4, <1>12 DEF Kept
<1>15. \A j \in Kinds :
         Cardinality(Kept(j)') = IF j = kind[t] THEN Cardinality(Kept(j)) - 1
                                                ELSE Cardinality(Kept(j))
  <2>1. IsFiniteSet(Kept(kind[t]))
    BY <1>5, KeptFinite
  <2>2. Cardinality(Kept(kind[t]) \ {t}) = Cardinality(Kept(kind[t])) - 1
    BY <1>14, <2>1, FS_RemoveElement
  <2>3. QED
    BY <1>13, <2>2
<1>16. counter = Cardinality(Kept("unsafe")) /\ safeCounter = Cardinality(Kept("safe"))
  BY DEF Accounting, Kept
<1>17. IF kind[t] = "unsafe"
       THEN counter' = counter - 1 /\ UNCHANGED safeCounter
       ELSE safeCounter' = safeCounter - 1 /\ UNCHANGED counter
  BY <1>1 DEF CountOut
<1>18. counter' = Cardinality(Kept("unsafe")') /\ safeCounter' = Cardinality(Kept("safe")')
  BY <1>5, <1>15, <1>16, <1>17 DEF Kinds
<1>19. QED
  BY <1>18 DEF Accounting, Kept

(* What a worker does, but for the two steps that count or end a handler.  *)
LEMMA ServeStarts ==
  ASSUME TypeOK, OnePlace, NEW w \in Workers, Serve(w) \/ SpuriousWakeup(w), ~CountOut(w)
  PROVE  \A u \in Tasks : Underway(u)' <=> Underway(u)
<1>1. pc \in [Workers -> Places] /\ cur \in [Workers -> Tasks \cup {NoTask}]
  BY DEF TypeOK
<1>2. ASSUME pc[w] # "running", NEW STATE l, l # "running", Goto(w, l),
             \A v \in Workers : v # w => cur'[v] = cur[v]
      PROVE  \A u \in Tasks : Underway(u)' <=> Underway(u)
  BY <1>1, <1>2 DEF Goto, Underway
<1>3. CASE PollOne(w)
  <2>1. pc[w] = "poll"
    BY <1>3 DEF PollOne
  <2>2. Goto(w, "ret") \/ Goto(w, "wait") \/ Goto(w, "popped")
    BY <1>3, Zenon DEF PollOne, Take
  <2>3. \A v \in Workers : v # w => cur'[v] = cur[v]
    BY <1>1, <1>3, PollTakes
  <2>4. QED
    BY <1>2, <2>1, <2>2, <2>3
<1>4. CASE ~PollOne(w)
  <2>1. UNCHANGED cur
    BY <1>4, ServeStill DEF Still
  <2>2. \A v \in Workers : pc'[v] = "running" <=> pc[v] = "running"
    <3>1. CASE Enter(w) \/ LoopCheck(w) \/ WakeUp(w) \/ Return(w)
      BY <1>1, <3>1 DEF Enter, LoopCheck, WakeUp, Return, Goto
    <3>2. CASE RunWait(w)
      <4>1. pc[w] = "wait" /\ (Goto(w, "check") \/ Goto(w, "asleep"))
        BY <3>2 DEF RunWait
      <4>2. QED
        BY <1>1, <4>1 DEF Goto
    <3>3. CASE Timeout(w) \/ SpuriousWakeup(w)
      BY <1>1, <3>3 DEF Timeout, SpuriousWakeup, Wake
    <3>4. QED
      BY <1>4, <3>1, <3>2, <3>3 DEF Serve
  <2>3. QED
    BY <2>1, <2>2 DEF Underway
<1>5. QED
  BY <1>3, <1>4

LEMMA FinishCounts ==
  ASSUME TypeOK, OnePlace, OnePlace', Accounting, NEW w \in Workers, Finish(w)
  PROVE  Accounting'
<1>1. PICK t : t = cur[w]
  OBVIOUS
<1>2. /\ pc[w] = "running" /\ UNCHANGED <<kind, counter, safeCounter>>
      /\ fate' = [fate EXCEPT ![t] = "finished"]
      /\ cur' = [cur EXCEPT ![w] = NoTask]
      /\ Goto(w, "check") \/ Goto(w, "ret")
  BY <1>1 DEF Finish, WorkerKeeps, sizeVars
<1>3. /\ cur \in [Workers -> Tasks \cup {NoTask}] /\ pc \in [Workers -> Places]
      /\ fate \in [Tasks -> Fates] /\ NoTask \notin Tasks
  BY TasksAssumption DEF TypeOK
<1>4. t \in Tasks
  BY <1>1, <1>2, <1>3 DEF OnePlace
<1>5. \A u \in Tasks : fate'[u] = IF u = t THEN "finished" ELSE fate[u]
  BY <1>2, <1>3, <1>4
<1>6. \A v \in Workers : /\ cur'[v] = IF v = w THEN NoTask ELSE cur[v]
                         /\ v # w => pc'[v] = pc[v]
  BY <1>2, <1>3 DEF Goto
<1>7. Underway(t)
  BY <1>1, <1>2 DEF Underway
<1>8. \A u \in Tasks : u # t => (Underway(u)' <=> Underway(u))
  BY <1>1, <1>3, <1>6 DEF Underway
<1>9. \A u \in Tasks : Live(u)' <=> Live(u)
  BY <1>5, <1>7, <1>8 DEF Live
<1>10. QED
  BY <1>2, <1>9, SameCount

(* reset() leaves the counters as they are, and the tasks it throws away   *)
(* in them.                                                                *)
LEMMA ResetCounts ==
  ASSUME TypeOK, OnePlace, OnePlace', Accounting, KindKnown, ResetPopQue \/ ResetPopDelayed
  PROVE  Accounting' /\ KindKnown'
<1>1. UNCHANGED <<cur, pc, kind, counter, safeCounter>>
  BY DEF ResetPopQue, ResetPopDelayed, ResetKeeps, workVars, sizeVars
<1>2. \/ UNCHANGED fate
      \/ \E t \in Tasks : (t \in Ready \/ t \in dque) /\ Discard(t)
  <2>1. CASE ResetPopQue /\ que # <<>>
    <3>1. Discard(Head(que)) /\ que \in Seq(Tasks)
      BY <2>1, Zenon DEF ResetPopQue, TypeOK
    <3>2. Head(que) \in Tasks /\ Head(que) \in Ready
      BY <2>1, <3>1, HeadTailProperties DEF Ready, Range
    <3>3. QED
      BY <3>1, <3>2
  <2>2. CASE ResetPopDelayed /\ dque # {}
    <3>1. PICK t \in Earliest(dque) : Discard(t)
      BY <2>2, Zenon DEF ResetPopDelayed
    <3>2. t \in Tasks /\ t \in dque
      BY <2>2, EarliestType DEF TypeOK
    <3>3. QED
      BY <3>1, <3>2
  <2>3. CASE (ResetPopQue /\ que = <<>>) \/ (ResetPopDelayed /\ dque = {})
    BY <2>3 DEF ResetPopQue, ResetPopDelayed
  <2>4. QED
    BY <2>1, <2>2, <2>3
<1>3. \A u \in Tasks : Underway(u)' <=> Underway(u)
  BY <1>1 DEF Underway
<1>4. \A u \in Tasks : fate[u] \in {"accepted", "discarded"}
                          <=> fate'[u] \in {"accepted", "discarded"}
  <2>1. CASE UNCHANGED fate
    BY <2>1
  <2>2. ASSUME NEW t \in Tasks, t \in Ready \/ t \in dque, Discard(t)
        PROVE  \A u \in Tasks : fate[u] \in {"accepted", "discarded"}
                                  <=> fate'[u] \in {"accepted", "discarded"}
    <3>1. \A u \in Tasks : fate'[u] = IF u = t THEN "discarded" ELSE fate[u]
      BY <2>2 DEF Discard, TypeOK
    <3>2. fate[t] = "accepted"
      BY <2>2, FateAccepted
    <3>3. QED
      BY <3>1, <3>2
  <2>3. QED
    BY <1>2, <2>1, <2>2
<1>5. \A u \in Tasks : Live(u)' <=> Live(u)
  BY <1>3, <1>4 DEF Live
<1>6. QED
  BY <1>1, <1>4, <1>5, SameCount DEF KindKnown

(* The rest of the owner's steps start and count nothing.                  *)
LEMMA OwnerStarts ==
  ASSUME TypeOK, Owner \/ DropReturns \/ Tick, ~ResetPopQue, ~ResetPopDelayed
  PROVE  /\ UNCHANGED <<fate, cur, kind, counter, safeCounter>>
         /\ \A w \in Workers : pc'[w] = "running" <=> pc[w] = "running"
<1>1. CASE Stop
  <2>1. Wake(Asleep) /\ UNCHANGED <<fate, cur, kind, counter, safeCounter>>
    BY <1>1 DEF Stop, taskVars, sizeVars
  <2>2. \A w \in Workers : pc'[w] # pc[w] => pc[w] = "asleep" /\ pc'[w] = "awake"
    BY <2>1, WakeStill
  <2>3. QED
    BY <2>1, <2>2
<1>2. CASE StartAll
  <2>1. /\ \A w \in Workers : pc[w] = "done" /\ pc'[w] = "out"
        /\ UNCHANGED <<fate, cur, kind, counter, safeCounter>>
    BY <1>2 DEF StartAll, AllDone, taskVars, sizeVars
  <2>2. QED
    BY <2>1
<1>3. CASE ResetFlags \/ ResetTestQue \/ ResetTestDelayed
  BY <1>3 DEF ResetFlags, ResetTestQue, ResetTestDelayed, ResetTest, ResetKeeps,
              workVars, sizeVars
<1>4. CASE (\E n \in Maxsizes : SetMaxsize(n)) \/ DropReturns \/ Tick
  BY <1>4 DEF SetMaxsize, DropReturns, Tick, taskVars, workVars, sizeVars
<1>5. QED
  BY <1>1, <1>2, <1>3, <1>4 DEF Owner, ResetStep

LEMMA AccountingNext ==
  ASSUME TypeOK, OnePlace, OnePlace', KindKnown, Accounting, [Next]_vars
  PROVE  Accounting' /\ KindKnown'
<1>1. CASE Client
  <2>1. PICK t \in Tasks :
           \/ \E k \in Kinds : Posted(t, k)
           \/ \E hasDrop \in BOOLEAN : Refuse(t, hasDrop)
    BY <1>1, ClientCases DEF Posted
  <2>2. CASE \E hasDrop \in BOOLEAN : Refuse(t, hasDrop)
    <3>1. /\ fate[t] = "fresh" /\ fate' = [fate EXCEPT ![t] = "refused"]
          /\ UNCHANGED <<cur, pc, kind, counter, safeCounter>>
      BY <2>2 DEF Refuse, MayOffer, workVars, sizeVars
    <3>2. \A u \in Tasks : fate'[u] = IF u = t THEN "refused" ELSE fate[u]
      BY <3>1 DEF TypeOK
    <3>3. \A u \in Tasks : Live(u)' <=> Live(u)
      BY <3>1, <3>2 DEF Live, Underway
    <3>4. QED
      BY <3>1, <3>2, <3>3, SameCount DEF KindKnown
  <2>3. QED
    BY <2>1, <2>2, PostCounts
<1>2. CASE Worker
  <2>1. PICK w \in Workers : Serve(w) \/ Finish(w) \/ SpuriousWakeup(w)
    BY <1>2 DEF Worker
  <2>2. UNCHANGED kind
    BY <2>1 DEF Serve, Enter, LoopCheck, PollOne, CountOut, RunWait, Timeout, WakeUp,
                Return, Finish, SpuriousWakeup, WorkerKeeps
  <2>3. CASE CountOut(w)
    <3>1. UNCHANGED fate
      BY <2>3 DEF CountOut
    <3>2. QED
      BY <2>2, <2>3, <3>1, CountOutCounts DEF KindKnown
  <2>4. CASE Finish(w)
    <3>1. \A u \in Tasks : fate'[u] \in {"accepted", "discarded"}
                             => fate[u] \in {"accepted", "discarded"}
      BY <2>4 DEF Finish, TypeOK
    <3>2. QED
      BY <2>2, <2>4, <3>1, FinishCounts DEF KindKnown
  <2>5. CASE (Serve(w) \/ SpuriousWakeup(w)) /\ ~CountOut(w)
    <3>1. UNCHANGED <<fate, counter, safeCounter>>
      BY <2>5 DEF Serve, Enter, LoopCheck, PollOne, RunWait, Timeout, WakeUp, Return,
                  SpuriousWakeup, sizeVars
    <3>2. \A u \in Tasks : Live(u)' <=> Live(u)
      BY <2>5, <3>1, ServeStarts DEF Live
    <3>3. QED
      BY <2>2, <3>1, <3>2, SameCount DEF KindKnown
  <2>6. QED
    BY <2>1, <2>3, <2>4, <2>5
<1>3. CASE ResetPopQue \/ ResetPopDelayed
  BY <1>3, ResetCounts
<1>4. CASE (Owner \/ DropReturns \/ Tick) /\ ~ResetPopQue /\ ~ResetPopDelayed
  <2>1. /\ UNCHANGED <<fate, cur, kind, counter, safeCounter>>
        /\ \A u \in Tasks : Underway(u)' <=> Underway(u)
    BY <1>4, OwnerStarts DEF Underway
  <2>2. QED
    BY <2>1, SameCount DEF Live, KindKnown
<1>5. CASE UNCHANGED vars
  BY <1>5, SameCount DEF vars, Live, Underway, KindKnown
<1>6. QED
  BY <1>1, <1>2, <1>3, <1>4, <1>5 DEF Next

(* The wrappers and the posts keep _counter and _safe_counter: each is the *)
(* number of the tasks of its kind that are in the queue or about to run,  *)
(* plus those reset() has ever thrown away.                                *)
THEOREM CountersAreRight == Spec => []Accounting
<1>1. Init => Accounting /\ KindKnown
  <2> SUFFICES ASSUME Init PROVE Accounting /\ KindKnown
    OBVIOUS
  <2>1. OnePlace /\ \A t \in Tasks : fate[t] = "fresh"
    BY OnePlaceInit DEF Init
  <2>2. \A t \in Tasks : ~Counted(t)
    BY <2>1, CountedLive DEF Live
  <2>3. /\ {t \in Tasks : kind[t] = "unsafe" /\ Counted(t)} = {}
        /\ {t \in Tasks : kind[t] = "safe" /\ Counted(t)} = {}
    BY <2>2
  <2>4. QED
    BY <2>1, <2>3, FS_EmptySet DEF Init, Accounting, KindKnown
<1>2. TypeOK /\ OnePlace /\ OnePlace' /\ KindKnown /\ Accounting /\ [Next]_vars
        => Accounting' /\ KindKnown'
  BY AccountingNext
<1>3. QED
  BY <1>1, <1>2, TypeCorrect, EachTaskInOnePlace, PTL DEF Spec
===============================================================================
