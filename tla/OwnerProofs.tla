------------------------------ MODULE OwnerProofs ------------------------------
(* Proofs about Owner, for any threads, handlers, ids, copies and tokens.  *)
EXTENDS Owner, FiniteSetTheorems, TLAPS

-----------------------------------------------------------------------------
(* The lock by itself.                                                     *)

LockInv == LockTypeOK /\ Exclusion /\ NobodyForgotten

-----------------------------------------------------------------------------
(* The threads inside, and how a step changes them.                        *)

LEMMA InsideFinite ==
  ASSUME NEW p
  PROVE  IsFiniteSet(At(p)) /\ Cardinality(At(p)) \in Nat
<1>1. At(p) \subseteq Threads
  BY DEF At
<1>2. QED
  BY <1>1, ThreadsAssumption, FS_Subset, FS_CardinalityType

LEMMA OneMore ==
  ASSUME NEW S, IsFiniteSet(S), NEW x, x \notin S
  PROVE  Cardinality(S \cup {x}) = Cardinality(S) + 1
BY FS_AddElement

LEMMA OneLess ==
  ASSUME NEW S, IsFiniteSet(S), NEW x, x \in S
  PROVE  Cardinality(S \ {x}) = Cardinality(S) - 1
BY FS_RemoveElement

LEMMA SomeoneInside ==
  ASSUME NEW S, IsFiniteSet(S), NEW x, x \in S
  PROVE  Cardinality(S) # 0
BY FS_EmptySet

(* A step that moves one thread to place q.                                *)
LEMMA Moves ==
  ASSUME LockTypeOK, NEW t \in Threads, NEW q \in Places, at' = [at EXCEPT ![t] = q]
  PROVE  /\ at' \in [Threads -> Places]
         /\ \A p \in Places : At(p)' = IF p = q THEN At(p) \cup {t} ELSE At(p) \ {t}
<1>1. at \in [Threads -> Places]
  BY DEF LockTypeOK
<1>2. at' \in [Threads -> Places]
  BY <1>1
<1>3. \A u \in Threads : at'[u] = IF u = t THEN q ELSE at[u]
  BY <1>1
<1>4. QED
  BY <1>2, <1>3 DEF At

(* A thread that leaves and tells the sleepers of which.                   *)
LEMMA Departs ==
  ASSUME LockTypeOK, NEW t \in Threads, NEW which, Depart(t, which)
  PROVE  /\ at' \in [Threads -> Places]
         /\ At("reads")' = At("reads") \ {t}
         /\ At("writes")' = At("writes") \ {t}
         /\ At("sleepR")' \subseteq At("sleepR") /\ At("sleepW")' \subseteq At("sleepW")
         /\ "readers" \in which => At("sleepR")' = {}
         /\ "writers" \in which => At("sleepW")' = {}
<1>1. at \in [Threads -> Places]
  BY DEF LockTypeOK
<1>2. \A u \in Threads : at'[u] = IF u = t THEN "out" ELSE Wake(at[u], which)
  BY DEF Depart
<1>3. \A u \in Threads : Wake(at[u], which) \in Places
  BY <1>1 DEF Wake, Places
<1>4. at' \in [Threads -> Places]
  <2>1. at' = [u \in Threads |-> IF u = t THEN "out" ELSE Wake(at[u], which)]
    BY DEF Depart
  <2>2. QED
    BY <2>1, <1>3 DEF Places
<1>5. \A u \in Threads : /\ at'[u] = "reads" <=> u # t /\ at[u] = "reads"
                         /\ at'[u] = "writes" <=> u # t /\ at[u] = "writes"
                         /\ at'[u] = "sleepR" => at[u] = "sleepR" /\ "readers" \notin which
                         /\ at'[u] = "sleepW" => at[u] = "sleepW" /\ "writers" \notin which
  BY <1>1, <1>2 DEF Wake, Places
<1>6. QED
  BY <1>4, <1>5 DEF At

-----------------------------------------------------------------------------
LEMMA InitHolds == LockInit => LockInv
<1> SUFFICES ASSUME LockInit PROVE LockInv
  OBVIOUS
<1>1. LockTypeOK
  BY DEF LockInit, LockTypeOK, Places
<1>2. \A p : p # "out" => At(p) = {}
  BY DEF LockInit, At
<1>3. Cardinality({}) = 0
  BY FS_EmptySet
<1>4. QED
  BY <1>1, <1>2, <1>3 DEF LockInv, Exclusion, NobodyForgotten, LockInit

LEMMA AskKeeps ==
  ASSUME LockInv, NEW t \in Threads, NEW p, Ask(t, p)
  PROVE  LockInv'
<1>1. p \in Places /\ p \in {"wantR", "wantW"} /\ LockTypeOK /\ at[t] = "out"
  BY DEF Ask, Places, LockInv
<1>2. at' = [at EXCEPT ![t] = p] /\ readers' = readers /\ writer' = writer
  BY DEF Ask
<1>3. /\ at' \in [Threads -> Places]
      /\ \A q \in Places : At(q)' = IF q = p THEN At(q) \cup {t} ELSE At(q) \ {t}
  BY <1>1, <1>2, Moves
<1>4. /\ At("reads")' = At("reads") /\ At("writes")' = At("writes")
      /\ At("sleepR")' = At("sleepR") /\ At("sleepW")' = At("sleepW")
  BY <1>1, <1>3 DEF Places, At
<1>5. LockTypeOK'
  BY <1>2, <1>3 DEF LockInv, LockTypeOK
<1>6. QED
  BY <1>2, <1>4, <1>5 DEF LockInv, Exclusion, NobodyForgotten

LEMMA LockKeeps ==
  ASSUME LockInv, NEW t \in Threads, Lock(t)
  PROVE  LockInv'
<1>1. LockTypeOK /\ at[t] = "wantW" /\ readers \in Nat /\ writer \in Nat /\ readers' = readers
  BY DEF Lock, LockInv, LockTypeOK
<1>2. CASE writer = 0 /\ readers = 0
  <2>1. writer' = writer + 1 /\ at' = [at EXCEPT ![t] = "writes"]
    BY <1>2 DEF Lock
  <2>2. /\ at' \in [Threads -> Places]
        /\ \A q \in Places : At(q)' = IF q = "writes" THEN At(q) \cup {t} ELSE At(q) \ {t}
    BY <1>1, <2>1, Moves DEF Places
  <2>3. /\ At("reads")' = At("reads") /\ At("writes")' = At("writes") \cup {t}
        /\ At("sleepR")' = At("sleepR") /\ At("sleepW")' = At("sleepW")
        /\ t \notin At("writes")
    BY <1>1, <2>2 DEF Places, At
  <2>4. Cardinality(At("writes")') = Cardinality(At("writes")) + 1
    BY <2>3, InsideFinite, OneMore
  <2>5. LockTypeOK'
    BY <1>1, <2>1, <2>2 DEF LockTypeOK
  <2>6. Exclusion'
    BY <1>1, <1>2, <2>1, <2>3, <2>4 DEF LockInv, Exclusion
  <2>7. NobodyForgotten'
    BY <1>1, <1>2, <2>1 DEF NobodyForgotten
  <2>8. QED
    BY <2>5, <2>6, <2>7 DEF LockInv
<1>3. CASE ~(writer = 0 /\ readers = 0)
  <2>1. writer' = writer /\ at' = [at EXCEPT ![t] = "sleepW"]
    BY <1>3 DEF Lock
  <2>2. /\ at' \in [Threads -> Places]
        /\ \A q \in Places : At(q)' = IF q = "sleepW" THEN At(q) \cup {t} ELSE At(q) \ {t}
    BY <1>1, <2>1, Moves DEF Places
  <2>3. /\ At("reads")' = At("reads") /\ At("writes")' = At("writes")
        /\ At("sleepR")' = At("sleepR")
    BY <1>1, <2>2 DEF Places, At
  <2>4. LockTypeOK'
    BY <1>1, <2>1, <2>2 DEF LockTypeOK
  <2>5. QED
    BY <1>1, <1>3, <2>1, <2>3, <2>4 DEF LockInv, Exclusion, NobodyForgotten
<1>4. QED
  BY <1>2, <1>3

LEMMA LockRKeeps ==
  ASSUME LockInv, NEW t \in Threads, LockR(t)
  PROVE  LockInv'
<1>1. LockTypeOK /\ at[t] = "wantR" /\ readers \in Nat /\ writer \in Nat /\ writer' = writer
  BY DEF LockR, LockInv, LockTypeOK
<1>2. CASE writer = 0
  <2>1. readers' = readers + 1 /\ at' = [at EXCEPT ![t] = "reads"]
    BY <1>2 DEF LockR
  <2>2. /\ at' \in [Threads -> Places]
        /\ \A q \in Places : At(q)' = IF q = "reads" THEN At(q) \cup {t} ELSE At(q) \ {t}
    BY <1>1, <2>1, Moves DEF Places
  <2>3. /\ At("writes")' = At("writes") /\ At("reads")' = At("reads") \cup {t}
        /\ At("sleepR")' = At("sleepR") /\ At("sleepW")' = At("sleepW")
        /\ t \notin At("reads")
    BY <1>1, <2>2 DEF Places, At
  <2>4. Cardinality(At("reads")') = Cardinality(At("reads")) + 1
    BY <2>3, InsideFinite, OneMore
  <2>5. LockTypeOK'
    BY <1>1, <2>1, <2>2 DEF LockTypeOK
  <2>6. Exclusion'
    BY <1>1, <1>2, <2>1, <2>3, <2>4 DEF LockInv, Exclusion
  <2>7. NobodyForgotten'
    BY <1>1, <1>2, <2>1, <2>3 DEF LockInv, NobodyForgotten
  <2>8. QED
    BY <2>5, <2>6, <2>7 DEF LockInv
<1>3. CASE writer # 0
  <2>1. readers' = readers /\ at' = [at EXCEPT ![t] = "sleepR"]
    BY <1>3 DEF LockR
  <2>2. /\ at' \in [Threads -> Places]
        /\ \A q \in Places : At(q)' = IF q = "sleepR" THEN At(q) \cup {t} ELSE At(q) \ {t}
    BY <1>1, <2>1, Moves DEF Places
  <2>3. /\ At("reads")' = At("reads") /\ At("writes")' = At("writes")
        /\ At("sleepW")' = At("sleepW")
    BY <1>1, <2>2 DEF Places, At
  <2>4. LockTypeOK'
    BY <1>1, <2>1, <2>2 DEF LockTypeOK
  <2>5. QED
    BY <1>1, <1>3, <2>1, <2>3, <2>4 DEF LockInv, Exclusion, NobodyForgotten
<1>4. QED
  BY <1>2, <1>3

LEMMA UnlockKeeps ==
  ASSUME LockInv, NEW t \in Threads, Unlock(t)
  PROVE  LockInv'
<1>1. /\ LockTypeOK /\ at[t] = "writes" /\ readers \in Nat /\ writer \in Nat
      /\ readers' = readers /\ writer' = writer - 1
  BY DEF Unlock, LockInv, LockTypeOK
<1>2. Depart(t, {"writers", "readers"})
  BY DEF Unlock
<1>3. /\ at' \in [Threads -> Places]
      /\ At("reads")' = At("reads") \ {t} /\ At("writes")' = At("writes") \ {t}
      /\ At("sleepR")' = {} /\ At("sleepW")' = {}
  BY <1>1, <1>2, Departs
<1>4. t \in At("writes") /\ t \notin At("reads")
  BY <1>1 DEF At
<1>5. /\ Cardinality(At("writes")') = Cardinality(At("writes")) - 1
      /\ At("reads")' = At("reads")
  BY <1>3, <1>4, InsideFinite, OneLess
<1>6. writer = 1
  <2>1. Cardinality(At("writes")) # 0
    BY <1>4, InsideFinite, SomeoneInside
  <2>2. writer = Cardinality(At("writes")) /\ writer <= 1
    BY DEF LockInv, Exclusion
  <2>3. QED
    BY <1>1, <2>1, <2>2
<1>7. LockTypeOK'
  BY <1>1, <1>3, <1>6 DEF LockTypeOK
<1>8. Exclusion'
  BY <1>1, <1>5, <1>6 DEF LockInv, Exclusion
<1>9. NobodyForgotten'
  BY <1>3 DEF NobodyForgotten
<1>10. QED
  BY <1>7, <1>8, <1>9 DEF LockInv

LEMMA UnlockRKeeps ==
  ASSUME LockInv, NEW t \in Threads, UnlockR(t)
  PROVE  LockInv'
<1> DEFINE told == IF readers' = 0 THEN {"writers"} ELSE {}
<1>1. /\ LockTypeOK /\ at[t] = "reads" /\ readers \in Nat /\ writer \in Nat
      /\ writer' = writer /\ readers' = readers - 1
  BY DEF UnlockR, LockInv, LockTypeOK
<1>2. Depart(t, told)
  BY DEF UnlockR
<1> HIDE DEF told
<1>3. /\ at' \in [Threads -> Places]
      /\ At("reads")' = At("reads") \ {t} /\ At("writes")' = At("writes") \ {t}
      /\ At("sleepR")' \subseteq At("sleepR")
      /\ "writers" \in told => At("sleepW")' = {}
  BY <1>1, <1>2, Departs
<1>4. t \in At("reads") /\ t \notin At("writes")
  BY <1>1 DEF At
<1>5. /\ Cardinality(At("reads")') = Cardinality(At("reads")) - 1
      /\ At("writes")' = At("writes")
  BY <1>3, <1>4, InsideFinite, OneLess
<1>6. readers > 0 /\ writer = 0
  <2>1. Cardinality(At("reads")) # 0
    BY <1>4, InsideFinite, SomeoneInside
  <2>2. readers = Cardinality(At("reads")) /\ writer <= 1 /\ (writer = 1 => readers = 0)
    BY DEF LockInv, Exclusion
  <2>3. QED
    BY <1>1, <2>1, <2>2
<1>7. LockTypeOK'
  BY <1>1, <1>3, <1>6 DEF LockTypeOK
<1>8. Exclusion'
  BY <1>1, <1>5, <1>6 DEF LockInv, Exclusion
<1>9. At("sleepR") = {}
  BY <1>6 DEF LockInv, NobodyForgotten
<1>10. readers' = 0 => At("sleepW")' = {}
  BY <1>3 DEF told
<1>11. NobodyForgotten'
  BY <1>3, <1>9, <1>10 DEF NobodyForgotten
<1>12. QED
  BY <1>7, <1>8, <1>11 DEF LockInv

LEMMA SpuriousKeeps ==
  ASSUME LockInv, NEW t \in Threads, Spurious(t)
  PROVE  LockInv'
<1> DEFINE q == Wake(at[t], {"readers", "writers"})
<1>1. /\ LockTypeOK /\ at[t] \in {"sleepR", "sleepW"}
      /\ readers' = readers /\ writer' = writer /\ at' = [at EXCEPT ![t] = q]
  BY DEF Spurious, LockInv, LockTypeOK
<1>2. q \in {"wantR", "wantW"}
  BY <1>1 DEF Wake
<1> HIDE DEF q
<1>3. /\ at' \in [Threads -> Places]
      /\ \A p \in Places : At(p)' = IF p = q THEN At(p) \cup {t} ELSE At(p) \ {t}
  BY <1>1, <1>2, Moves DEF Places
<1>4. /\ At("reads")' = At("reads") /\ At("writes")' = At("writes")
      /\ At("sleepR")' \subseteq At("sleepR") /\ At("sleepW")' \subseteq At("sleepW")
  BY <1>1, <1>2, <1>3 DEF Places, At
<1>5. LockTypeOK'
  BY <1>1, <1>3 DEF LockTypeOK
<1>6. QED
  BY <1>1, <1>4, <1>5 DEF LockInv, Exclusion, NobodyForgotten

LEMMA StepKeeps == LockInv /\ [LockNext]_lockVars => LockInv'
<1> SUFFICES ASSUME LockInv, [LockNext]_lockVars PROVE LockInv'
  OBVIOUS
<1>1. ASSUME NEW t \in Threads, Ask(t, "wantR") \/ Ask(t, "wantW") PROVE LockInv'
  BY <1>1, AskKeeps
<1>2. ASSUME NEW t \in Threads, Test(t) PROVE LockInv'
  BY <1>2, LockKeeps, LockRKeeps, SpuriousKeeps DEF Test
<1>3. ASSUME NEW t \in Threads, Unlock(t) \/ UnlockR(t) PROVE LockInv'
  BY <1>3, UnlockKeeps, UnlockRKeeps
<1>4. CASE UNCHANGED lockVars
  BY <1>4 DEF lockVars, LockInv, LockTypeOK, Exclusion, NobodyForgotten, At
<1>5. QED
  BY <1>1, <1>2, <1>3, <1>4 DEF LockNext

(* The counters are the numbers of threads inside, and a writer is alone,  *)
(* however many threads there are: abort() is never called.                *)
THEOREM LockExcludes == LockSpec => []Exclusion
<1>1. LockInv => Exclusion
  BY DEF LockInv
<1>2. QED
  BY <1>1, InitHolds, StepKeeps, PTL DEF LockSpec

(* A free lock leaves nobody asleep, however many threads there are.       *)
THEOREM LockForgetsNobody == LockSpec => []NobodyForgotten
<1>1. LockInv => NobodyForgotten
  BY DEF LockInv
<1>2. QED
  BY <1>1, InitHolds, StepKeeps, PTL DEF LockSpec


-----------------------------------------------------------------------------
(* The owner uses its lock as RWLock says: every step of it is a step of   *)
(* the lock or leaves the lock alone.                                      *)

LEMMA AsksLock ==
  ASSUME NEW t, NEW op, AskFor(t, op)
  PROVE  Ask(t, "wantR") \/ Ask(t, "wantW")
BY DEF AskFor

LEMMA StepIsLockStep == [Next]_vars => [LockNext]_lockVars
<1> SUFFICES ASSUME [Next]_vars PROVE [LockNext]_lockVars
  OBVIOUS
<1>1. ASSUME NEW t \in Threads, OwnerStep(t) PROVE [LockNext]_lockVars
  <2>1. CASE Start(t) \/ StartRelease(t)
    BY <2>1, AsksLock DEF Start, StartRelease, LockNext
  <2>2. CASE EnableTracking(t)
    BY <2>2, AsksLock DEF EnableTracking, LockNext
  <2>t. CASE \E v \in {"on", "off"} : TestTracking(t, v)
    BY <2>t DEF TestTracking
  <2>3. CASE Wait(t)
    BY <2>3 DEF Wait, LockNext
  <2>4. CASE Alive(t) \/ Wrap(t) \/ Reset(t) \/ Clear(t) \/ SetNoCall(t) \/ Callback(t)
    BY <2>4 DEF Alive, Wrap, Reset, Clear, SetNoCall, Callback, Out, LockNext
  <2>5. CASE \E i \in Ids : Release(t, i) \/ \E h \in Handlers : Track(t, i, h)
    BY <2>5 DEF Release, Track, Out, LockNext
  <2>6. QED
    BY <1>1, <2>1, <2>2, <2>t, <2>3, <2>4, <2>5 DEF OwnerStep
<1>2. ASSUME NEW t \in Threads, CallStep(t) PROVE [LockNext]_lockVars
  BY <1>2 DEF CallStep, End, Begin
<1>3. ASSUME NEW k \in copies, DropAlive(k) PROVE [LockNext]_lockVars
  BY <1>3 DEF DropAlive
<1>4. ASSUME NEW c \in Copies, CopyStep(c) PROVE [LockNext]_lockVars
  BY <1>4 DEF CopyStep, CallCallback, Destroy, GiveUp, CopyCallback, CallbackKeeps
<1>5. CASE UNCHANGED vars
  BY <1>5 DEF vars
<1>6. QED
  BY <1>1, <1>2, <1>3, <1>4, <1>5 DEF Next

(* Whatever the owner's operations do, they are calls of the lock.         *)
THEOREM UsesLock == Spec => LockSpec
<1>1. Init => LockInit
  BY DEF Init
<1>2. QED
  BY <1>1, StepIsLockStep, PTL DEF Spec, LockSpec

(* In the owner too a writer is alone and the counters are exact.          *)
THEOREM OwnerExcludes == Spec => []Exclusion
BY UsesLock, LockExcludes, PTL

(* Nor does the owner leave a thread asleep at a free lock.                *)
THEOREM OwnerForgetsNobody == Spec => []NobodyForgotten
BY UsesLock, LockForgetsNobody, PTL

-----------------------------------------------------------------------------
(* What the variables are.                                                 *)

OperationTypes ==
  /\ use \in Uses
  /\ doing \in [Threads -> Reading \cup Writing \cup {"none"}]
  /\ trackingFlag \in BOOLEAN
  /\ enabling \in [Threads -> {"none", "on", "off"}]

HandlerTypes ==
  /\ copies \subseteq Token
  /\ weak \in [Handlers -> 0..MaxTokens]
  /\ inCall \in [Threads -> 0..MaxTokens]
  /\ noCall \in BOOLEAN

(* A token is with the owner, with one id of its map, or let go, and these *)
(* are all made already.                                                   *)
TokenInv ==
  /\ made \in Token /\ alive \in 1..made
  /\ trackingMap \in [Ids -> 0..made]
  /\ cut \subseteq 1..made
  /\ alive \notin cut
  /\ \A i \in Ids : trackingMap[i] # alive /\ trackingMap[i] \notin cut
  /\ \A i, j \in Ids : (trackingMap[i] = trackingMap[j] /\ trackingMap[i] # 0) => i = j

(* The flag is set by the call or the report, and as long as neither has   *)
(* been and no two destructors met, some copy is there to make one.        *)
CallbackInv ==
  /\ copy \in [Copies -> {"gone", "live", "passing"}]
  /\ callback \in CallbackRecord
  /\ callback.calls + callback.reports <= 1
  /\ ~callback.ready => callback.calls + callback.reports = 0
  /\ (callback.ready /\ callback.noCall) => callback.calls + callback.reports = 1
  /\ (callback.noCall /\ ~callback.ready /\ ~callback.overlap)
       => \E c \in Copies : copy[c] = "live"

OwnerInv == OperationTypes /\ HandlerTypes /\ TokenInv /\ CallbackInv

LEMMA TokensUp == ASSUME TokenInv
                  PROVE  /\ 1..made \subseteq Token /\ 0..made \subseteq 0..MaxTokens
                         /\ made \in Nat /\ MaxTokens \in Nat
BY TokensAssumption DEF TokenInv, Token

LEMMA InitOwner == Init => OwnerInv
<1> SUFFICES ASSUME Init PROVE OwnerInv
  OBVIOUS
<1>1. OperationTypes
  BY DEF Init, OperationTypes
<1>2. HandlerTypes
  <2>1. 0 \in 0..MaxTokens
    BY TokensAssumption
  <2>2. QED
    BY <2>1 DEF Init, HandlerTypes
<1>3. TokenInv
  BY TokensAssumption DEF Init, TokenInv, Token
<1>4. CallbackInv
  BY DEF Init, CallbackInv, CallbackRecord
<1>5. QED
  BY <1>1, <1>2, <1>3, <1>4 DEF OwnerInv

-----------------------------------------------------------------------------
(* The operations.                                                         *)

LEMMA AskTypes ==
  ASSUME OperationTypes, NEW t \in Threads, NEW op, AskFor(t, op)
  PROVE  /\ use' \in Uses
         /\ doing' \in [Threads -> Reading \cup Writing \cup {"none"}]
<1>1. op \in Reading \cup Writing
  BY UsesAssumption DEF AskFor, OperationTypes
<1>2. QED
  BY <1>1 DEF AskFor, OperationTypes

LEMMA OutTypes ==
  ASSUME OperationTypes, NEW t \in Threads, Out(t)
  PROVE  OperationTypes'
BY DEF Out, flagVars, OperationTypes

LEMMA OperationsKept == OwnerInv /\ [Next]_vars => OperationTypes'
<1> SUFFICES ASSUME OwnerInv, [Next]_vars PROVE OperationTypes'
  OBVIOUS
<1>0. OperationTypes
  BY DEF OwnerInv
<1>1. ASSUME NEW t \in Threads, OwnerStep(t) PROVE OperationTypes'
  <2>1. CASE Start(t) \/ StartRelease(t)
    BY <1>0, <2>1, AskTypes DEF Start, StartRelease, flagVars, OperationTypes
  <2>2. CASE EnableTracking(t)
    <3>1. use' \in Uses /\ doing' \in [Threads -> Reading \cup Writing \cup {"none"}]
      BY <1>0, <2>2, AskTypes DEF EnableTracking, OperationTypes
    <3>2. trackingFlag' \in BOOLEAN /\ enabling' \in [Threads -> {"none", "on", "off"}]
      BY <1>0, <2>2 DEF EnableTracking, OperationTypes
    <3>3. QED
      BY <3>1, <3>2 DEF OperationTypes
  <2>t. CASE \E v \in {"on", "off"} : TestTracking(t, v)
    BY <1>0, <2>t DEF TestTracking, OperationTypes
  <2>3. CASE Wait(t)
    BY <1>0, <2>3 DEF Wait, ownerVars, flagVars, OperationTypes
  <2>4. CASE Alive(t) \/ Wrap(t) \/ Reset(t) \/ Clear(t) \/ SetNoCall(t) \/ Callback(t)
    BY <1>0, <2>4, OutTypes DEF Alive, Wrap, Reset, Clear, SetNoCall, Callback
  <2>5. CASE \E i \in Ids : Release(t, i) \/ \E h \in Handlers : Track(t, i, h)
    BY <1>0, <2>5, OutTypes DEF Release, Track
  <2>6. QED
    BY <1>1, <2>1, <2>2, <2>t, <2>3, <2>4, <2>5 DEF OwnerStep
<1>2. ASSUME NEW t \in Threads, CallStep(t) PROVE OperationTypes'
  BY <1>0, <1>2 DEF CallStep, End, Begin, flagVars, OperationTypes
<1>3. ASSUME NEW k \in copies, DropAlive(k) PROVE OperationTypes'
  BY <1>0, <1>3 DEF DropAlive, flagVars, OperationTypes
<1>4. ASSUME NEW c \in Copies, CopyStep(c) PROVE OperationTypes'
  BY <1>0, <1>4 DEF CopyStep, CallCallback, Destroy, GiveUp, CopyCallback, CallbackKeeps,
                    ownerVars, flagVars, OperationTypes
<1>5. CASE UNCHANGED vars
  BY <1>0, <1>5 DEF vars, ownerVars, flagVars, OperationTypes
<1>6. QED
  BY <1>1, <1>2, <1>3, <1>4, <1>5 DEF Next

-----------------------------------------------------------------------------
(* The tokens: only four operations change them.                           *)

tokenVars == <<made, alive, trackingMap, cut>>

LEMMA TokenSteps ==
  ASSUME [Next]_vars
  PROVE  \/ UNCHANGED tokenVars
         \/ \E t \in Threads : Reset(t) \/ Clear(t)
         \/ \E t \in Threads, i \in Ids : Release(t, i)
         \/ \E t \in Threads, i \in Ids, h \in Handlers : Track(t, i, h)
<1>1. ASSUME NEW t \in Threads, OwnerStep(t)
      PROVE  \/ UNCHANGED tokenVars
             \/ Reset(t) \/ Clear(t)
             \/ \E i \in Ids : Release(t, i) \/ \E h \in Handlers : Track(t, i, h)
  <2>1. CASE \/ Start(t) \/ StartRelease(t) \/ EnableTracking(t) \/ Wait(t)
             \/ \E v \in {"on", "off"} : TestTracking(t, v)
    BY <2>1 DEF Start, StartRelease, EnableTracking, TestTracking, Wait, ownerVars, dataVars, tokenVars
  <2>2. CASE Alive(t) \/ Wrap(t) \/ SetNoCall(t) \/ Callback(t)
    BY <2>2 DEF Alive, Wrap, SetNoCall, Callback, dataVars, tokenVars
  <2>3. QED
    BY <1>1, <2>1, <2>2 DEF OwnerStep
<1>2. ASSUME NEW t \in Threads, CallStep(t) PROVE UNCHANGED tokenVars
  BY <1>2 DEF CallStep, End, Begin, dataVars, tokenVars
<1>3. ASSUME NEW k \in copies, DropAlive(k) PROVE UNCHANGED tokenVars
  BY <1>3 DEF DropAlive, tokenVars
<1>4. ASSUME NEW c \in Copies, CopyStep(c) PROVE UNCHANGED tokenVars
  BY <1>4 DEF CopyStep, CallCallback, Destroy, GiveUp, CopyCallback, CallbackKeeps,
              ownerVars, dataVars, tokenVars
<1>5. CASE UNCHANGED vars
  BY <1>5 DEF vars, ownerVars, dataVars, tokenVars
<1>6. QED
  BY <1>1, <1>2, <1>3, <1>4, <1>5 DEF Next

LEMMA ResetKeeps ==
  ASSUME TokenInv, NEW t \in Threads, Reset(t)
  PROVE  TokenInv'
<1>1. /\ made < MaxTokens /\ made' = made + 1 /\ alive' = made + 1
      /\ cut' = cut \cup {alive} /\ trackingMap' = trackingMap
  BY DEF Reset
<1>2. made \in Nat /\ MaxTokens \in Nat
  BY TokensUp
<1>3. QED
  BY <1>1, <1>2 DEF TokenInv, Token

LEMMA ReleaseKeeps ==
  ASSUME TokenInv, NEW t \in Threads, NEW i \in Ids, Release(t, i)
  PROVE  TokenInv'
<1>1. /\ made' = made /\ alive' = alive
      /\ trackingMap' = [trackingMap EXCEPT ![i] = 0]
      /\ cut' = cut \cup ({trackingMap[i]} \ {0})
  BY DEF Release
<1>2. made \in Nat /\ MaxTokens \in Nat
  BY TokensUp
<1>3. \A j \in Ids : trackingMap'[j] = IF j = i THEN 0 ELSE trackingMap[j]
  BY <1>1 DEF TokenInv
<1>4. trackingMap' \in [Ids -> 0..made']
  BY <1>1, <1>2 DEF TokenInv
<1>5. trackingMap[i] \in 0..made /\ trackingMap[i] # alive /\ alive \in 1..made
  BY DEF TokenInv
<1>6. cut' \subseteq 1..made' /\ alive' \notin cut' /\ 0 \notin cut'
  <2>1. cut \subseteq 1..made /\ alive \notin cut
    BY DEF TokenInv
  <2>2. {trackingMap[i]} \ {0} \subseteq 1..made
    BY <1>2, <1>5
  <2>3. cut' \subseteq 1..made'
    BY <1>1, <2>1, <2>2
  <2>4. 0 \notin 1..made
    BY <1>2
  <2>5. QED
    BY <1>1, <1>5, <2>1, <2>3, <2>4
<1>8. \A j \in Ids : trackingMap'[j] # alive' /\ trackingMap'[j] \notin cut'
  <2>1. TAKE j \in Ids
  <2>2. CASE j = i
    <3>1. alive # 0
      BY <1>2, <1>5
    <3>2. QED
      BY <1>1, <1>3, <1>6, <2>2, <3>1
  <2>3. CASE j # i
    <3>1. trackingMap[j] # alive /\ trackingMap[j] \notin cut
      BY DEF TokenInv
    <3>2. trackingMap[j] = trackingMap[i] => trackingMap[i] = 0
      BY <2>3 DEF TokenInv
    <3>3. QED
      BY <1>1, <1>3, <2>3, <3>1, <3>2
  <2>4. QED
    BY <2>2, <2>3
<1>7. QED
  BY <1>1, <1>3, <1>4, <1>6, <1>8 DEF TokenInv

LEMMA ClearKeeps ==
  ASSUME TokenInv, NEW t \in Threads, Clear(t)
  PROVE  TokenInv'
<1>1. /\ made' = made /\ alive' = alive
      /\ trackingMap' = [i \in Ids |-> 0]
      /\ cut' = cut \cup (Range(trackingMap) \ {0})
  BY DEF Clear
<1>2. made \in Nat /\ MaxTokens \in Nat
  BY TokensUp
<1>3. \A k \in Range(trackingMap) : \E i \in Ids : k = trackingMap[i]
  BY DEF TokenInv, Range
<1>4. cut' \subseteq 1..made' /\ alive' \notin cut' /\ 0 \notin cut'
  <2>1. /\ cut \subseteq 1..made /\ alive \notin cut
        /\ \A i \in Ids : trackingMap[i] \in 0..made /\ trackingMap[i] # alive
    BY DEF TokenInv
  <2>2. Range(trackingMap) \ {0} \subseteq 1..made /\ alive \notin Range(trackingMap)
    BY <1>2, <1>3, <2>1
  <2>3. 0 \notin 1..made
    BY <1>2
  <2>4. QED
    BY <1>1, <2>1, <2>2, <2>3
<1>5. trackingMap' \in [Ids -> 0..made'] /\ \A j \in Ids : trackingMap'[j] = 0
  BY <1>1, <1>2
<1>6. alive' # 0
  BY <1>1 DEF TokenInv
<1>7. QED
  BY <1>1, <1>4, <1>5, <1>6 DEF TokenInv

LEMMA TrackKeeps ==
  ASSUME TokenInv, NEW t \in Threads, NEW i \in Ids, NEW h \in Handlers, Track(t, i, h)
  PROVE  TokenInv' /\ trackingMap'[i] \in 0..made'
<1>1. made \in Nat /\ MaxTokens \in Nat
  BY TokensUp
<1>2. CASE trackingMap[i] # 0
  BY <1>2 DEF Track, TokenInv
<1>3. CASE trackingMap[i] = 0
  <2>1. /\ made < MaxTokens /\ made' = made + 1
        /\ trackingMap' = [trackingMap EXCEPT ![i] = made + 1]
        /\ alive' = alive /\ cut' = cut
    BY <1>3 DEF Track
  <2>2. \A j \in Ids : trackingMap'[j] = IF j = i THEN made + 1 ELSE trackingMap[j]
    BY <2>1 DEF TokenInv
  <2>3. made' \in Token /\ alive' \in 1..made' /\ cut' \subseteq 1..made' /\ alive' \notin cut'
    BY <1>1, <2>1 DEF TokenInv, Token
  <2>4. trackingMap' \in [Ids -> 0..made']
    BY <1>1, <2>1 DEF TokenInv
  <2>5. \A j \in Ids : trackingMap'[j] # alive' /\ trackingMap'[j] \notin cut'
    BY <1>1, <2>1, <2>2 DEF TokenInv
  <2>6. \A j \in Ids : trackingMap[j] # made + 1
    BY <1>1 DEF TokenInv
  <2>7. \A j, k \in Ids : (trackingMap'[j] = trackingMap'[k] /\ trackingMap'[j] # 0) => j = k
    BY <2>2, <2>6 DEF TokenInv
  <2>8. QED
    BY <2>3, <2>4, <2>5, <2>7 DEF TokenInv
<1>4. QED
  BY <1>2, <1>3

LEMMA TokensKept == OwnerInv /\ [Next]_vars => TokenInv'
<1> SUFFICES ASSUME OwnerInv, [Next]_vars PROVE TokenInv'
  OBVIOUS
<1>1. TokenInv
  BY DEF OwnerInv
<1>2. CASE UNCHANGED tokenVars
  BY <1>1, <1>2 DEF tokenVars, TokenInv
<1>3. QED
  BY <1>1, <1>2, TokenSteps, ResetKeeps, ClearKeeps, ReleaseKeeps, TrackKeeps

-----------------------------------------------------------------------------
(* The handlers and what is held of tokens.                                *)

handlerVars == <<copies, weak, inCall, noCall>>

LEMMA HandlersKept == OwnerInv /\ [Next]_vars => HandlerTypes'
<1> SUFFICES ASSUME OwnerInv, [Next]_vars PROVE HandlerTypes'
  OBVIOUS
<1>0. HandlerTypes /\ TokenInv
  BY DEF OwnerInv
<1>00. CASE UNCHANGED handlerVars
  BY <1>0, <1>00 DEF HandlerTypes, handlerVars
<1>01. alive \in Token /\ alive \in 0..MaxTokens
  BY <1>0, TokensUp DEF TokenInv
<1>1. ASSUME NEW t \in Threads, OwnerStep(t) PROVE HandlerTypes'
  <2>1. CASE \/ Start(t) \/ StartRelease(t) \/ EnableTracking(t) \/ Wait(t)
             \/ \E v \in {"on", "off"} : TestTracking(t, v)
    BY <1>00, <2>1 DEF Start, StartRelease, EnableTracking, TestTracking, Wait, ownerVars, dataVars, handlerVars
  <2>2. CASE Reset(t) \/ Clear(t) \/ Callback(t)
    BY <1>00, <2>2 DEF Reset, Clear, Callback, Out, dataVars, handlerVars
  <2>3. CASE Alive(t)
    BY <1>0, <1>01, <2>3 DEF Alive, Out, HandlerTypes
  <2>4. CASE Wrap(t)
    BY <1>0, <1>01, <2>4 DEF Wrap, Out, HandlerTypes
  <2>5. CASE SetNoCall(t)
    BY <1>0, <2>5 DEF SetNoCall, Out, dataVars, HandlerTypes
  <2>6. CASE \E i \in Ids : Release(t, i)
    BY <1>00, <2>6 DEF Release, Out, handlerVars
  <2>7. ASSUME NEW i \in Ids, NEW h \in Handlers, Track(t, i, h) PROVE HandlerTypes'
    <3>1. /\ weak' = [weak EXCEPT ![h] = trackingMap'[i]]
          /\ copies' = copies /\ inCall' = inCall /\ noCall' = noCall
      BY <2>7 DEF Track, Out
    <3>2. trackingMap'[i] \in 0..made' /\ made' \in Token
      BY <1>0, <2>7, TrackKeeps DEF TokenInv
    <3>3. trackingMap'[i] \in 0..MaxTokens
      BY <3>2, TokensAssumption DEF Token
    <3>4. QED
      BY <1>0, <3>1, <3>3 DEF HandlerTypes
  <2>8. QED
    BY <1>1, <2>1, <2>2, <2>3, <2>4, <2>5, <2>6, <2>7 DEF OwnerStep
<1>2. ASSUME NEW t \in Threads, CallStep(t) PROVE HandlerTypes'
  <2>1. CASE End(t)
    <3>1. 0 \in 0..MaxTokens
      BY TokensAssumption
    <3>2. QED
      BY <1>0, <2>1, <3>1 DEF End, dataVars, HandlerTypes
  <2>2. ASSUME NEW h \in Handlers, Begin(t, h) PROVE HandlerTypes'
    BY <1>0, <2>2 DEF Begin, dataVars, HandlerTypes
  <2>3. QED
    BY <1>2, <2>1, <2>2 DEF CallStep
<1>3. ASSUME NEW k \in copies, DropAlive(k) PROVE HandlerTypes'
  BY <1>0, <1>3 DEF DropAlive, HandlerTypes
<1>4. ASSUME NEW c \in Copies, CopyStep(c) PROVE HandlerTypes'
  BY <1>00, <1>4 DEF CopyStep, CallCallback, Destroy, GiveUp, CopyCallback, CallbackKeeps,
                     ownerVars, dataVars, handlerVars
<1>5. CASE UNCHANGED vars
  BY <1>00, <1>5 DEF vars, ownerVars, dataVars, handlerVars
<1>6. QED
  BY <1>1, <1>2, <1>3, <1>4, <1>5 DEF Next

(* A step gives out a token only if it is not among the ones let go.       *)
LEMMA NothingComesBack ==
  ASSUME OwnerInv, [Next]_vars, NEW k \in cut, ~InHand(k)
  PROVE  ~InHand(k)'
<1>0. HandlerTypes /\ k # 0 /\ k # alive /\ k \notin Range(trackingMap) /\ ~Held(k)
  <2>1. k \in 1..made /\ made \in Nat /\ k # alive
    BY TokensUp DEF OwnerInv, TokenInv
  <2>2. k \notin Range(trackingMap)
    BY DEF OwnerInv, TokenInv, Range
  <2>3. QED
    BY <2>1, <2>2 DEF OwnerInv, Held
<1>00. k \notin copies /\ \A t \in Threads : inCall[t] # k
  BY DEF InHand
<1>000. CASE UNCHANGED <<copies, inCall>>
  BY <1>000 DEF InHand
<1>1. ASSUME NEW t \in Threads, OwnerStep(t) PROVE ~InHand(k)'
  <2>1. CASE \/ Start(t) \/ StartRelease(t) \/ EnableTracking(t) \/ Wait(t)
             \/ \E v \in {"on", "off"} : TestTracking(t, v)
    BY <1>000, <2>1 DEF Start, StartRelease, EnableTracking, TestTracking, Wait, ownerVars, dataVars
  <2>2. CASE Reset(t) \/ Clear(t) \/ Callback(t) \/ Wrap(t) \/ SetNoCall(t)
    BY <1>000, <2>2 DEF Reset, Clear, Callback, Wrap, SetNoCall, Out, dataVars
  <2>3. CASE Alive(t)
    BY <1>0, <1>00, <2>3 DEF Alive, Out, InHand
  <2>4. CASE \E i \in Ids : Release(t, i) \/ \E h \in Handlers : Track(t, i, h)
    BY <1>000, <2>4 DEF Release, Track, Out
  <2>5. QED
    BY <1>1, <2>1, <2>2, <2>3, <2>4 DEF OwnerStep
<1>2. ASSUME NEW t \in Threads, CallStep(t) PROVE ~InHand(k)'
  <2>1. CASE End(t)
    <3>1. inCall' = [inCall EXCEPT ![t] = 0] /\ copies' = copies
      BY <2>1 DEF End, dataVars
    <3>2. QED
      BY <1>0, <1>00, <3>1 DEF InHand, HandlerTypes
  <2>2. ASSUME NEW h \in Handlers, Begin(t, h) PROVE ~InHand(k)'
    <3>1. weak[h] # k
      BY <1>0, <2>2 DEF Begin
    <3>2. inCall' = [inCall EXCEPT ![t] = weak[h]] /\ copies' = copies
      BY <2>2 DEF Begin, dataVars
    <3>3. QED
      BY <1>0, <1>00, <3>1, <3>2 DEF InHand, HandlerTypes
  <2>3. QED
    BY <1>2, <2>1, <2>2 DEF CallStep
<1>3. ASSUME NEW m \in copies, DropAlive(m) PROVE ~InHand(k)'
  BY <1>00, <1>3 DEF DropAlive, InHand
<1>4. ASSUME NEW c \in Copies, CopyStep(c) PROVE ~InHand(k)'
  BY <1>000, <1>4 DEF CopyStep, CallCallback, Destroy, GiveUp, CopyCallback, CallbackKeeps,
                      ownerVars, dataVars
<1>5. CASE UNCHANGED vars
  BY <1>000, <1>5 DEF vars, ownerVars, dataVars
<1>6. QED
  BY <1>1, <1>2, <1>3, <1>4, <1>5 DEF Next

-----------------------------------------------------------------------------
(* The callback.                                                           *)

LEMMA UseCountIsFinite == IsFiniteSet({c \in Copies : copy[c] # "gone"})
<1>1. {c \in Copies : copy[c] # "gone"} \subseteq Copies
  OBVIOUS
<1>2. QED
  BY <1>1, CopiesAssumption, FS_Subset

LEMMA NobodyCounted == ASSUME UseCount = 0 PROVE \A c \in Copies : copy[c] = "gone"
<1>1. {c \in Copies : copy[c] # "gone"} = {}
  BY UseCountIsFinite, FS_EmptySet DEF UseCount
<1>2. QED
  BY <1>1

LEMMA AnotherCounted ==
  ASSUME NEW c \in Copies, copy[c] # "gone", UseCount # 1
  PROVE  \E d \in Copies : d # c /\ copy[d] # "gone"
<1> SUFFICES ASSUME \A d \in Copies : d = c \/ copy[d] = "gone" PROVE FALSE
  OBVIOUS
<1>1. {d \in Copies : copy[d] # "gone"} = {c}
  OBVIOUS
<1>2. QED
  BY <1>1, FS_Singleton DEF UseCount

(* CallbackInv without the last copy: what holds of the record alone.      *)
RecordOK ==
  /\ callback \in CallbackRecord
  /\ callback.calls + callback.reports <= 1
  /\ ~callback.ready => callback.calls + callback.reports = 0
  /\ (callback.ready /\ callback.noCall) => callback.calls + callback.reports = 1

LEMMA CallbackMade ==
  ASSUME OwnerInv, NEW t \in Threads, Callback(t)
  PROVE  CallbackInv'
<1>1. CallbackInv /\ noCall \in BOOLEAN
  BY DEF OwnerInv, HandlerTypes
<1>2. CASE UNCHANGED callVars
  BY <1>1, <1>2 DEF callVars, CallbackInv
<1>3. ASSUME NEW c \in Copies, copy' = [copy EXCEPT ![c] = "live"],
             callback' = [ready |-> FALSE, noCall |-> noCall, calls |-> 0,
                          reports |-> 0, overlap |-> FALSE]
      PROVE  CallbackInv'
  <2>1. copy' \in [Copies -> {"gone", "live", "passing"}] /\ copy'[c] = "live"
    BY <1>1, <1>3 DEF CallbackInv
  <2>2. RecordOK'
    BY <1>1, <1>3 DEF RecordOK, CallbackRecord
  <2>3. QED
    BY <2>1, <2>2 DEF RecordOK, CallbackInv
<1>4. QED
  BY <1>2, <1>3 DEF Callback

LEMMA CopyMade ==
  ASSUME CallbackInv, NEW c \in Copies, NEW d \in Copies, CopyCallback(c, d)
  PROVE  CallbackInv'
<1>1. copy' = [copy EXCEPT ![d] = "live"] /\ callback' = callback
  BY DEF CopyCallback
<1>2. copy' \in [Copies -> {"gone", "live", "passing"}] /\ copy'[d] = "live"
  BY <1>1 DEF CallbackInv
<1>3. QED
  BY <1>1, <1>2 DEF CallbackInv

LEMMA CallMade ==
  ASSUME CallbackInv, NEW c \in Copies, CallCallback(c)
  PROVE  CallbackInv'
<1>1. /\ callback' = [callback EXCEPT !.ready = TRUE,
                                      !.calls = IF callback.ready THEN @ ELSE @ + 1]
      /\ copy' = copy
  BY DEF CallCallback
<1>2. callback \in CallbackRecord
  BY DEF CallbackInv
<1>3. /\ callback'.ready = TRUE /\ callback'.noCall = callback.noCall
      /\ callback'.calls = IF callback.ready THEN callback.calls ELSE callback.calls + 1
      /\ callback'.reports = callback.reports /\ callback'.overlap = callback.overlap
  BY <1>1, <1>2 DEF CallbackRecord
<1>4. callback.calls \in 0..2 /\ callback.reports \in 0..2
  BY <1>2 DEF CallbackRecord
<1>5. callback'.calls \in 0..2
  BY <1>3, <1>4 DEF CallbackInv
<1>6. callback' \in CallbackRecord
  BY <1>1, <1>2, <1>3, <1>5 DEF CallbackRecord
<1>7. QED
  BY <1>1, <1>3, <1>4, <1>6 DEF CallbackInv

LEMMA Destroyed ==
  ASSUME CallbackInv, NEW c \in Copies, Destroy(c)
  PROVE  CallbackInv'
<1>1. callback \in CallbackRecord /\ copy[c] = "live"
  BY DEF CallbackInv, Destroy
<1>2. callback.calls \in 0..2 /\ callback.reports \in 0..2
  BY <1>1 DEF CallbackRecord
<1>3. CASE UseCount = 1 /\ callback.noCall
  <2>1. /\ copy' = [copy EXCEPT ![c] = "gone"]
        /\ callback' = [callback EXCEPT !.ready = TRUE,
                          !.reports = IF callback.ready THEN @ ELSE @ + 1]
    BY <1>3 DEF Destroy
  <2>2. /\ callback'.ready = TRUE /\ callback'.noCall = callback.noCall
        /\ callback'.reports = IF callback.ready THEN callback.reports
                                                 ELSE callback.reports + 1
        /\ callback'.calls = callback.calls /\ callback'.overlap = callback.overlap
    BY <1>1, <2>1 DEF CallbackRecord
  <2>3. callback'.reports \in 0..2
    BY <1>2, <2>2 DEF CallbackInv
  <2>4. callback' \in CallbackRecord
    BY <1>1, <2>1, <2>2, <2>3 DEF CallbackRecord
  <2>5. copy' \in [Copies -> {"gone", "live", "passing"}]
    BY <2>1 DEF CallbackInv
  <2>6. QED
    BY <1>2, <2>2, <2>4, <2>5 DEF CallbackInv
<1>4. CASE ~(UseCount = 1 /\ callback.noCall)
  <2>1. /\ copy' = [copy EXCEPT ![c] = "passing"]
        /\ callback' = [callback EXCEPT !.overlap =
                          @ \/ \E d \in Copies : copy[d] = "passing"]
    BY <1>4 DEF Destroy
  <2>2. /\ callback'.ready = callback.ready /\ callback'.noCall = callback.noCall
        /\ callback'.reports = callback.reports /\ callback'.calls = callback.calls
        /\ callback'.overlap = (callback.overlap \/ \E d \in Copies : copy[d] = "passing")
    BY <1>1, <2>1 DEF CallbackRecord
  <2>3. callback' \in CallbackRecord
    BY <1>1, <2>1, <2>2 DEF CallbackRecord
  <2>4. copy' \in [Copies -> {"gone", "live", "passing"}]
    BY <2>1 DEF CallbackInv
  <2>5. RecordOK'
    BY <2>2, <2>3 DEF CallbackInv, RecordOK
  <2>6. ASSUME callback.noCall, ~callback'.overlap PROVE \E d \in Copies : copy'[d] = "live"
    <3>1. PICK d \in Copies : d # c /\ copy[d] # "gone"
      BY <1>1, <1>4, <2>6, AnotherCounted
    <3>2. copy[d] = "live"
      BY <2>2, <2>6, <3>1 DEF CallbackInv
    <3>3. copy'[d] = "live"
      BY <2>1, <3>1, <3>2 DEF CallbackInv
    <3>4. QED
      BY <3>3
  <2>7. QED
    BY <2>2, <2>4, <2>5, <2>6 DEF CallbackInv, RecordOK
<1>5. QED
  BY <1>3, <1>4

LEMMA GivenUp ==
  ASSUME CallbackInv, NEW c \in Copies, GiveUp(c)
  PROVE  CallbackInv'
<1>1. /\ copy' = [copy EXCEPT ![c] = "gone"] /\ callback' = callback
      /\ copy[c] = "passing"
  BY DEF GiveUp
<1>2. copy' \in [Copies -> {"gone", "live", "passing"}]
  BY <1>1 DEF CallbackInv
<1>3. \A d \in Copies : copy[d] = "live" => copy'[d] = "live"
  BY <1>1 DEF CallbackInv
<1>4. QED
  BY <1>1, <1>2, <1>3 DEF CallbackInv

LEMMA CallbackKept == OwnerInv /\ [Next]_vars => CallbackInv'
<1> SUFFICES ASSUME OwnerInv, [Next]_vars PROVE CallbackInv'
  OBVIOUS
<1>0. CallbackInv
  BY DEF OwnerInv
<1>00. CASE UNCHANGED callVars
  BY <1>0, <1>00 DEF callVars, CallbackInv
<1>1. ASSUME NEW t \in Threads, OwnerStep(t) PROVE CallbackInv'
  <2>1. CASE \/ Start(t) \/ StartRelease(t) \/ EnableTracking(t) \/ Wait(t)
             \/ \E v \in {"on", "off"} : TestTracking(t, v)
    BY <1>00, <2>1 DEF Start, StartRelease, EnableTracking, TestTracking, Wait
  <2>2. CASE Reset(t) \/ Clear(t) \/ Alive(t) \/ Wrap(t) \/ SetNoCall(t)
    BY <1>00, <2>2 DEF Reset, Clear, Alive, Wrap, SetNoCall
  <2>3. CASE Callback(t)
    BY <2>3, CallbackMade
  <2>4. CASE \E i \in Ids : Release(t, i) \/ \E h \in Handlers : Track(t, i, h)
    BY <1>00, <2>4 DEF Release, Track
  <2>5. QED
    BY <1>1, <2>1, <2>2, <2>3, <2>4 DEF OwnerStep
<1>2. ASSUME NEW t \in Threads, CallStep(t) PROVE CallbackInv'
  BY <1>00, <1>2 DEF CallStep, End, Begin
<1>3. ASSUME NEW k \in copies, DropAlive(k) PROVE CallbackInv'
  BY <1>00, <1>3 DEF DropAlive
<1>4. ASSUME NEW c \in Copies, CopyStep(c) PROVE CallbackInv'
  BY <1>0, <1>4, CallMade, Destroyed, GivenUp, CopyMade DEF CopyStep
<1>5. CASE UNCHANGED vars
  BY <1>00, <1>5 DEF vars
<1>6. QED
  BY <1>1, <1>2, <1>3, <1>4, <1>5 DEF Next

-----------------------------------------------------------------------------
LEMMA OwnerInvHolds == Spec => []OwnerInv
<1>1. OwnerInv /\ [Next]_vars => OwnerInv'
  BY OperationsKept, HandlersKept, TokensKept, CallbackKept DEF OwnerInv
<1>2. QED
  BY <1>1, InitOwner, PTL DEF Spec

LEMMA LockInvHolds == LockSpec => []LockInv
BY InitHolds, StepKeeps, PTL DEF LockSpec

(* The variables of the owner keep their types.                            *)
THEOREM OwnerTypeCorrect == Spec => []TypeOK
<1>1. LockInv /\ OwnerInv => TypeOK
  <2> SUFFICES ASSUME LockInv, OwnerInv PROVE TypeOK
    OBVIOUS
  <2>1. LockTypeOK /\ OperationTypes /\ HandlerTypes /\ CallbackInv /\ TokenInv
    BY DEF LockInv, OwnerInv
  <2>2. 1..made \subseteq Token /\ 0..made \subseteq 0..MaxTokens
    BY <2>1, TokensUp
  <2>3. alive \in Token /\ cut \subseteq Token /\ trackingMap \in [Ids -> 0..MaxTokens]
    BY <2>1, <2>2 DEF TokenInv
  <2>4. QED
    BY <2>1, <2>3 DEF TypeOK, OperationTypes, HandlerTypes, CallbackInv, TokenInv
<1>2. QED
  BY <1>1, UsesLock, LockInvHolds, OwnerInvHolds, PTL

(* Whatever the threads do, a token that the owner has let go and that     *)
(* nobody holds is never held again: its handlers are cut off for good.    *)
THEOREM CutOffHolds == Spec => CutOff
<1>1. OwnerInv /\ [Next]_vars => [\A k \in cut : ~InHand(k) => ~InHand(k)']_vars
  BY NothingComesBack
<1>2. QED
  BY <1>1, OwnerInvHolds, PTL DEF Spec, CutOff

(* However a callback's copies are made, called and destroyed, it ends in  *)
(* one call or in one report, except when two destructors meet.            *)
THEOREM CallbackIsSettled == Spec => []CallbackSettled
<1>1. OwnerInv => CallbackSettled
  <2> SUFFICES ASSUME OwnerInv PROVE CallbackSettled
    OBVIOUS
  <2>1. CallbackInv
    BY DEF OwnerInv
  <2>2. UseCount = 0 => \A c \in Copies : copy[c] = "gone"
    BY NobodyCounted
  <2>3. QED
    BY <2>1, <2>2 DEF CallbackInv, CallbackSettled
<1>2. QED
  BY <1>1, OwnerInvHolds, PTL

=============================================================================
