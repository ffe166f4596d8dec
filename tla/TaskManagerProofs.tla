--------------------------- MODULE TaskManagerProofs ---------------------------
(* Proofs about TaskManager, for any tasks, uses, delays and length of a   *)
(* second.                                                                 *)
EXTENDS TaskManager, FiniteSetTheorems, TLAPS

(* The places of a post after it has seen that there is a limit, and those *)
(* from which it is still to be given to the queue or put off.             *)
Limiting == {"look", "first", "span", "renew", "one", "count", "test", "defer"}
Undecided == Limiting \cup {"enter", "offer"}

(* A post that is under way is neither queued nor put off yet, and where   *)
(* one thread posts there is one of them.                                  *)
PostInv ==
  /\ \A t \in Tasks : pc[t] \in Undecided => state[t] = "posting"
  /\ use.posters = 1 => \A t, u \in Posting : t = u

(* Who reckons with a limit has seen one, so if there is none now it has   *)
(* been taken away.                                                        *)
CrashInv ==
  /\ CrashNeedsSwitch
  /\ \A t \in Tasks : pc[t] \in Limiting => rateLimit # 0 \/ switchedOff

(* What ResetAfterProgress is about.                                       *)
Calm == use.posters = 1 /\ use.limits = {0}

(* As long as nothing has left it a queue that refused a task is full, so  *)
(* nothing clears _wait_reset.                                             *)
ResetInv ==
  Calm =>
    /\ rateLimit = 0 /\ \A t \in Tasks : pc[t] \notin Limiting
    /\ ~left => ~HasRoom
    /\ ~progress => ~HasRoom /\ (waitReset \/ \E t \in Tasks : pc[t] = "marked")
    /\ \A t \in Tasks : pc[t] \in {"reset", "clear"} => progress

(* What RateKept is about.                                                 *)
Steady == use.posters = 1 /\ changes = 0 /\ rateLimit # 0

(* The tasks that have passed in the last second are among C, which passed *)
(* in the present interval and are counted in it, and P, which passed in   *)
(* the one before.                                                         *)
Window(C, P) ==
  /\ RecentlyPassed \subseteq C \cup P
  /\ Cardinality(C) <= rateLimit /\ Cardinality(P) <= rateLimit
  /\ Cardinality(C) <= intervalCount
  /\ \A u \in P : passed[u] >= startInterval
  /\ startInterval = Unset => RecentlyPassed = {} /\ intervalCount = 0

(* What a post that is reckoning knows of them.                            *)
AtWindow(t, C) ==
  /\ pc[t] = "first" => startInterval = Unset
  /\ pc[t] = "renew" => startInterval > Second /\ \A u \in Tasks : passed[u] >= clock[t]
  /\ pc[t] = "one" => C = {}
  /\ pc[t] = "test" => Cardinality(C) < intervalCount
  /\ pc[t] \in {"span", "one", "count", "test"} => startInterval # Unset

RateInv ==
  /\ changes = 0 => admin \in {"idle", "limit"}
  /\ Steady => \E C, P \in SUBSET Tasks : Window(C, P) /\ \A t \in Tasks : AtWindow(t, C)

-----------------------------------------------------------------------------
(* Types.                                                                  *)

LEMMA AgeFacts ==
  /\ Second \in Nat /\ Second > 0 /\ 0 \in Age /\ Aged \in Age
  /\ \A a \in Age : a \in Nat /\ Older(a) \in Age
  /\ Unset \notin Age /\ Older(Unset) = Unset
BY TimeAssumption DEF Age, Aged, Older, Unset

LEMMA UseFacts ==
  ASSUME use \in Uses
  PROVE  /\ use.limits \subseteq Nat /\ use.sizes \subseteq Nat
         /\ use.resets \subseteq BOOLEAN
         /\ use.posters \in Nat /\ use.changes \in Nat
BY UsesAssumption DEF Use

LEMMA InitTypes == Init => TypeOK
<1> SUFFICES ASSUME Init PROVE TypeOK
  OBVIOUS
<1>1. /\ rateLimit \in Nat /\ maxsize \in Nat /\ overflowReset \in BOOLEAN
      /\ changes \in 0..use.changes
  BY UseFacts DEF Init
<1>2. /\ pc \in [Tasks -> Places] /\ state \in [Tasks -> States]
      /\ admin \in AdminPlaces
  BY DEF Init, Places, States, AdminPlaces
<1>3. /\ clock \in [Tasks -> Age] /\ passed \in [Tasks -> Age]
      /\ mark \in [Tasks -> Nat \cup {Unset}] /\ delay \in [Tasks -> Nat]
  BY AgeFacts DEF Init
<1>4. QED
  BY <1>1, <1>2, <1>3 DEF Init, TypeOK

(* The steps of a post change the place of a task and what goes with it.   *)
LEMMA PostTypes ==
  ASSUME TypeOK, NEW t \in Tasks, Post(t) \/ PostGoesOn(t)
  PROVE  TypeOK'
<1> USE DEF TypeOK, Places, States, Goto, Turn
<1> USE DEF KeepOptions, KeepRate, KeepTask, KeepReset, adminVars, pastVars
<1>1. CASE Post(t)
  BY <1>1 DEF Post
<1>2. CASE Enter(t)
  BY <1>2 DEF Enter
<1>3. CASE Look(t)
  BY <1>3 DEF Look
<1>s. CASE Span(t)
  BY <1>s, AgeFacts DEF Span
<1>4. CASE StartInterval(t)
  BY <1>4, AgeFacts DEF StartInterval
<1>5. CASE Count(t)
  BY <1>5 DEF Count
<1>6. CASE Test(t)
  BY <1>6, AgeFacts DEF Test
<1>7. CASE Defer(t)
  <2>1. CASE rateLimit = 0
    BY <1>7, <2>1 DEF Defer
  <2>2. CASE rateLimit # 0
    <3>1. intervalCount * Second \in Nat
      BY AgeFacts
    <3>2. (intervalCount * Second) \div rateLimit \in Nat
      BY <2>2, <3>1
    <3>3. QED
      BY <1>7, <2>2, <3>2 DEF Defer
  <2>3. QED
    BY <2>1, <2>2
<1>8. CASE Offer(t)
  BY <1>8 DEF Offer
<1>9. CASE Failed(t)
  BY <1>9 DEF Failed
<1>10. CASE ResetQueue(t)
  BY <1>10 DEF ResetQueue
<1>11. CASE Mark(t)
  BY <1>11 DEF Mark
<1>12. CASE Clear(t)
  BY <1>12 DEF Clear
<1>13. QED
  BY <1>1, <1>2, <1>3, <1>s, <1>4, <1>5, <1>6, <1>7, <1>8, <1>9, <1>10, <1>11, <1>12
     DEF PostGoesOn

LEMMA AdminTypes == TypeOK /\ Admin => TypeOK'
<1> SUFFICES ASSUME TypeOK, Admin PROVE TypeOK'
  OBVIOUS
<1>u. /\ use.limits \subseteq Nat /\ use.sizes \subseteq Nat
      /\ use.resets \subseteq BOOLEAN /\ use.changes \in Nat
  BY UseFacts DEF TypeOK
<1> USE <1>u DEF TypeOK, AdminPlaces, AdminKeeps, SetRateLimit, taskVars, rateVars, pastVars
<1>1. CASE \E l \in use.limits : RateLimit(l) \/ ReconfigureLimit(l)
  <2> PICK l \in use.limits : RateLimit(l) \/ ReconfigureLimit(l)
    BY <1>1
  <2>1. l \in Nat
    OBVIOUS
  <2>2. CASE RateLimit(l)
    BY <2>1, <2>2 DEF RateLimit
  <2>3. CASE ReconfigureLimit(l)
    BY <2>1, <2>3 DEF ReconfigureLimit
  <2>4. QED
    BY <2>2, <2>3
<1>2. CASE \E n \in use.sizes : ReconfigureSize(n)
  BY <1>2 DEF ReconfigureSize
<1>3. CASE \E b \in use.resets : ReconfigureFlag(b)
  BY <1>3 DEF ReconfigureFlag
<1>4. CASE ReconfigureStart \/ ReconfigureCount
  BY <1>4 DEF ReconfigureStart, ReconfigureCount
<1>5. QED
  BY <1>1, <1>2, <1>3, <1>4 DEF Admin

LEMMA OtherTypes ==
  ASSUME TypeOK,
         \/ \E t \in Tasks : Serve(t) \/ \E d \in Delays : DelayedPost(t, d)
         \/ Tick \/ UNCHANGED vars
  PROVE  TypeOK'
<1> USE DEF TypeOK, States, Goto, Turn
<1> USE DEF KeepOptions, KeepRate, KeepReset, adminVars, resetVars, pastVars
<1>1. CASE \E t \in Tasks : Serve(t)
  BY <1>1 DEF Serve
<1>2. CASE \E t \in Tasks, d \in Delays : DelayedPost(t, d)
  BY <1>2, TimeAssumption DEF DelayedPost
<1>3. CASE Tick
  <2>1. /\ startInterval' \in Age \cup {Unset}
        /\ clock' \in [Tasks -> Age] /\ passed' \in [Tasks -> Age]
    BY <1>3, AgeFacts DEF Tick
  <2>2. delay' \in [Tasks -> Nat]
    BY <1>3 DEF Tick
  <2>3. QED
    BY <1>3, <2>1, <2>2 DEF Tick
<1>4. CASE UNCHANGED vars
  BY <1>4 DEF vars
<1>5. QED
  BY <1>1, <1>2, <1>3, <1>4

LEMMA TypeStep == TypeOK /\ [Next]_vars => TypeOK'
BY PostTypes, AdminTypes, OtherTypes DEF Next

(* Every variable of the task manager keeps its type (task_manager.hpp:    *)
(* 84-103); the time a post is put off is a number whenever it is computed.*)
THEOREM TypeCorrect == Spec => []TypeOK
BY InitTypes, TypeStep, PTL DEF Spec

-----------------------------------------------------------------------------
(* Who posts.                                                              *)

(* Where one thread posts nobody else begins to.                           *)
LEMMA NobodyPosts ==
  ASSUME use.posters = 1, Cardinality(Posting) < use.posters
  PROVE  Posting = {}
<1>1. IsFiniteSet(Posting)
  BY TasksAssumption, FS_Subset DEF Posting
<1>2. Cardinality(Posting) = 0
  BY <1>1, FS_CardinalityType
<1>3. QED
  BY <1>1, <1>2, FS_EmptySet

(* A step of the post of t changes no other task.                          *)
LEMMA OneMoves ==
  ASSUME TypeOK, NEW t \in Tasks, Post(t) \/ PostGoesOn(t)
  PROVE  /\ \A u \in Tasks \ {t} : pc'[u] = pc[u] /\ state'[u] = state[u]
         /\ UNCHANGED <<use, rateLimit, overflowReset, maxsize, adminVars>>
         /\ PostGoesOn(t) => t \in Posting
<1> USE DEF TypeOK, Goto, Turn, KeepOptions, KeepRate, KeepTask, KeepReset, adminVars, Posting
<1>1. CASE Post(t)
  <2>1. /\ \A u \in Tasks \ {t} : pc'[u] = pc[u] /\ state'[u] = state[u]
        /\ UNCHANGED <<use, rateLimit, overflowReset, maxsize, adminVars>>
        /\ pc[t] = "out"
    BY <1>1 DEF Post
  <2>2. ~PostGoesOn(t)
    BY <2>1 DEF PostGoesOn, Enter, Look, Span, StartInterval, Count, Test, Defer, Offer, Failed,
                ResetQueue, Mark, Clear
  <2>3. QED
    BY <2>1, <2>2
<1>2. CASE Enter(t) \/ Look(t) \/ Span(t) \/ Failed(t)
  BY <1>2 DEF Enter, Look, Span, Failed
<1>3. CASE StartInterval(t) \/ Count(t) \/ Test(t)
  BY <1>3 DEF StartInterval, Count, Test
<1>4. CASE Defer(t) \/ Offer(t)
  BY <1>4 DEF Defer, Offer
<1>5. CASE ResetQueue(t) \/ Mark(t) \/ Clear(t)
  BY <1>5 DEF ResetQueue, Mark, Clear
<1>6. QED
  BY <1>1, <1>2, <1>3, <1>4, <1>5 DEF PostGoesOn

(* Where the post of t goes, and what it makes of the task.                *)
LEMMA WherePostGoes ==
  ASSUME TypeOK, NEW t \in Tasks, PostInv, Post(t) \/ PostGoesOn(t)
  PROVE  pc'[t] \in Undecided => state'[t] = "posting"
<1> USE DEF TypeOK, Goto, Turn, Undecided, Limiting
<1>1. CASE Post(t)
  BY <1>1 DEF Post
<1>2. CASE Enter(t) \/ Look(t) \/ Span(t)
  BY <1>2 DEF Enter, Look, Span, PostInv, KeepTask
<1>3. CASE StartInterval(t) \/ Count(t) \/ Test(t)
  BY <1>3 DEF StartInterval, Count, Test, PostInv, KeepTask
<1>4. CASE Defer(t) \/ Offer(t)
  BY <1>4 DEF Defer, Offer
<1>5. CASE Failed(t) \/ ResetQueue(t) \/ Mark(t) \/ Clear(t)
  BY <1>5 DEF Failed, ResetQueue, Mark, Clear
<1>6. QED
  BY <1>1, <1>2, <1>3, <1>4, <1>5 DEF PostGoesOn

(* The other steps move no post, and what is posted goes on being so.      *)
LEMMA PostsStay ==
  ASSUME TypeOK,
         \/ \E t \in Tasks : Serve(t) \/ \E d \in Delays : DelayedPost(t, d)
         \/ Tick \/ Admin \/ UNCHANGED vars
  PROVE  /\ UNCHANGED <<use, pc>>
         /\ \A t \in Tasks : /\ state[t] = "posting" => state'[t] = "posting"
                             /\ state'[t] = "crashed" => state[t] = "crashed"
                             /\ state'[t] = "queued" <=> state[t] = "queued" /\ ~Serve(t)
<1> USE DEF TypeOK, Turn, KeepOptions, KeepRate
<1>1. CASE \E t \in Tasks : Serve(t)
  BY <1>1 DEF Serve
<1>2. CASE \E t \in Tasks, d \in Delays : DelayedPost(t, d)
  BY <1>2 DEF DelayedPost, Serve
<1>3. CASE Tick
  BY <1>3 DEF Tick, Serve
<1>4. CASE Admin
  <2>1. UNCHANGED <<use, pc, state>>
    BY <1>4 DEF Admin, RateLimit, ReconfigureSize, ReconfigureLimit, ReconfigureStart,
                ReconfigureCount, ReconfigureFlag, AdminKeeps, taskVars
  <2>2. QED
    BY <2>1 DEF Serve
<1>5. CASE UNCHANGED vars
  BY <1>5 DEF vars, Serve
<1>6. QED
  BY <1>1, <1>2, <1>3, <1>4, <1>5

LEMMA PostStep == TypeOK /\ PostInv /\ [Next]_vars => PostInv'
<1> SUFFICES ASSUME TypeOK, PostInv, [Next]_vars PROVE PostInv'
  OBVIOUS
<1>1. ASSUME NEW t \in Tasks, Post(t) \/ PostGoesOn(t) PROVE PostInv'
  <2>1. \A u \in Tasks : pc'[u] \in Undecided => state'[u] = "posting"
    BY <1>1, OneMoves, WherePostGoes DEF PostInv
  <2>2. use.posters = 1 => Posting' \subseteq {t}
    <3> SUFFICES ASSUME use.posters = 1, NEW u \in Tasks, pc'[u] # "out", u # t
                 PROVE  FALSE
      BY DEF Posting
    <3>1. u \in Posting
      BY <1>1, OneMoves DEF Posting
    <3>2. CASE Post(t)
      BY <3>1, <3>2, NobodyPosts DEF Post
    <3>3. CASE PostGoesOn(t)
      BY <3>1, <3>3, OneMoves DEF PostInv
    <3>4. QED
      BY <1>1, <3>2, <3>3
  <2>3. use' = use
    BY <1>1, OneMoves
  <2>4. QED
    BY <2>1, <2>2, <2>3 DEF PostInv
<1>2. CASE \/ \E t \in Tasks : Serve(t) \/ \E d \in Delays : DelayedPost(t, d)
           \/ Tick \/ Admin \/ UNCHANGED vars
  BY <1>2, PostsStay DEF PostInv, Posting
<1>3. QED
  BY <1>1, <1>2 DEF Next

-----------------------------------------------------------------------------
(* The division by zero.                                                   *)

(* A post sees a limit before it reckons with one, and crashes only where  *)
(* the limit it reckoned with is gone.                                     *)
LEMMA LimitIsSeen ==
  ASSUME TypeOK, NEW t \in Tasks, Post(t) \/ PostGoesOn(t)
  PROVE  /\ pc'[t] \in Limiting => pc[t] \in Limiting \/ rateLimit # 0
         /\ state'[t] = "crashed" => state[t] = "crashed" \/ (pc[t] = "defer" /\ rateLimit = 0)
<1> USE DEF TypeOK, Goto, Turn, Limiting
<1>1. CASE Post(t)
  BY <1>1 DEF Post
<1>2. CASE Enter(t) \/ Look(t) \/ Span(t)
  BY <1>2 DEF Enter, Look, Span, KeepTask
<1>3. CASE StartInterval(t) \/ Count(t) \/ Test(t)
  BY <1>3 DEF StartInterval, Count, Test, KeepTask
<1>4. CASE Defer(t) \/ Offer(t)
  BY <1>4 DEF Defer, Offer
<1>5. CASE Failed(t) \/ ResetQueue(t) \/ Mark(t) \/ Clear(t)
  BY <1>5 DEF Failed, ResetQueue, Mark, Clear, KeepTask
<1>6. QED
  BY <1>1, <1>2, <1>3, <1>4, <1>5 DEF PostGoesOn

(* Only rate_limit() and reconfigure() change the limit, and one that is   *)
(* taken away is noted.                                                    *)
LEMMA LimitIsNoted ==
  ASSUME TypeOK, [Next]_vars
  PROVE  /\ switchedOff => switchedOff'
         /\ rateLimit # 0 => rateLimit' # 0 \/ switchedOff'
<1> USE DEF KeepOptions, KeepRate, adminVars, rateVars, TypeOK
<1>1. CASE \E t \in Tasks : Post(t) \/ PostGoesOn(t)
  BY <1>1, OneMoves
<1>2. CASE \E t \in Tasks : Serve(t) \/ \E d \in Delays : DelayedPost(t, d)
  BY <1>2 DEF Serve, DelayedPost
<1>3. CASE Tick \/ UNCHANGED vars
  BY <1>3 DEF Tick, vars
<1>4. CASE Admin
  <2>1. CASE \E l \in use.limits : RateLimit(l) \/ ReconfigureLimit(l)
    BY <2>1 DEF RateLimit, ReconfigureLimit, SetRateLimit
  <2>2. CASE ~(\E l \in use.limits : RateLimit(l) \/ ReconfigureLimit(l))
    BY <1>4, <2>2 DEF Admin, ReconfigureSize, ReconfigureStart, ReconfigureCount, ReconfigureFlag
  <2>3. QED
    BY <2>1, <2>2
<1>5. QED
  BY <1>1, <1>2, <1>3, <1>4 DEF Next

LEMMA CrashStep == TypeOK /\ CrashInv /\ [Next]_vars => CrashInv'
<1> SUFFICES ASSUME TypeOK, CrashInv, [Next]_vars PROVE CrashInv'
  OBVIOUS
<1>1. /\ switchedOff => switchedOff'
      /\ rateLimit # 0 => rateLimit' # 0 \/ switchedOff'
  BY LimitIsNoted
<1>2. ASSUME NEW t \in Tasks, Post(t) \/ PostGoesOn(t) PROVE CrashInv'
  <2>1. \A u \in Tasks : state'[u] = "crashed" => switchedOff
    BY <1>2, OneMoves, LimitIsSeen DEF CrashInv, CrashNeedsSwitch, Limiting
  <2>2. \A u \in Tasks : pc'[u] \in Limiting => rateLimit # 0 \/ switchedOff
    BY <1>2, OneMoves, LimitIsSeen DEF CrashInv
  <2>3. QED
    BY <1>1, <2>1, <2>2 DEF CrashInv, CrashNeedsSwitch
<1>3. CASE \/ \E t \in Tasks : Serve(t) \/ \E d \in Delays : DelayedPost(t, d)
           \/ Tick \/ Admin \/ UNCHANGED vars
  BY <1>1, <1>3, PostsStay DEF CrashInv, CrashNeedsSwitch
<1>4. QED
  BY <1>2, <1>3 DEF Next

(* The only way to a division by zero is a rate limit that is taken away   *)
(* while a post is past its look at it (task_manager.cpp:281-309).         *)
THEOREM CrashNeedsSwitchHolds == Spec => []CrashNeedsSwitch
<1>1. Init => CrashInv
  BY DEF Init, CrashInv, CrashNeedsSwitch, Limiting
<1>2. CrashInv => CrashNeedsSwitch
  BY DEF CrashInv
<1>3. QED
  BY <1>1, <1>2, CrashStep, TypeCorrect, PTL DEF Spec

-----------------------------------------------------------------------------
(* The reset of the queue.                                                 *)

LEMMA RoomDepends ==
  ASSUME TypeOK, maxsize' = maxsize,
         \A t \in Tasks : state'[t] = "queued" <=> state[t] = "queued"
  PROVE  HasRoom' <=> HasRoom
<1>1. Waiting' = Waiting
  BY DEF Waiting
<1>2. QED
  BY <1>1 DEF HasRoom

LEMMA InitReset == Init => PostInv /\ ResetInv
BY DEF Init, PostInv, ResetInv, Posting, Calm, Undecided, Limiting

(* A post that changes neither the queue nor what is known of it.          *)
LEMMA ResetKept ==
  ASSUME TypeOK, ResetInv, UNCHANGED <<use, rateLimit, maxsize, left, progress>>,
         \A t \in Tasks : state'[t] = "queued" <=> state[t] = "queued",
         NEW t \in Tasks, \A u \in Tasks \ {t} : pc'[u] = pc[u],
         Calm => /\ pc'[t] \notin Limiting
                 /\ pc'[t] \in {"reset", "clear"} => progress
                 /\ ~progress /\ (waitReset \/ pc[t] = "marked") => waitReset' \/ pc'[t] = "marked"
                 /\ ~progress /\ waitReset => waitReset'
  PROVE  ResetInv'
<1>1. HasRoom' <=> HasRoom
  BY RoomDepends
<1>2. Calm' <=> Calm
  BY DEF Calm
<1>3. QED
  BY <1>1, <1>2 DEF ResetInv

(* A post that is alone among the places of a reset.                       *)
LEMMA ResetPostStep ==
  ASSUME TypeOK, PostInv, ResetInv, NEW t \in Tasks, Post(t) \/ PostGoesOn(t), Calm
  PROVE  ResetInv'
<1>1. /\ use.posters = 1 /\ Calm' /\ rateLimit' = 0 /\ maxsize' = maxsize
      /\ rateLimit = 0 /\ \A u \in Tasks : pc[u] \notin Limiting
      /\ \A u \in Tasks \ {t} : pc'[u] = pc[u] /\ state'[u] = state[u]
  BY OneMoves DEF Calm, ResetInv
<1> USE DEF TypeOK, Goto, Turn, KeepOptions, KeepRate, KeepTask, KeepReset, pastVars
<1>2. ASSUME UNCHANGED <<left, progress>>,
             state'[t] = "queued" <=> state[t] = "queued",
             pc'[t] \notin Limiting,
             pc'[t] \in {"reset", "clear"} => progress,
             ~progress /\ (waitReset \/ pc[t] = "marked") => waitReset' \/ pc'[t] = "marked",
             ~progress /\ waitReset => waitReset'
      PROVE  ResetInv'
  <2>1. \A u \in Tasks : state'[u] = "queued" <=> state[u] = "queued"
    BY <1>1, <1>2
  <2>2. UNCHANGED <<use, rateLimit, maxsize, left, progress>>
    BY <1>2, OneMoves
  <2>3. QED
    BY <1>1, <1>2, <2>1, <2>2, ResetKept
<1>3. CASE Post(t)
  BY <1>2, <1>3 DEF Post, Limiting
<1>4. CASE Enter(t)
  BY <1>1, <1>2, <1>4 DEF Enter, Limiting
<1>5. CASE Look(t) \/ Span(t) \/ StartInterval(t) \/ Count(t) \/ Test(t) \/ Defer(t)
  BY <1>1, <1>5 DEF Look, Span, StartInterval, Count, Test, Defer, Limiting
<1>6. CASE Offer(t)
  <2>1. CASE HasRoom
    <3>1. left /\ progress
      BY <2>1 DEF ResetInv, Calm
    <3>2. left' /\ progress' /\ pc'[t] = "clear"
      BY <1>6, <2>1, <3>1 DEF Offer
    <3>3. QED
      BY <1>1, <3>2 DEF ResetInv, Limiting
  <2>2. CASE ~HasRoom
    <3>1. /\ state[t] = "posting" /\ state'[t] = "dropped"
          /\ pc[t] = "offer" /\ pc'[t] = "failed" /\ UNCHANGED <<progress, waitReset>>
      BY <1>6, <2>2 DEF Offer, PostInv, Undecided
    <3>2. ~HasRoom'
      BY <1>1, <2>2, <3>1, RoomDepends
    <3>3. \A u \in Tasks : pc[u] = "marked" => pc'[u] = "marked"
      BY <1>1, <3>1
    <3>4. QED
      BY <1>1, <3>1, <3>2, <3>3 DEF ResetInv, Limiting
  <2>3. QED
    BY <2>1, <2>2
<1>7. CASE Failed(t)
  <2>1. ~waitReset => progress
    <3>1. \A u \in Tasks : pc[u] # "marked"
      BY <1>1, <1>7 DEF Failed, PostInv, Posting
    <3>2. QED
      BY <3>1 DEF ResetInv, Calm
  <2>2. QED
    BY <1>2, <1>7, <2>1 DEF Failed, Limiting
<1>8. CASE ResetQueue(t)
  <2>1. \A u \in Tasks : pc'[u] \notin {"reset", "clear"}
    BY <1>1, <1>8 DEF ResetQueue, PostInv, Posting
  <2>2. HasRoom' <=> HasRoom
    BY <1>1, <1>8, RoomDepends DEF ResetQueue
  <2>3. pc'[t] = "marked" /\ left' = left /\ progress' = left
    BY <1>8 DEF ResetQueue
  <2>4. \A u \in Tasks : pc'[u] \notin Limiting
    BY <1>1, <2>3 DEF Limiting
  <2>5. QED
    BY <1>1, <2>1, <2>2, <2>3, <2>4 DEF ResetInv
<1>9. CASE Mark(t)
  BY <1>2, <1>9 DEF Mark, Limiting
<1>10. CASE Clear(t)
  BY <1>2, <1>10 DEF Clear, Limiting, ResetInv, Calm
<1>11. QED
  BY <1>3, <1>4, <1>5, <1>6, <1>7, <1>8, <1>9, <1>10 DEF PostGoesOn

LEMMA ResetStep == TypeOK /\ PostInv /\ ResetInv /\ [Next]_vars => ResetInv'
<1> SUFFICES ASSUME TypeOK, PostInv, ResetInv, [Next]_vars PROVE ResetInv'
  OBVIOUS
<1>u. use' = use
  BY OneMoves, PostsStay DEF Next
<1> SUFFICES ASSUME Calm PROVE ResetInv'
  BY <1>u DEF ResetInv, Calm
<1>1. CASE \E t \in Tasks : Post(t) \/ PostGoesOn(t)
  BY <1>1, ResetPostStep
<1>2. ASSUME UNCHANGED <<pc, waitReset>>, rateLimit' = 0,
             \/ left' /\ progress'
             \/ /\ UNCHANGED <<left, progress, maxsize>>
                /\ \A t \in Tasks : state'[t] = "queued" <=> state[t] = "queued"
      PROVE  ResetInv'
  BY <1>2, RoomDepends DEF ResetInv, Calm
<1>3. rateLimit = 0
  BY DEF ResetInv
<1> USE DEF KeepOptions, KeepRate, KeepReset, pastVars, resetVars
<1>4. CASE \E t \in Tasks : Serve(t)
  BY <1>2, <1>3, <1>4 DEF Serve
<1>5. CASE \E t \in Tasks, d \in Delays : DelayedPost(t, d)
  <2>1. \A t \in Tasks : state'[t] = "queued" <=> state[t] = "queued"
    BY <1>5 DEF DelayedPost, Turn, TypeOK
  <2>2. QED
    BY <1>2, <1>3, <1>5, <2>1 DEF DelayedPost
<1>6. CASE Tick \/ UNCHANGED vars
  BY <1>2, <1>3, <1>6 DEF Tick, vars
<1>7. CASE Admin
  <2>1. UNCHANGED <<pc, waitReset, state>>
    BY <1>7 DEF Admin, RateLimit, ReconfigureSize, ReconfigureLimit, ReconfigureStart,
                ReconfigureCount, ReconfigureFlag, AdminKeeps, taskVars
  <2>2. rateLimit' = 0
    BY <1>3, <1>7 DEF Admin, RateLimit, ReconfigureSize, ReconfigureLimit, ReconfigureStart,
                ReconfigureCount, ReconfigureFlag, SetRateLimit, rateVars, Calm
  <2>3. (left' /\ progress') \/ UNCHANGED <<left, progress, maxsize>>
    BY <1>7 DEF Admin, RateLimit, ReconfigureSize, ReconfigureLimit, ReconfigureStart,
                ReconfigureCount, ReconfigureFlag
  <2>4. QED
    BY <1>2, <2>1, <2>2, <2>3
<1>8. QED
  BY <1>1, <1>4, <1>5, <1>6, <1>7 DEF Next

(* Only the place "reset" takes a new _reset_count.                        *)
LEMMA ResetIsTaken ==
  ASSUME TypeOK, [Next]_vars, resetCount' # resetCount
  PROVE  \E t \in Tasks : pc[t] = "reset"
<1> USE DEF KeepOptions, KeepRate, KeepReset, resetVars, AdminKeeps
<1>1. CASE \E t \in Tasks : Post(t) \/ PostGoesOn(t)
  BY <1>1 DEF PostGoesOn, Post, Enter, Look, Span, StartInterval, Count, Test, Defer, Offer,
              Failed, ResetQueue, Mark, Clear
<1>2. CASE \E t \in Tasks : Serve(t) \/ \E d \in Delays : DelayedPost(t, d)
  BY <1>2 DEF Serve, DelayedPost
<1>3. CASE Tick \/ UNCHANGED vars
  BY <1>3 DEF Tick, vars
<1>4. CASE Admin
  BY <1>4 DEF Admin, RateLimit, ReconfigureSize, ReconfigureLimit, ReconfigureStart,
              ReconfigureCount, ReconfigureFlag
<1>5. QED
  BY <1>1, <1>2, <1>3, <1>4 DEF Next

(* Where one thread posts and there is no rate limit, a queue that was     *)
(* reset is not reset again unless something has left it since it refused  *)
(* the task that led to that reset (task_manager.cpp:193-217).             *)
THEOREM ResetAfterProgressHolds == Spec => ResetAfterProgress
<1>1. TypeOK /\ ResetInv /\ [Next]_vars
      => [(use.posters = 1 /\ use.limits = {0} /\ resetCount' # resetCount) => progress]_vars
  BY ResetIsTaken DEF ResetInv, Calm
<1>2. QED
  BY <1>1, InitReset, PostStep, ResetStep, TypeCorrect, PTL DEF Spec, ResetAfterProgress

-----------------------------------------------------------------------------
(* The rate limit.                                                         *)

LEMMA SetFacts ==
  ASSUME NEW S \in SUBSET Tasks
  PROVE  /\ IsFiniteSet(S) /\ Cardinality(S) \in Nat
         /\ \A T \in SUBSET S : Cardinality(T) \in Nat /\ Cardinality(T) <= Cardinality(S)
         /\ \A t \in Tasks : Cardinality(S \cup {t}) <= Cardinality(S) + 1
<1>1. IsFiniteSet(S)
  BY TasksAssumption, FS_Subset
<1>2. Cardinality(S) \in Nat
  BY <1>1, FS_CardinalityType
<1>3. ASSUME NEW T \in SUBSET S
      PROVE  Cardinality(T) \in Nat /\ Cardinality(T) <= Cardinality(S)
  BY <1>1, <1>3, FS_Subset, FS_CardinalityType
<1>4. ASSUME NEW t \in Tasks PROVE Cardinality(S \cup {t}) <= Cardinality(S) + 1
  <2>1. Cardinality(S \cup {t}) = IF t \in S THEN Cardinality(S) ELSE Cardinality(S) + 1
    BY <1>1, FS_AddElement
  <2>2. QED
    BY <1>2, <2>1
<1>5. QED
  BY <1>1, <1>2, <1>3, <1>4

LEMMA InitRate == Init => RateInv
<1> SUFFICES ASSUME Init PROVE RateInv
  OBVIOUS
<1>1. RecentlyPassed = {}
  BY TimeAssumption DEF Init, RecentlyPassed, Aged
<1>2. rateLimit \in Nat
  BY InitTypes DEF TypeOK
<1>3. Window({}, {})
  BY <1>1, <1>2, FS_EmptySet DEF Window, Init
<1>4. \A t \in Tasks : AtWindow(t, {})
  BY DEF Init, AtWindow
<1>5. QED
  BY <1>3, <1>4 DEF RateInv, Init

(* The sets bound what has passed.                                         *)
LEMMA RateInvSuffices == TypeOK /\ RateInv => RateKept
<1> SUFFICES ASSUME TypeOK, RateInv, Steady PROVE Cardinality(RecentlyPassed) <= 2 * rateLimit
  BY DEF RateKept, Steady
<1>1. PICK C, P \in SUBSET Tasks : Window(C, P)
  BY DEF RateInv
<1>2. /\ IsFiniteSet(C) /\ Cardinality(C) \in Nat
      /\ IsFiniteSet(P) /\ Cardinality(P) \in Nat
  BY SetFacts
<1>3. Cardinality(C \cup P) = Cardinality(C) + Cardinality(P) - Cardinality(C \cap P)
  BY <1>2, FS_Union
<1>4. Cardinality(C \cap P) \in Nat
  BY <1>2, SetFacts
<1>5. C \cup P \in SUBSET Tasks /\ RecentlyPassed \in SUBSET (C \cup P)
  BY <1>1 DEF Window
<1>6. /\ Cardinality(RecentlyPassed) <= Cardinality(C \cup P)
      /\ Cardinality(RecentlyPassed) \in Nat
  BY <1>5, SetFacts
<1>7. Cardinality(C) <= rateLimit /\ Cardinality(P) <= rateLimit /\ rateLimit \in Nat
  BY <1>1 DEF Window, TypeOK
<1>8. QED
  BY <1>2, <1>3, <1>4, <1>6, <1>7

(* As long as the options have not been changed the limit is what it was.  *)
LEMMA StaysSteady ==
  ASSUME TypeOK, RateInv, [Next]_vars
  PROVE  /\ changes' = 0 => changes = 0 /\ admin' \in {"idle", "limit"}
         /\ Steady' => Steady /\ rateLimit' = rateLimit
<1> USE DEF KeepOptions, KeepRate, adminVars, rateVars, TypeOK
<1>u. use' = use
  BY OneMoves, PostsStay DEF Next
<1>1. CASE \E t \in Tasks : Post(t) \/ PostGoesOn(t)
  BY <1>1, OneMoves DEF RateInv, Steady
<1>2. CASE \E t \in Tasks : Serve(t) \/ \E d \in Delays : DelayedPost(t, d)
  BY <1>2 DEF Serve, DelayedPost, RateInv, Steady
<1>3. CASE Tick \/ UNCHANGED vars
  BY <1>3 DEF Tick, vars, RateInv, Steady
<1>4. CASE Admin
  <2>c. use.changes \in Nat
    BY UseFacts
  <2>1. CASE \E l \in use.limits : RateLimit(l) \/ ReconfigureLimit(l)
    <3>1. changes' = changes + 1
      BY <2>1 DEF RateLimit, ReconfigureLimit, SetRateLimit
    <3>2. changes' # 0
      BY <2>c, <3>1
    <3>3. QED
      BY <3>2 DEF Steady
  <2>2. CASE \E n \in use.sizes : ReconfigureSize(n)
    BY <1>u, <2>2 DEF ReconfigureSize, Steady
  <2>3. CASE ReconfigureStart \/ ReconfigureCount \/ \E b \in use.resets : ReconfigureFlag(b)
    BY <1>u, <2>3 DEF ReconfigureStart, ReconfigureCount, ReconfigureFlag, RateInv, Steady
  <2>4. QED
    BY <1>4, <2>1, <2>2, <2>3 DEF Admin
<1>5. QED
  BY <1>1, <1>2, <1>3, <1>4 DEF Next

(* The order of ages outlives a tick.                                      *)
LEMMA OlderIsMonotone ==
  ASSUME NEW a \in Age, NEW b \in Age \cup {Unset}
  PROVE  /\ a >= b => Older(a) >= Older(b)
         /\ Older(a) <= Second => a <= Second
         /\ b > Second => Older(b) > Second
         /\ Older(b) = Unset <=> b = Unset
BY TimeAssumption DEF Older, Age, Aged, Unset

LEMMA RateTick ==
  ASSUME TypeOK, Tick, rateLimit' = rateLimit,
         NEW C \in SUBSET Tasks, NEW P \in SUBSET Tasks, Window(C, P),
         \A t \in Tasks : AtWindow(t, C)
  PROVE  Window(C, P)' /\ \A t \in Tasks : AtWindow(t, C)'
<1> USE DEF TypeOK
<1>1. /\ startInterval' = Older(startInterval) /\ UNCHANGED <<pc, intervalCount>>
      /\ \A t \in Tasks : passed'[t] = Older(passed[t])
      /\ \A t \in Tasks : pc[t] = "renew" => clock'[t] = Older(clock[t])
  BY DEF Tick
<1>2. \A t \in Tasks : passed[t] \in Age /\ clock[t] \in Age
  OBVIOUS
<1>3. RecentlyPassed' \subseteq RecentlyPassed
  BY <1>1, <1>2, OlderIsMonotone DEF RecentlyPassed
<1>4. \A u \in P : passed'[u] >= startInterval'
  BY <1>1, <1>2, OlderIsMonotone DEF Window
<1>5. startInterval' = Unset <=> startInterval = Unset
  BY <1>1, <1>2, AgeFacts DEF Older, Age, Unset, Aged
<1>6. Window(C, P)'
  BY <1>1, <1>3, <1>4, <1>5 DEF Window
<1>7. ASSUME NEW t \in Tasks, pc[t] = "renew"
      PROVE  startInterval' > Second /\ \A u \in Tasks : passed'[u] >= clock'[t]
  <2>1. startInterval > Second /\ \A u \in Tasks : passed[u] >= clock[t]
    BY <1>7 DEF AtWindow
  <2>2. startInterval' > Second
    BY <1>1, <2>1, AgeFacts DEF Older, Age, Aged, Unset
  <2>3. ASSUME NEW u \in Tasks PROVE passed'[u] >= clock'[t]
    BY <1>1, <1>2, <1>7, <2>1, OlderIsMonotone
  <2>4. QED
    BY <2>2, <2>3
<1>8. \A t \in Tasks : AtWindow(t, C)'
  BY <1>1, <1>5, <1>7 DEF AtWindow
<1>9. QED
  BY <1>6, <1>8

(* A step of a post, under the sets it leaves.                             *)
LEMMA RatePost ==
  ASSUME TypeOK, PostInv, PostInv', NEW t \in Tasks, Post(t) \/ PostGoesOn(t),
         Steady, Steady', rateLimit' = rateLimit,
         NEW C \in SUBSET Tasks, NEW P \in SUBSET Tasks, Window(C, P),
         \A u \in Tasks : AtWindow(u, C)
  PROVE  \E D, Q \in SUBSET Tasks : Window(D, Q)' /\ \A u \in Tasks : AtWindow(u, D)'
<1> USE DEF TypeOK, Goto, KeepOptions, KeepRate, KeepTask
<1>0. /\ startInterval \in Age \cup {Unset} /\ rateLimit \in Nat /\ intervalCount \in Nat
      /\ \A u \in Tasks : passed[u] \in Age /\ clock[u] \in Age
      /\ Cardinality(C) \in Nat /\ Cardinality(P) \in Nat
      /\ {} \in SUBSET Tasks /\ Cardinality({}) = 0
  BY SetFacts, FS_EmptySet
<1>1. ASSUME UNCHANGED <<startInterval, intervalCount, passed>> PROVE Window(C, P)'
  BY <1>1 DEF Window, RecentlyPassed
<1>2. pc'[t] # "out" => \A u \in Tasks \ {t} : pc'[u] = "out"
  BY DEF PostInv, Posting, Steady
<1>3. ASSUME NEW D \in SUBSET Tasks, pc'[t] # "out", AtWindow(t, D)'
      PROVE  \A u \in Tasks : AtWindow(u, D)'
  BY <1>2, <1>3 DEF AtWindow
<1>4. ASSUME pc'[t] \in {"enter", "offer", "defer", "failed", "reset", "marked", "clear"},
             UNCHANGED <<startInterval, intervalCount, passed>>
      PROVE  Window(C, P)' /\ \A u \in Tasks : AtWindow(u, C)'
  <2>1. AtWindow(t, C)'
    BY <1>4 DEF AtWindow
  <2>2. QED
    BY <1>1, <1>3, <1>4, <2>1
<1>5. CASE Post(t)
  BY <1>4, <1>5 DEF Post
<1>6. CASE Enter(t)
  <2>1. CASE rateLimit = 0
    BY <2>1 DEF Steady
  <2>2. CASE rateLimit # 0
    <3>1. pc'[t] = "look" /\ UNCHANGED <<startInterval, intervalCount, passed>>
      BY <1>6, <2>2 DEF Enter
    <3>2. AtWindow(t, C)'
      BY <3>1 DEF AtWindow
    <3>3. QED
      BY <1>1, <1>3, <3>1, <3>2
  <2>3. QED
    BY <2>1, <2>2
<1>7. CASE Look(t)
  <2>1. /\ UNCHANGED <<startInterval, intervalCount, passed>>
        /\ pc'[t] = IF startInterval = Unset THEN "first" ELSE "span"
    BY <1>7 DEF Look
  <2>2. AtWindow(t, C)'
    BY <2>1 DEF AtWindow
  <2>3. QED
    BY <1>1, <1>3, <2>1, <2>2
<1>s. CASE Span(t)
  <2>0. startInterval \in Age
    BY <1>0, <1>s DEF AtWindow, Span
  <2>1. /\ UNCHANGED <<startInterval, intervalCount, passed>> /\ clock'[t] = 0
        /\ pc'[t] = "renew" => startInterval > Second
        /\ pc'[t] = "count" => startInterval # Unset
        /\ pc'[t] \in {"renew", "count"}
    BY <1>s, <2>0, AgeFacts DEF Span, Age, Unset
  <2>2. \A u \in Tasks : passed'[u] >= clock'[t]
    BY <1>0, <2>1 DEF Age
  <2>3. AtWindow(t, C)'
    BY <2>1, <2>2 DEF AtWindow
  <2>4. QED
    BY <1>1, <1>3, <2>1, <2>3
<1>8. CASE StartInterval(t) /\ pc[t] = "first"
  <2>1. startInterval = Unset
    BY <1>8 DEF AtWindow
  <2>2. /\ startInterval' = 0 /\ pc'[t] = "count" /\ UNCHANGED <<passed, intervalCount>>
    BY <1>8 DEF StartInterval
  <2>3. \A u \in P : passed'[u] >= startInterval'
    BY <1>0, <2>2 DEF Age
  <2>4. Window(C, P)'
    BY <2>2, <2>3 DEF Window, RecentlyPassed, Unset
  <2>5. AtWindow(t, C)'
    BY <2>2 DEF AtWindow, Unset
  <2>6. QED
    BY <1>3, <2>2, <2>4, <2>5
<1>9. CASE StartInterval(t) /\ pc[t] = "renew"
  <2>1. startInterval > Second /\ \A u \in Tasks : passed[u] >= clock[t]
    BY <1>9 DEF AtWindow
  <2>2. /\ startInterval' = clock[t] /\ pc'[t] = "one" /\ UNCHANGED <<passed, intervalCount>>
    BY <1>9 DEF StartInterval
  <2>3. RecentlyPassed' \subseteq C
    <3>1. \A u \in P : passed[u] > Second
      BY <1>0, <2>1, AgeFacts DEF Window, Age, Unset
    <3>2. \A u \in P : ~(passed[u] <= Second)
      BY <1>0, <3>1, AgeFacts DEF Age
    <3>3. QED
      BY <2>2, <3>2 DEF Window, RecentlyPassed
  <2>4. \A u \in C : passed'[u] >= startInterval'
    BY <2>1, <2>2
  <2>5. startInterval' # Unset
    BY <1>0, <2>2, AgeFacts
  <2>6. Window({}, C)'
    BY <1>0, <2>2, <2>3, <2>4, <2>5 DEF Window
  <2>7. AtWindow(t, {})'
    BY <2>2, <2>5 DEF AtWindow
  <2>8. QED
    BY <1>0, <1>3, <2>2, <2>6, <2>7
<1>10. CASE Count(t)
  <2>1. /\ UNCHANGED <<startInterval, passed>> /\ pc'[t] = "test"
        /\ \/ pc[t] = "one" /\ intervalCount' = 1
           \/ pc[t] = "count" /\ intervalCount' = intervalCount + 1
    BY <1>10 DEF Count
  <2>2. Cardinality(C) < intervalCount'
    <3>1. CASE pc[t] = "one"
      <4>1. C = {}
        BY <3>1 DEF AtWindow
      <4>2. intervalCount' = 1
        BY <2>1, <3>1
      <4> QED
        BY <1>0, <4>1, <4>2
    <3>2. CASE pc[t] = "count"
      <4>1. Cardinality(C) <= intervalCount
        BY DEF Window
      <4>2. intervalCount' = intervalCount + 1
        BY <2>1, <3>2
      <4> QED
        BY <1>0, <4>1, <4>2
    <3>3. QED
      BY <2>1, <3>1, <3>2
  <2>3. startInterval # Unset
    BY <2>1 DEF AtWindow
  <2>4. intervalCount' \in Nat
    BY <1>0, <2>1
  <2>5. Window(C, P)'
    BY <1>0, <2>1, <2>2, <2>3, <2>4 DEF Window, RecentlyPassed
  <2>6. AtWindow(t, C)'
    BY <2>1, <2>2, <2>3 DEF AtWindow
  <2>7. QED
    BY <1>3, <2>1, <2>5, <2>6
<1>11. CASE Test(t) /\ intervalCount <= rateLimit
  <2> DEFINE D == C \cup {t}
             Q == P \ {t}
  <2>1. /\ UNCHANGED <<startInterval, intervalCount>> /\ pc'[t] = "offer"
        /\ \A u \in Tasks \ {t} : passed'[u] = passed[u]
    BY <1>11 DEF Test
  <2>2. Cardinality(C) < intervalCount /\ startInterval # Unset
    BY <1>11 DEF AtWindow, Test
  <2>3. Cardinality(D) \in Nat /\ Cardinality(D) <= Cardinality(C) + 1
    BY SetFacts
  <2>4. Cardinality(Q) \in Nat /\ Cardinality(Q) <= Cardinality(P)
    BY SetFacts
  <2>5. Cardinality(D) <= rateLimit /\ Cardinality(Q) <= rateLimit /\ Cardinality(D) <= intervalCount
    BY <1>0, <1>11, <2>2, <2>3, <2>4 DEF Window
  <2>6. RecentlyPassed' \subseteq D \cup Q
    BY <2>1 DEF Window, RecentlyPassed
  <2>7. \A u \in Q : passed'[u] >= startInterval'
    BY <2>1 DEF Window
  <2>8. Window(D, Q)'
    BY <2>1, <2>2, <2>5, <2>6, <2>7 DEF Window
  <2>9. AtWindow(t, D)'
    BY <2>1 DEF AtWindow
  <2>10. QED
    BY <1>3, <2>1, <2>8, <2>9
<1>12. CASE Test(t) /\ ~(intervalCount <= rateLimit)
  BY <1>4, <1>12 DEF Test
<1>13. ASSUME UNCHANGED <<startInterval, intervalCount, passed>>,
              pc'[t] \in {"out", "failed", "reset", "marked", "clear"},
              \A u \in Tasks \ {t} : pc'[u] = pc[u], PostGoesOn(t)
       PROVE  Window(C, P)' /\ \A u \in Tasks : AtWindow(u, C)'
  <2>1. \A u \in Tasks \ {t} : pc[u] = "out"
    BY <1>13, OneMoves DEF PostInv, Posting, Steady
  <2>2. QED
    BY <1>1, <1>13, <2>1 DEF AtWindow
<1>14. CASE Defer(t) \/ Offer(t)
  BY <1>13, <1>14 DEF Defer, Offer, PostGoesOn
<1>15. CASE Failed(t) \/ ResetQueue(t) \/ Mark(t) \/ Clear(t)
  BY <1>13, <1>15 DEF Failed, ResetQueue, Mark, Clear, PostGoesOn
<1>16. QED
  BY <1>5, <1>6, <1>7, <1>s, <1>8, <1>9, <1>10, <1>11, <1>12, <1>14, <1>15
     DEF PostGoesOn, StartInterval

LEMMA RateStep == TypeOK /\ PostInv /\ RateInv /\ [Next]_vars => RateInv'
<1> SUFFICES ASSUME TypeOK, PostInv, RateInv, [Next]_vars PROVE RateInv'
  OBVIOUS
<1>1. /\ changes' = 0 => admin' \in {"idle", "limit"}
      /\ Steady' => Steady /\ rateLimit' = rateLimit
  BY StaysSteady
<1> SUFFICES ASSUME Steady'
             PROVE  \E C, P \in SUBSET Tasks :
                      Window(C, P)' /\ \A t \in Tasks : AtWindow(t, C)'
  BY <1>1 DEF RateInv
<1>2. Steady /\ rateLimit' = rateLimit
  BY <1>1
<1>3. PICK C, P \in SUBSET Tasks : Window(C, P) /\ \A t \in Tasks : AtWindow(t, C)
  BY <1>2 DEF RateInv
<1>4. CASE \E t \in Tasks : Post(t) \/ PostGoesOn(t)
  BY <1>2, <1>3, <1>4, PostStep, RatePost
<1>5. CASE Tick
  BY <1>2, <1>3, <1>5, RateTick
<1>6. CASE UNCHANGED <<startInterval, intervalCount, passed, clock, pc>>
  BY <1>2, <1>3, <1>6 DEF Window, AtWindow, RecentlyPassed
<1> USE DEF KeepOptions, KeepRate, rateVars, TypeOK
<1>7. CASE \E t \in Tasks : Serve(t) \/ \E d \in Delays : DelayedPost(t, d)
  BY <1>6, <1>7 DEF Serve, DelayedPost
<1>8. CASE Admin
  <2>1. admin \in {"idle", "limit"}
    BY <1>2 DEF RateInv, Steady
  <2>2. QED
    BY <1>6, <1>8, <2>1 DEF Admin, RateLimit, ReconfigureSize, ReconfigureLimit,
                ReconfigureStart, ReconfigureCount, ReconfigureFlag, AdminKeeps, taskVars
<1>9. CASE UNCHANGED vars
  BY <1>6, <1>9 DEF vars
<1>10. QED
  BY <1>4, <1>5, <1>7, <1>8, <1>9 DEF Next

(* Where one thread posts, runs what was put off and is not reconfigured,  *)
(* no more than twice the limit passes in any second, the most an interval *)
(* that begins anew allows (task_manager.cpp:285-315).                     *)
THEOREM RateKeptHolds == Spec => []RateKept
BY InitRate, InitReset, PostStep, RateStep, RateInvSuffices, TypeCorrect, PTL DEF Spec

=============================================================================
