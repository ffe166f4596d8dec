----------------------------- MODULE WorkflowProofs -----------------------------
(* Proofs about Bique and Workflow, for any tasks, threads and uses.       *)
EXTENDS Workflow, SequenceTheorems, TLAPS

(* The pool shall go to no threads and has not done so yet.                *)
Pending == call = "shrink" /\ size = 0

(* There is a flag for each thread but while stop() joins, and a pool is   *)
(* to get more threads than it has, or to have fewer.                      *)
ListsInv ==
  /\ call # "stopjoin" => Len(threads) <= Len(flags)
  /\ call = "grow" => Len(threads) < size
  /\ call = "shrink" => size < Len(threads)

(* A pool that holds its guard holds the work of the queue in use and has  *)
(* threads; unless a start() or reconfigure() found a queue stopped or     *)
(* threads at their end, the queue goes on and every thread with a flag    *)
(* lives.  All threads have one unless reconfigure() has cut the lists     *)
(* with old flags in front.                                                *)
ServedInv ==
  /\ broken => size = 0 /\ ~use.io
  /\ ~mtFlag => size = 0
  /\ ~started => threads = <<>> /\ call # "grow"
  /\ \A w \in Range(threads) : at[w] # "none"
  /\ ~cut /\ call # "stopjoin" => Range(threads) \subseteq Range(flags)
  /\ guard # "none" => threads # <<>>
  /\ call \in {"stopjoin", "wait", "restart"} => guard = "none"
  /\ guard # "none" /\ ~Pending => guard = "asio" /\ mtFlag
  /\ (guard # "none" /\ ~Pending /\ ~deadStart /\ call # "stop")
       => ~stopped[Active] /\ \A w \in Range(threads) \cap Range(flags) : Alive(w)

(* What was there at a shutdown() is done, or in a queue that goes on and  *)
(* that every thread still serves.                                         *)
StillServed ==
  /\ mtFlag /\ ~stopped["asio"]
  /\ threads # <<>> /\ Range(threads) \subseteq Range(flags)
  /\ \A w \in Range(threads) : Alive(w)
  /\ \A t \in before : state[t] = "done" \/ t \in In("asio")

DoneInv ==
  use.asio =>
    /\ call \in {"stop", "stopjoin", "grow", "shrink"} => before = {}
    /\ ~cut => (\A t \in before : state[t] = "done") \/ StillServed

(* As long as the control workflow stays the same every warning timer is   *)
(* in its manager; between the new timer and the release of the old one,   *)
(* each is the one or the other, and they are two.                         *)
WarnInv ==
  ~moved =>
    /\ wrnTimer <= idCounter[control]
    /\ \A x \in Warnings : x.mgr = control
    /\ init = "create" => \A x \in Warnings : x.id = wrnTimer
    /\ init = "release" =>
         /\ ~watched => wrnTimer = oldTimer
         /\ watched => /\ wrnTimer # oldTimer
                       /\ \E x \in timers : x.kind = "warning" /\ x.id = wrnTimer
         /\ \A x \in Warnings : x.id \in {oldTimer, wrnTimer}
    /\ Ready => OneWarning

-----------------------------------------------------------------------------
(* Types of the switch.                                                    *)

LEMMA UseFacts ==
  ASSUME use \in Uses
  PROVE  /\ use.asio \in BOOLEAN /\ use.io \in BOOLEAN /\ use.delayed \in BOOLEAN
         /\ use.size \in Nat /\ use.sizes \subseteq Nat
         /\ use.posts \in Nat /\ use.timers \in Nat
BY UsesAssumption DEF Use

LEMMA EmptyList ==
  ASSUME NEW S
  PROVE  <<>> \in Seq(S) /\ Len(<<>>) = 0 /\ Range(<<>>) = {}
<1>1. <<>> \in Seq(S) /\ Len(<<>>) = 0
  OBVIOUS
<1>2. Range(<<>>) = {<<>>[i] : i \in 1..0}
  BY <1>1, RangeEquality
<1>3. QED
  BY <1>1, <1>2

(* The first n of a list are among its members.                            *)
LEMMA FirstOnes ==
  ASSUME NEW S, NEW l \in Seq(S), NEW n \in Nat, n <= Len(l)
  PROVE  /\ SubSeq(l, 1, n) \in Seq(S) /\ Len(SubSeq(l, 1, n)) = n
         /\ Range(SubSeq(l, 1, n)) \subseteq Range(l)
<1>1. Len(l) \in Nat
  BY LenProperties
<1>2. /\ SubSeq(l, 1, n) \in Seq(S) /\ Len(SubSeq(l, 1, n)) = n
      /\ \A i \in 1..n : SubSeq(l, 1, n)[i] = l[i]
  BY <1>1
<1>3. /\ Range(l) = {l[i] : i \in 1..Len(l)}
      /\ Range(SubSeq(l, 1, n)) = {SubSeq(l, 1, n)[i] : i \in 1..n}
  BY <1>2, RangeEquality
<1>4. \A i \in 1..n : i \in 1..Len(l)
  BY <1>1
<1>5. QED
  BY <1>2, <1>3, <1>4

LEMMA BqInitTypes == BqInit => BqTypeOK /\ ListsInv
<1> SUFFICES ASSUME BqInit PROVE BqTypeOK /\ ListsInv
  OBVIOUS
<1>1. mtFlag \in BOOLEAN /\ size \in Nat
  BY UseFacts DEF BqInit
<1>2. /\ state \in [Tasks -> States] /\ where \in [Tasks -> Queues \cup {"none"}]
      /\ at \in [Threads -> Places] /\ runs \in [Threads -> Tasks \cup {NoTask}]
      /\ stopped \in [Queues -> BOOLEAN] /\ call \in Calls
  BY DEF BqInit, States, Places, Calls
<1>3. calls \in 0..MaxCalls
  BY UsesAssumption DEF BqInit
<1>4. threads \in Seq(Threads) /\ flags \in Seq(Threads) /\ Len(threads) <= Len(flags)
  BY EmptyList DEF BqInit
<1>5. call = "idle"
  BY DEF BqInit
<1>6. QED
  BY <1>1, <1>2, <1>3, <1>4, <1>5 DEF BqInit, BqTypeOK, ListsInv

LEMMA QueueFacts ==
  /\ \A mt : ActiveIf(mt) \in Queues /\ Active \in Queues /\ WorkQueue \in Queues
  /\ "none" \notin Queues /\ "ended" \notin Queues /\ "out" \notin Queues
  /\ "ret" \notin Queues /\ Queues \subseteq Places
BY DEF ActiveIf, Active, WorkQueue, Queues, Places

LEMMA GiveTypes ==
  ASSUME BqTypeOK, NEW t \in Tasks, NEW s \in States, Give(t, Active, s), OthersKeep
  PROVE  BqTypeOK'
<1>1. state' \in [Tasks -> States] /\ where' \in [Tasks -> Queues \cup {"none"}]
  BY QueueFacts DEF BqTypeOK, Give, taskVars
<1>2. broken' \in BOOLEAN
  BY DEF BqTypeOK, Give, taskVars
<1>3. QED
  BY <1>1, <1>2 DEF BqTypeOK, OthersKeep, poolVars, workVars

LEMMA PostTypes ==
  ASSUME BqTypeOK, NEW t \in Tasks, Post(t) \/ SafePost(t) \/ Expire(t) \/ CallerServes(t)
  PROVE  BqTypeOK'
<1>1. CASE Post(t) \/ SafePost(t) \/ Expire(t)
  BY <1>1, GiveTypes DEF Post, SafePost, Expire, States
<1>2. CASE CallerServes(t)
  BY <1>2 DEF CallerServes, BqTypeOK, OthersKeep, poolVars, workVars, States
<1>3. QED
  BY <1>1, <1>2

LEMMA WorkerTypes ==
  ASSUME BqTypeOK, NEW w \in Threads, Worker(w)
  PROVE  BqTypeOK'
<1> USE DEF BqTypeOK, WorkersKeep, poolVars
<1>1. CASE Enter(w)
  BY <1>1, QueueFacts DEF Enter
<1>2. CASE Take(w)
  <2>1. state' \in [Tasks -> States] /\ runs' \in [Threads -> Tasks \cup {NoTask}]
    BY <1>2 DEF Take, In, States
  <2>2. QED
    BY <1>2, <2>1 DEF Take
<1>3. CASE Finish(w)
  <2>1. state' \in [Tasks -> States] /\ runs' \in [Threads -> Tasks \cup {NoTask}]
    BY <1>3 DEF Finish, States
  <2>2. QED
    BY <1>3, <2>1 DEF Finish
<1>4. CASE OutOfWork(w)
  <2>1. stopped' \in [Queues -> BOOLEAN]
    BY <1>4 DEF OutOfWork
  <2>2. QED
    BY <1>4, <2>1 DEF OutOfWork
<1>5. CASE LeaveRun(w)
  BY <1>5 DEF LeaveRun, Places
<1>6. CASE Return(w)
  <2>1. at' \in [Threads -> Places] /\ broken' \in BOOLEAN
    BY <1>6 DEF Return, Places
  <2>2. QED
    BY <1>6, <2>1 DEF Return
<1>7. QED
  BY <1>1, <1>2, <1>3, <1>4, <1>5, <1>6 DEF Worker

LEMMA ResetTypes ==
  ASSUME BqTypeOK, ResetQueues
  PROVE  state' \in [Tasks -> States] /\ stopped' \in [Queues -> BOOLEAN]
BY DEF BqTypeOK, ResetQueues, States

(* What run_more_() leaves: each new thread has a flag.                    *)
LEMMA MoreThreads ==
  ASSUME BqTypeOK, NEW n \in Nat, RunMore(n)
  PROVE  /\ threads' \in Seq(Threads) /\ flags' \in Seq(Threads)
         /\ Len(threads') = Len(threads) + n /\ Len(flags') = Len(flags) + n
         /\ at' \in [Threads -> Places] /\ guard' \in Queues \cup {"none"}
         /\ n = 0 => threads' = threads /\ flags' = flags /\ guard' = guard /\ at' = at
         /\ n # 0 => threads' # <<>> /\ guard' = IF guard = "none" THEN WorkQueue ELSE guard
         /\ Range(threads) \subseteq Range(flags) => Range(threads') \subseteq Range(flags')
         /\ \A w \in Range(threads') : w \in Range(threads) \/ at'[w] = "out"
         /\ \A w \in Threads : at[w] # "none"
              => at'[w] = at[w] /\ (w \in Range(flags') => w \in Range(flags))
<1> DEFINE Unborn == {w \in Threads : at[w] = "none"}
<1>1. PICK new \in [1..n -> Unborn] :
        /\ threads' = threads \o new
        /\ flags' = flags \o new
        /\ at' = [w \in Threads |-> IF w \in Range(new) THEN "out" ELSE at[w]]
        /\ guard' = IF guard = "none" /\ n > 0 THEN WorkQueue ELSE guard
  BY DEF RunMore
<1>2. threads \in Seq(Threads) /\ flags \in Seq(Threads) /\ at \in [Threads -> Places]
  BY DEF BqTypeOK
<1>3. Len(threads) \in Nat /\ Len(flags) \in Nat
  BY <1>2, LenProperties
<1>4. new \in Seq(Threads) /\ Len(new) = n /\ Range(new) \subseteq Unborn
  <2>1. Unborn \subseteq Threads
    OBVIOUS
  <2>2. new \in Seq(Threads) /\ Len(new) = n
    BY <2>1
  <2>3. QED
    BY <2>2 DEF Range
<1>5. /\ threads' \in Seq(Threads) /\ flags' \in Seq(Threads)
      /\ Len(threads') = Len(threads) + n /\ Len(flags') = Len(flags) + n
  BY <1>1, <1>2, <1>4, ConcatProperties
<1>6. /\ Range(threads') = Range(threads) \cup Range(new)
      /\ Range(flags') = Range(flags) \cup Range(new)
  BY <1>1, <1>2, <1>4, RangeConcatenation
<1>7. at' \in [Threads -> Places] /\ guard' \in Queues \cup {"none"}
  <2>1. at' \in [Threads -> Places]
    BY <1>1, <1>2 DEF Places
  <2>2. guard' \in Queues \cup {"none"}
    BY <1>1, QueueFacts DEF BqTypeOK
  <2>3. QED
    BY <2>1, <2>2
<1>8. n = 0 => threads' = threads /\ flags' = flags /\ guard' = guard /\ at' = at
  <2>1. SUFFICES ASSUME n = 0
                 PROVE  threads' = threads /\ flags' = flags /\ guard' = guard /\ at' = at
    OBVIOUS
  <2>2. new = <<>> /\ Range(new) = {}
    BY <1>4, <2>1, EmptySeq, EmptyList
  <2>3. at' = [w \in Threads |-> at[w]]
    BY <1>1, <2>2
  <2>4. threads' = threads /\ flags' = flags
    BY <1>1, <1>2, <2>2, ConcatEmptySeq
  <2>5. QED
    BY <1>1, <1>2, <2>1, <2>3, <2>4
<1>9. n # 0 => threads' # <<>> /\ guard' = IF guard = "none" THEN WorkQueue ELSE guard
  <2>1. n # 0 => threads' # <<>>
    BY <1>3, <1>5, EmptyList
  <2>2. QED
    BY <1>1, <2>1
<1>10. \A w \in Range(new) : w \in Threads /\ at[w] = "none" /\ at'[w] = "out"
  BY <1>1, <1>4
<1>11. \A w \in Threads : at[w] # "none"
         => at'[w] = at[w] /\ (w \in Range(flags') => w \in Range(flags))
  BY <1>1, <1>6, <1>10
<1>12. QED
  BY <1>5, <1>6, <1>7, <1>8, <1>9, <1>10, <1>11

(* resize() of both lists.                                                 *)
LEMMA FewerThreads ==
  ASSUME BqTypeOK, ListsInv, call = "shrink", CutLists
  PROVE  /\ threads' \in Seq(Threads) /\ flags' \in Seq(Threads) /\ cut' \in BOOLEAN
         /\ Len(threads') = size /\ Len(flags') = size
         /\ Range(threads') \subseteq Range(threads) /\ Range(flags') \subseteq Range(flags)
         /\ ~cut' => Range(threads') \subseteq Range(flags')
<1>1. /\ threads \in Seq(Threads) /\ flags \in Seq(Threads) /\ size \in Nat
      /\ size <= Len(threads) /\ size <= Len(flags)
  <2>1. threads \in Seq(Threads) /\ flags \in Seq(Threads) /\ size \in Nat
    BY DEF BqTypeOK
  <2>2. Len(threads) \in Nat /\ Len(flags) \in Nat
    BY <2>1, LenProperties
  <2>3. QED
    BY <2>1, <2>2 DEF ListsInv
<1>2. /\ threads' = SubSeq(threads, 1, size) /\ flags' = SubSeq(flags, 1, size)
      /\ cut' = (size # 0 /\ (cut \/ flags # threads))
  BY DEF CutLists
<1>3. /\ threads' \in Seq(Threads) /\ Len(threads') = size
      /\ Range(threads') \subseteq Range(threads)
  BY <1>1, <1>2, FirstOnes
<1>4. /\ flags' \in Seq(Threads) /\ Len(flags') = size
      /\ Range(flags') \subseteq Range(flags)
  BY <1>1, <1>2, FirstOnes
<1>5. CASE size = 0
  <2>1. threads' = <<>> /\ Range(threads') = {}
    BY <1>3, <1>5, EmptySeq, EmptyList
  <2>2. QED
    BY <1>2, <1>3, <1>4, <1>5, <2>1
<1>6. CASE size # 0
  <2>1. ~cut' => flags' = threads'
    BY <1>2, <1>6
  <2>2. QED
    BY <1>2, <1>3, <1>4, <1>6, <2>1
<1>7. QED
  BY <1>5, <1>6

LEMMA OwnerTypes ==
  ASSUME BqTypeOK, ListsInv, CallGoesOn \/ Owner
  PROVE  BqTypeOK' /\ ListsInv'
<1> USE DEF CallsKeep, taskVars, poolVars
<1>t. /\ threads \in Seq(Threads) /\ flags \in Seq(Threads) /\ size \in Nat
      /\ Len(threads) \in Nat /\ Len(flags) \in Nat
  BY LenProperties DEF BqTypeOK
<1>l. ASSUME UNCHANGED <<threads, flags>>, call' \in {"idle", "stop", "wait"}, call # "stopjoin"
      PROVE  ListsInv'
  BY <1>l DEF ListsInv
<1>1. CASE Start
  <2>1. CASE started \/ threads # <<>>
    <3>1. UNCHANGED <<guard, threads, flags, at, deadStart>> /\ call' = "idle"
      BY <1>1, <2>1 DEF Start
    <3>2. BqTypeOK'
      BY <1>1, <3>1 DEF Start, BqTypeOK, Calls
    <3>3. QED
      BY <1>1, <1>l, <3>1, <3>2 DEF Start
  <2>2. CASE ~(started \/ threads # <<>>)
    <3>1. RunMore(size) /\ deadStart' = stopped[Active]
      BY <1>1, <2>2 DEF Start
    <3>2. /\ threads' \in Seq(Threads) /\ flags' \in Seq(Threads)
          /\ at' \in [Threads -> Places] /\ guard' \in Queues \cup {"none"}
          /\ Len(threads') = Len(threads) + size /\ Len(flags') = Len(flags) + size
      BY <1>t, <3>1, MoreThreads
    <3>3. deadStart' \in BOOLEAN
      BY <3>1, QueueFacts DEF BqTypeOK
    <3>4. BqTypeOK'
      BY <1>1, <3>2, <3>3 DEF Start, BqTypeOK, Calls
    <3>5. call \in {"idle", "restart"} /\ call' = "idle"
      BY <1>1 DEF Start
    <3>6. Len(threads') <= Len(flags')
      BY <1>t, <3>2, <3>5 DEF ListsInv
    <3>7. QED
      BY <3>4, <3>5, <3>6 DEF ListsInv
  <2>3. QED
    BY <2>1, <2>2
<1>2. CASE Stop
  <2>1. BqTypeOK'
    BY <1>2 DEF Stop, BqTypeOK, Calls
  <2>2. QED
    BY <1>2, <1>l, <2>1 DEF Stop
<1>3. CASE StopPool
  <2>1. flags' = <<>> /\ flags' \in Seq(Threads) /\ call' = "stopjoin"
    BY <1>3, EmptyList DEF StopPool
  <2>2. BqTypeOK'
    BY <1>3, <2>1 DEF StopPool, BqTypeOK, Calls
  <2>3. QED
    BY <2>1, <2>2 DEF ListsInv
<1>4. CASE Reset
  <2>1. BqTypeOK'
    BY <1>4, ResetTypes, UsesAssumption DEF Reset, Count, BqTypeOK
  <2>2. QED
    BY <1>4, <1>l, <2>1 DEF Reset
<1>5. CASE Shutdown
  <2>1. BqTypeOK'
    BY <1>5 DEF Shutdown, BqTypeOK, In
  <2>2. QED
    BY <1>5, <1>l, <2>1 DEF Shutdown
<1>6. CASE Wait
  <2>1. BqTypeOK'
    BY <1>6, ResetTypes DEF Wait, BqTypeOK, Calls
  <2>2. QED
    BY <1>6, <1>l, <2>1 DEF Wait
<1>7. CASE Joined
  <2>1. /\ threads' = <<>> /\ threads' \in Seq(Threads) /\ Len(threads') = 0
        /\ flags' = flags /\ call' \in {"idle", "restart"}
    BY <1>7, EmptyList DEF Joined
  <2>2. BqTypeOK'
    BY <1>7, <2>1, ResetTypes DEF Joined, BqTypeOK, Calls
  <2>3. QED
    BY <1>t, <2>1, <2>2 DEF ListsInv
<1>8. ASSUME NEW n \in use.sizes, Reconfigure(n) PROVE BqTypeOK' /\ ListsInv'
  <2>1. n \in Nat
    BY UseFacts DEF BqTypeOK
  <2>2. BqTypeOK'
    BY <1>8, <2>1, UsesAssumption DEF Reconfigure, Count, BqTypeOK, Calls
  <2>3. /\ UNCHANGED <<threads, flags>> /\ call = "idle" /\ size' = n
        /\ call' = IF ~started \/ n = Len(threads) THEN "idle"
                   ELSE IF n > Len(threads) THEN "grow" ELSE "shrink"
    BY <1>8 DEF Reconfigure
  <2>4. QED
    BY <1>t, <2>1, <2>2, <2>3 DEF ListsInv
<1>9. CASE Grow
  <2> DEFINE n == size - Len(threads)
  <2>1. call = "grow" /\ call' = "idle" /\ n \in Nat /\ RunMore(n)
    BY <1>t, <1>9 DEF Grow, ListsInv
  <2> HIDE DEF n
  <2>2. /\ threads' \in Seq(Threads) /\ flags' \in Seq(Threads)
        /\ at' \in [Threads -> Places] /\ guard' \in Queues \cup {"none"}
        /\ Len(threads') = Len(threads) + n /\ Len(flags') = Len(flags) + n
    BY <2>1, MoreThreads
  <2>3. state' \in [Tasks -> States] /\ stopped' \in [Queues -> BOOLEAN]
    BY <1>9, ResetTypes DEF Grow, BqTypeOK
  <2>4. deadStart' \in BOOLEAN
    BY <1>9 DEF Grow
  <2>5. BqTypeOK'
    BY <1>9, <2>2, <2>3, <2>4 DEF Grow, BqTypeOK, Calls
  <2>6. Len(threads') <= Len(flags')
    BY <1>t, <2>1, <2>2 DEF ListsInv
  <2>7. QED
    BY <2>1, <2>5, <2>6 DEF ListsInv
<1>10. CASE Shrink
  <2>1. call = "shrink" /\ CutLists /\ call' = "idle"
    BY <1>10 DEF Shrink
  <2>2. /\ threads' \in Seq(Threads) /\ flags' \in Seq(Threads) /\ cut' \in BOOLEAN
        /\ Len(threads') = size /\ Len(flags') = size
    BY <2>1, FewerThreads
  <2>3. BqTypeOK'
    BY <1>10, <2>2 DEF Shrink, BqTypeOK, Calls
  <2>4. QED
    BY <1>t, <2>1, <2>2, <2>3 DEF ListsInv
<1>11. QED
  BY <1>1, <1>2, <1>3, <1>4, <1>5, <1>6, <1>7, <1>8, <1>9, <1>10 DEF CallGoesOn, Owner

(* The posts, the threads of the pool and a stutter leave the lists alone. *)
LEMMA ListsKept ==
  ASSUME BqTypeOK, ListsInv, UNCHANGED <<threads, flags, size, call>>
  PROVE  ListsInv'
BY DEF ListsInv

LEMMA BqTypeStep ==
  ASSUME BqTypeOK, ListsInv, [BqNext]_bqVars
  PROVE  BqTypeOK' /\ ListsInv'
<1>1. CASE UNCHANGED bqVars
  <2>1. BqTypeOK'
    BY <1>1 DEF BqTypeOK, bqVars
  <2>2. QED
    BY <1>1, <2>1, ListsKept DEF bqVars
<1>2. CASE \E t \in Tasks : Post(t) \/ SafePost(t) \/ Expire(t) \/ CallerServes(t)
  <2>1. UNCHANGED <<threads, flags, size, call>>
    BY <1>2 DEF Post, SafePost, Expire, CallerServes, OthersKeep, poolVars
  <2>2. QED
    BY <1>2, <2>1, PostTypes, ListsKept
<1>3. CASE \E w \in Threads : Worker(w)
  <2>1. UNCHANGED <<threads, flags, size, call>>
    BY <1>3 DEF Worker, Enter, Take, Finish, OutOfWork, LeaveRun, Return, WorkersKeep, poolVars
  <2>2. QED
    BY <1>3, <2>1, WorkerTypes, ListsKept
<1>4. QED
  BY <1>1, <1>2, <1>3, OwnerTypes DEF BqNext

LEMMA TypesHold == BqSpec => [](BqTypeOK /\ ListsInv)
<1>1. BqTypeOK /\ ListsInv /\ [BqNext]_bqVars => (BqTypeOK /\ ListsInv)'
  BY BqTypeStep
<1>2. QED
  BY <1>1, BqInitTypes, PTL DEF BqSpec

(* Every variable of the switch keeps its type, whatever the calls of the  *)
(* owner (bique.cpp:46-174, task_manager.cpp:36-191).                      *)
THEOREM BqTypeCorrect == BqSpec => []BqTypeOK
BY TypesHold, PTL

-----------------------------------------------------------------------------
(* The queue that is served.                                               *)

LEMMA InitServed == BqInit => ServedInv
<1> SUFFICES ASSUME BqInit PROVE ServedInv
  OBVIOUS
<1>1. threads = <<>> /\ Range(threads) = {}
  BY EmptyList DEF BqInit
<1>2. ~mtFlag => size = 0
  BY UseFacts DEF BqInit
<1>3. QED
  BY <1>1, <1>2 DEF BqInit, ServedInv

(* A queue in use that does not exist.                                     *)
LEMMA NotThere ==
  ASSUME BqTypeOK, ServedInv, ~Exists(Active)
  PROVE  size = 0 /\ ~use.io
BY DEF BqTypeOK, ServedInv, Exists, Active, ActiveIf

LEMMA Members ==
  ASSUME BqTypeOK
  PROVE  /\ Range(threads) \subseteq Threads /\ Range(flags) \subseteq Threads
         /\ threads # <<>> => Range(threads) # {}
<1>1. threads \in Seq(Threads) /\ flags \in Seq(Threads)
  BY DEF BqTypeOK
<1>2. /\ Range(threads) = {threads[i] : i \in 1..Len(threads)}
      /\ Range(flags) = {flags[i] : i \in 1..Len(flags)}
  BY <1>1, RangeEquality
<1>3. threads # <<>> => 1 \in 1..Len(threads)
  BY <1>1, EmptySeq, LenProperties
<1>4. QED
  BY <1>1, <1>2, <1>3

(* A step that leaves the pool and the calls alone.                        *)
LEMMA ServedKept ==
  ASSUME BqTypeOK, ServedInv,
         UNCHANGED <<use, mtFlag, size, poolVars, call, deadStart>>,
         broken' => broken \/ ~Exists(Active),
         (guard # "none" /\ ~Pending /\ ~stopped[Active]) => ~stopped'[Active],
         \A w \in Range(threads) :
           /\ at[w] # "none" => at'[w] # "none"
           /\ (w \in Range(flags) /\ Alive(w) /\ ~stopped[Active]) => Alive(w)'
  PROVE  ServedInv'
<1> USE DEF poolVars
<1>1. broken' => size = 0 /\ ~use.io
  BY NotThere DEF ServedInv
<1>2. UNCHANGED <<Pending, Active>>
  BY DEF Pending, Active, ActiveIf
<1>3. UNCHANGED <<guard, started, threads, flags, cut, Range(threads), Range(flags)>>
  OBVIOUS
<1>4. (guard # "none" /\ ~Pending /\ ~deadStart /\ call # "stop")
        => ~stopped'[Active] /\ \A w \in Range(threads) \cap Range(flags) : Alive(w)'
  BY DEF ServedInv
<1>5. QED
  BY <1>1, <1>2, <1>3, <1>4 DEF ServedInv

LEMMA ServedPost ==
  ASSUME BqTypeOK, ServedInv, NEW t \in Tasks,
         Post(t) \/ SafePost(t) \/ Expire(t) \/ CallerServes(t)
  PROVE  ServedInv'
<1>1. /\ UNCHANGED <<use, mtFlag, size, poolVars, call, deadStart, stopped, at>>
      /\ broken' => broken \/ ~Exists(Active)
  BY DEF Post, SafePost, Expire, CallerServes, Give, OthersKeep, workVars, taskVars
<1>2. \A w \in Range(threads) : Alive(w) => Alive(w)'
  BY <1>1 DEF Alive
<1>3. QED
  BY <1>1, <1>2, ServedKept

LEMMA ServedWorker ==
  ASSUME BqTypeOK, ServedInv, NEW w \in Threads, Worker(w)
  PROVE  ServedInv'
<1>1. UNCHANGED <<use, mtFlag, size, poolVars, call, deadStart>>
  BY DEF Worker, Enter, Take, Finish, OutOfWork, LeaveRun, Return, WorkersKeep
<1> USE DEF BqTypeOK, Alive
<1>2. ASSUME UNCHANGED stopped, broken' => broken \/ ~Exists(Active), at'[w] # "none",
             \A v \in Threads \ {w} : at'[v] = at[v],
             w \in Range(flags) /\ ~stopped[Active] => at'[w] # "ended"
      PROVE  ServedInv'
  <2>1. \A v \in Range(threads) :
          /\ at[v] # "none" => at'[v] # "none"
          /\ (v \in Range(flags) /\ Alive(v) /\ ~stopped[Active]) => Alive(v)'
    BY <1>2, Members
  <2>2. QED
    BY <1>1, <1>2, <2>1, ServedKept
<1>3. CASE Enter(w)
  BY <1>2, <1>3, QueueFacts DEF Enter
<1>4. CASE Take(w) \/ Finish(w)
  <2>1. UNCHANGED <<stopped, broken, at>>
    BY <1>4 DEF Take, Finish
  <2>2. QED
    BY <1>1, <2>1, ServedKept
<1>5. CASE OutOfWork(w)
  <2>1. UNCHANGED <<broken, at>> /\ stopped' = [stopped EXCEPT ![at[w]] = TRUE]
    BY <1>5 DEF OutOfWork
  <2>2. (guard # "none" /\ ~Pending) => at[w] # Active
    BY <1>5 DEF OutOfWork, ServedInv, Active, ActiveIf
  <2>3. (guard # "none" /\ ~Pending /\ ~stopped[Active]) => ~stopped'[Active]
    BY <2>1, <2>2
  <2>4. QED
    BY <1>1, <2>1, <2>3, ServedKept
<1>6. CASE LeaveRun(w)
  BY <1>2, <1>6 DEF LeaveRun
<1>7. CASE Return(w)
  BY <1>2, <1>7 DEF Return
<1>8. QED
  BY <1>3, <1>4, <1>5, <1>6, <1>7 DEF Worker

LEMMA ServedStart ==
  ASSUME BqTypeOK, ServedInv, Start PROVE ServedInv'
<1>1. /\ call \in {"idle", "restart"} /\ call' = "idle" /\ started' = TRUE /\ ~Pending /\ ~Pending'
      /\ UNCHANGED <<use, broken, mtFlag, size, stopped, cut, Active>>
  BY DEF Start, Pending, Active, ActiveIf
<1>2. CASE started \/ threads # <<>>
  <2>1. UNCHANGED <<guard, threads, flags, at, deadStart>>
    BY <1>2 DEF Start
  <2>2. QED
    BY <1>1, <2>1 DEF ServedInv, Alive
<1>3. CASE ~(started \/ threads # <<>>)
  <2>1. /\ RunMore(size) /\ deadStart' = stopped[Active] /\ guard = "none"
        /\ threads = <<>> /\ Range(threads) = {}
    BY <1>3, EmptyList DEF Start, ServedInv
  <2>2. size \in Nat
    BY DEF BqTypeOK
  <2>3. /\ size = 0 => threads' = <<>> /\ guard' = "none"
        /\ size # 0 => threads' # <<>> /\ guard' = WorkQueue
        /\ \A w \in Range(threads') : at'[w] = "out"
        /\ Range(threads') \subseteq Range(flags')
    BY <2>1, <2>2, MoreThreads
  <2>4. size # 0 => WorkQueue = "asio" /\ mtFlag
    BY DEF ServedInv, WorkQueue
  <2>5. QED
    BY <1>1, <2>1, <2>3, <2>4 DEF ServedInv, Alive
<1>4. QED
  BY <1>2, <1>3

(* stop(), shutdown() and wait() leave a pool without the guard.           *)
LEMMA ServedStop ==
  ASSUME BqTypeOK, ServedInv, Stop \/ StopPool \/ Reset \/ Shutdown \/ Wait \/ Joined
  PROVE  ServedInv'
<1> USE DEF CallsKeep, taskVars, poolVars
<1>1. UNCHANGED <<use, broken, mtFlag, size, at, Active>>
  BY DEF Stop, StopPool, Reset, Shutdown, Wait, Joined, Active, ActiveIf
<1>2. CASE Stop
  <2>1. UNCHANGED <<poolVars, deadStart>> /\ call = "idle" /\ call' = "stop" /\ ~Pending /\ ~Pending'
    BY <1>2 DEF Stop, Pending
  <2>2. UNCHANGED <<Range(threads), Range(flags)>>
    BY <2>1
  <2>3. QED
    BY <1>1, <2>1, <2>2 DEF ServedInv
<1>3. ASSUME guard' = "none", started' = started, call' # "grow", threads' = threads, cut' = cut,
             call' = "stopjoin" \/ (flags' = flags /\ call # "stopjoin")
      PROVE  ServedInv'
  <2>1. ~cut' /\ call' # "stopjoin" => Range(threads') \subseteq Range(flags')
    BY <1>3 DEF ServedInv
  <2>2. QED
    BY <1>1, <1>3, <2>1 DEF ServedInv
<1>4. CASE StopPool \/ Shutdown \/ (Wait /\ guard = "none")
  BY <1>3, <1>4 DEF StopPool, Shutdown, Wait
<1>5. CASE Joined
  <2>1. /\ threads' = <<>> /\ Range(threads') = {} /\ guard' = guard
        /\ guard = "none" /\ call' \in {"idle", "restart"}
    BY <1>5, EmptyList DEF Joined, ServedInv
  <2>2. QED
    BY <1>1, <2>1 DEF ServedInv
<1>6. ASSUME ResetQueues PROVE \A q \in Queues : stopped'[q] => stopped[q]
  BY <1>6 DEF ResetQueues, BqTypeOK
<1>7. CASE Reset \/ (Wait /\ guard # "none")
  <2>1. /\ UNCHANGED <<poolVars, call, deadStart>> /\ ResetQueues
    BY <1>7 DEF Reset, Wait
  <2>2. stopped'[Active] => stopped[Active]
    BY <1>6, <2>1, QueueFacts
  <2>3. QED
    BY <1>1, <2>1, <2>2, ServedKept DEF Alive
<1>8. QED
  BY <1>2, <1>4, <1>5, <1>7

(* A pool that is to go to no threads has some to give up.                 *)
LEMMA ServedReconfigure ==
  ASSUME BqTypeOK, ServedInv, NEW n \in Nat, Reconfigure(n)
  PROVE  ServedInv'
<1>1. /\ call = "idle" /\ ~broken /\ mtFlag' = (n # 0) /\ size' = n
      /\ UNCHANGED <<use, broken, at, guard, started, threads, flags, cut, stopped, deadStart>>
      /\ call' = IF ~started \/ n = Len(threads) THEN "idle"
                 ELSE IF n > Len(threads) THEN "grow" ELSE "shrink"
  BY DEF Reconfigure, CallsKeep, taskVars, poolVars
<1>2. UNCHANGED <<Range(threads), Range(flags)>>
  BY <1>1
<1>3. CASE guard = "none"
  BY <1>1, <1>2, <1>3 DEF ServedInv
<1>4. CASE guard # "none" /\ n # 0
  <2>1. mtFlag /\ mtFlag' /\ ~Pending /\ ~Pending' /\ Active' = Active
    BY <1>1, <1>4 DEF ServedInv, Pending, Active, ActiveIf
  <2>2. QED
    BY <1>1, <1>2, <1>4, <2>1 DEF ServedInv, Alive
<1>5. CASE guard # "none" /\ n = 0
  <2>1. started /\ threads # <<>> /\ threads \in Seq(Threads)
    BY <1>5 DEF ServedInv, BqTypeOK
  <2>2. Len(threads) \in Nat /\ Len(threads) # 0
    BY <2>1, LenProperties, EmptySeq
  <2>3. Pending'
    BY <1>1, <1>5, <2>1, <2>2 DEF Pending
  <2>4. QED
    BY <1>1, <1>2, <1>5, <2>3 DEF ServedInv, Pending
<1>6. QED
  BY <1>3, <1>4, <1>5

LEMMA ServedGrow ==
  ASSUME BqTypeOK, ListsInv, ServedInv, Grow PROVE ServedInv'
<1> DEFINE n == size - Len(threads)
<1>1. /\ call = "grow" /\ call' = "idle" /\ ~Pending /\ ~Pending'
      /\ UNCHANGED <<use, broken, mtFlag, size, started, cut, Active>>
      /\ RunMore(n)
      /\ deadStart' = (deadStart \/ stopped'[Active] \/ \E w \in Range(threads) : at[w] = "ended")
  BY DEF Grow, Pending, Active, ActiveIf
<1>2. n \in Nat /\ n # 0 /\ size # 0
  <2>1. threads \in Seq(Threads) /\ size \in Nat /\ Len(threads) < size
    BY <1>1 DEF BqTypeOK, ListsInv
  <2>2. Len(threads) \in Nat
    BY <2>1, LenProperties
  <2>3. QED
    BY <2>1, <2>2
<1> HIDE DEF n
<1>3. /\ threads' # <<>> /\ guard' = IF guard = "none" THEN WorkQueue ELSE guard
      /\ Range(threads) \subseteq Range(flags) => Range(threads') \subseteq Range(flags')
      /\ \A w \in Range(threads') : w \in Range(threads) \/ at'[w] = "out"
      /\ \A w \in Threads : at[w] # "none" => at'[w] = at[w]
  BY <1>1, <1>2, MoreThreads
<1>4. mtFlag /\ started
  BY <1>1, <1>2 DEF ServedInv
<1>5. \A w \in Range(threads) : w \in Threads /\ at[w] # "none" /\ at'[w] = at[w]
  BY <1>3, Members DEF ServedInv
<1>6. \A w \in Range(threads') : at'[w] # "none"
  BY <1>3, <1>5
<1>7. guard' = "asio"
  BY <1>1, <1>3, <1>4 DEF ServedInv, WorkQueue
<1>8. ~deadStart' => ~stopped'[Active] /\ \A w \in Range(threads') : at'[w] # "ended"
  BY <1>1, <1>3, <1>5
<1>9. ~cut' => Range(threads') \subseteq Range(flags')
  BY <1>1, <1>3 DEF ServedInv
<1>10. QED
  BY <1>1, <1>3, <1>4, <1>6, <1>7, <1>8, <1>9 DEF ServedInv, Alive

LEMMA ServedShrink ==
  ASSUME BqTypeOK, ListsInv, ServedInv, Shrink PROVE ServedInv'
<1>1. /\ call' = "idle" /\ ~Pending' /\ call = "shrink" /\ CutLists
      /\ UNCHANGED <<use, mtFlag, size, started, Active, at, stopped, deadStart>>
      /\ guard' = IF size = 0 THEN "none" ELSE guard
      /\ broken' = (broken \/ ~Exists(Active))
  BY DEF Shrink, Pending, Active, ActiveIf, taskVars
<1>2. /\ Len(threads') = size
      /\ Range(threads') \subseteq Range(threads) /\ Range(flags') \subseteq Range(flags)
      /\ ~cut' => Range(threads') \subseteq Range(flags')
  BY <1>1, FewerThreads
<1>3. size # 0 => threads' # <<>>
  BY <1>2, EmptyList
<1>4. ~started => threads' = <<>>
  <2>1. ~started => threads = <<>> /\ threads' = SubSeq(threads, 1, size)
    BY <1>1 DEF ServedInv, CutLists
  <2>2. threads = <<>> => Len(threads) = 0
    BY EmptyList
  <2>3. size \in Nat /\ size < Len(threads)
    BY <1>1 DEF BqTypeOK, ListsInv
  <2>4. QED
    BY <2>1, <2>2, <2>3
<1>5. broken' => size = 0 /\ ~use.io
  BY <1>1, NotThere DEF ServedInv
<1>6. size # 0 => ~Pending
  BY DEF Pending
<1>7. QED
  BY <1>1, <1>2, <1>3, <1>4, <1>5, <1>6 DEF ServedInv, Alive

LEMMA ServedStep == BqTypeOK /\ ListsInv /\ ServedInv /\ [BqNext]_bqVars => ServedInv'
<1> SUFFICES ASSUME BqTypeOK, ListsInv, ServedInv, [BqNext]_bqVars PROVE ServedInv'
  OBVIOUS
<1>1. CASE \E t \in Tasks : Post(t) \/ SafePost(t) \/ Expire(t) \/ CallerServes(t)
  BY <1>1, ServedPost
<1>2. CASE \E w \in Threads : Worker(w)
  BY <1>2, ServedWorker
<1>3. CASE \E n \in use.sizes : Reconfigure(n)
  <2>1. use.sizes \subseteq Nat
    BY UseFacts DEF BqTypeOK
  <2>2. QED
    BY <1>3, <2>1, ServedReconfigure
<1>4. CASE UNCHANGED bqVars
  BY <1>4, ServedKept DEF bqVars, poolVars, Alive
<1>5. QED
  BY <1>1, <1>2, <1>3, <1>4, ServedStart, ServedStop, ServedGrow, ServedShrink
     DEF BqNext, CallGoesOn, Owner

LEMMA ServedSuffices == BqTypeOK /\ ServedInv => QueueIsServed
<1> SUFFICES ASSUME BqTypeOK, ServedInv PROVE QueueIsServed
  OBVIOUS
<1>1. ASSUME Serving, call = "idle"
      PROVE  /\ \A w \in Range(threads) \cap Range(flags) : Alive(w)
             /\ ~cut => Range(threads) \cap Range(flags) # {}
  <2>1. guard # "none" /\ ~Pending /\ ~deadStart /\ threads # <<>>
    BY <1>1 DEF Serving, Pending, ServedInv
  <2>2. Range(threads) # {}
    BY <2>1, Members
  <2>3. ~cut => Range(threads) \subseteq Range(flags)
    BY <1>1 DEF ServedInv
  <2>4. \A w \in Range(threads) \cap Range(flags) : Alive(w)
    BY <1>1, <2>1 DEF ServedInv
  <2>5. QED
    BY <2>2, <2>3, <2>4
<1>2. QED
  BY <1>1 DEF QueueIsServed, ServedInv

(* A call reaches a queue that does not exist only if reconfigure() asked  *)
(* for no threads where the manager has no io_context of a caller.  And of *)
(* a pool that holds its guard, however often it went to no threads and    *)
(* back, every thread with a flag serves, and there is one unless          *)
(* reconfigure() has cut the lists with the flags of an earlier wait() in  *)
(* front; excepted are a queue that is stopped and a start() or            *)
(* reconfigure() that found it so                                          *)
(* (bique.cpp:46-56, 150-174, thread_pool_base.cpp:85-156).                *)
THEOREM SwitchServes == BqSpec => []QueueIsServed
<1>1. BqSpec => []ServedInv
  BY InitServed, ServedStep, TypesHold, PTL DEF BqSpec
<1>2. QED
  BY <1>1, ServedSuffices, TypesHold, PTL

-----------------------------------------------------------------------------
(* What shutdown() and wait() promise.                                     *)

LEMMA InitDone == BqInit => DoneInv
BY DEF BqInit, DoneInv

(* A task that is done stays so, and one that is in the asio queue stays   *)
(* there or is done, as long as that queue is the one in use.              *)
LEMMA DoneStays ==
  ASSUME BqTypeOK, [BqNext]_bqVars, use.asio, NEW t \in Tasks
  PROVE  /\ state[t] = "done" => state'[t] = "done"
         /\ mtFlag /\ t \in In("asio") => state'[t] = "done" \/ t \in In("asio")'
<1> USE DEF BqTypeOK, In, Queues
<1>1. ASSUME NEW u \in Tasks, Post(u) \/ SafePost(u) \/ Expire(u) \/ CallerServes(u)
      PROVE  /\ state[t] = "done" => state'[t] = "done"
             /\ mtFlag /\ t \in In("asio") => state'[t] = "done" \/ t \in In("asio")'
  <2>1. CASE Post(u) \/ SafePost(u)
    BY <2>1 DEF Post, SafePost, Give, taskVars
  <2>2. CASE Expire(u)
    BY <2>2 DEF Expire, Give, taskVars, Active, ActiveIf
  <2>3. CASE CallerServes(u)
    BY <2>3 DEF CallerServes
  <2>4. QED
    BY <1>1, <2>1, <2>2, <2>3
<1>2. ASSUME NEW w \in Threads, Worker(w)
      PROVE  where' = where /\ (state'[t] = state[t] \/ state'[t] = "done"
                                \/ (state[t] = "waiting" /\ state'[t] = "running"))
  <2>1. CASE Enter(w) \/ OutOfWork(w) \/ LeaveRun(w) \/ Return(w)
    BY <2>1 DEF Enter, OutOfWork, LeaveRun, Return, WorkersKeep
  <2>2. CASE Take(w)
    BY <2>2 DEF Take, WorkersKeep
  <2>3. CASE Finish(w)
    BY <2>3 DEF Finish, WorkersKeep
  <2>4. QED
    BY <1>2, <2>1, <2>2, <2>3 DEF Worker
<1>3. ASSUME where' = where, state' = state \/ ResetQueues
      PROVE  /\ state[t] = "done" => state'[t] = "done"
             /\ mtFlag /\ t \in In("asio") => state'[t] = "done" \/ t \in In("asio")'
  BY <1>3 DEF ResetQueues
<1>4. CASE CallGoesOn \/ Owner
  <2>1. where' = where
    BY <1>4 DEF CallGoesOn, Owner, Start, Stop, StopPool, Reset, Shutdown, Wait, Joined,
                Reconfigure, Grow, Shrink, taskVars
  <2>2. state' = state \/ ResetQueues
    BY <1>4 DEF CallGoesOn, Owner, Start, Stop, StopPool, Reset, Shutdown, Wait, Joined,
                Reconfigure, Grow, Shrink, taskVars
  <2>3. QED
    BY <1>3, <2>1, <2>2
<1>5. CASE UNCHANGED bqVars
  BY <1>3, <1>5 DEF bqVars
<1>6. QED
  BY <1>1, <1>2, <1>3, <1>4, <1>5 DEF BqNext

(* A step under which the asio queue goes on with all its threads.         *)
LEMMA DoneKept ==
  ASSUME BqTypeOK, DoneInv, [BqNext]_bqVars, UNCHANGED <<use, mtFlag, cut>>,
         before' = before \/ before' = {},
         call' \in {"stop", "stopjoin", "grow", "shrink"} => before' = {},
         (use.asio /\ StillServed)
           => \/ \A t \in before : state'[t] = "done"
              \/ /\ ~stopped'["asio"] /\ UNCHANGED <<threads, flags>>
                 /\ \A w \in Range(threads) : Alive(w)'
  PROVE  DoneInv'
<1> SUFFICES ASSUME use.asio, ~cut, before # {}, before' = before
             PROVE  (\A t \in before : state'[t] = "done") \/ StillServed'
  BY DEF DoneInv
<1>1. CASE \A t \in before : state[t] = "done"
  BY <1>1, DoneStays DEF BqTypeOK
<1>2. CASE StillServed
  <2>1. \A t \in before : state'[t] = "done" \/ t \in In("asio")'
    BY <1>2, DoneStays DEF StillServed, BqTypeOK
  <2>2. ASSUME UNCHANGED <<threads, flags>>
        PROVE  UNCHANGED <<Range(threads), Range(flags)>>
    BY <2>2
  <2>3. QED
    BY <1>2, <2>1, <2>2 DEF StillServed
<1>3. QED
  BY <1>1, <1>2 DEF DoneInv

LEMMA DonePost ==
  ASSUME BqTypeOK, DoneInv, NEW t \in Tasks,
         Post(t) \/ SafePost(t) \/ Expire(t) \/ CallerServes(t)
  PROVE  DoneInv'
<1>1. UNCHANGED <<use, mtFlag, before, call, stopped, threads, flags, cut, at>>
  BY DEF Post, SafePost, Expire, CallerServes, OthersKeep, poolVars, workVars
<1>2. BqNext
  BY DEF BqNext
<1>3. StillServed => ~stopped'["asio"] /\ \A w \in Range(threads) : Alive(w)'
  BY <1>1 DEF StillServed, Alive
<1>4. call' \in {"stop", "stopjoin", "grow", "shrink"} /\ use.asio => before' = {}
  BY <1>1 DEF DoneInv
<1>5. CASE use.asio
  BY <1>1, <1>2, <1>3, <1>4, <1>5, DoneKept
<1>6. CASE ~use.asio
  BY <1>1, <1>6 DEF DoneInv
<1>7. QED
  BY <1>5, <1>6

LEMMA DoneWorker ==
  ASSUME BqTypeOK, DoneInv, NEW w \in Threads, Worker(w)
  PROVE  DoneInv'
<1>1. UNCHANGED <<use, mtFlag, before, call, threads, flags, cut>>
  BY DEF Worker, Enter, Take, Finish, OutOfWork, LeaveRun, Return, WorkersKeep, poolVars
<1>2. BqNext
  BY DEF BqNext
<1> SUFFICES ASSUME use.asio PROVE DoneInv'
  BY <1>1 DEF DoneInv
<1>3. ASSUME StillServed
      PROVE  \/ \A t \in before : state'[t] = "done"
             \/ ~stopped'["asio"] /\ \A v \in Range(threads) : Alive(v)'
  <2> USE DEF BqTypeOK, Alive
  <2>1. /\ mtFlag /\ ~stopped["asio"] /\ Active = "asio" /\ Exists(Active)
        /\ \A v \in Range(threads) : at[v] \notin {"none", "ended"}
        /\ Range(threads) \subseteq Range(flags) /\ Range(threads) \subseteq Threads
    BY <1>3, Members DEF StillServed, Active, ActiveIf, Exists
  <2>2. CASE Enter(w) \/ LeaveRun(w)
    BY <2>1, <2>2 DEF Enter, LeaveRun
  <2>3. CASE Take(w) \/ Finish(w)
    BY <2>1, <2>3 DEF Take, Finish
  <2>4. CASE OutOfWork(w)
    <3>1. at' = at /\ state' = state /\ stopped' = [stopped EXCEPT ![at[w]] = TRUE]
      BY <2>4 DEF OutOfWork
    <3>2. CASE at[w] = "asio"
      BY <1>3, <2>4, <3>1, <3>2 DEF OutOfWork, StillServed
    <3>3. CASE at[w] # "asio"
      BY <2>1, <3>1, <3>3
    <3>4. QED
      BY <3>2, <3>3
  <2>5. CASE Return(w)
    BY <2>1, <2>5 DEF Return
  <2>6. QED
    BY <2>2, <2>3, <2>4, <2>5 DEF Worker
<1>4. QED
  BY <1>1, <1>2, <1>3, DoneKept DEF DoneInv

LEMMA DoneOwner ==
  ASSUME BqTypeOK, ServedInv, DoneInv, CallGoesOn \/ Owner
  PROVE  DoneInv'
<1>1. use' = use /\ BqNext
  BY DEF BqNext, CallGoesOn, Owner, Start, Stop, StopPool, Reset, Shutdown, Wait, Joined,
         Reconfigure, Grow, Shrink, CallsKeep
<1> SUFFICES ASSUME use.asio PROVE DoneInv'
  BY <1>1 DEF DoneInv
<1> USE DEF CallsKeep, taskVars, poolVars
<1>2. ASSUME before' = {} PROVE DoneInv'
  BY <1>2 DEF DoneInv
<1>3. ASSUME ResetQueues, ~stopped["asio"] PROVE ~stopped'["asio"]
  BY <1>3 DEF ResetQueues, BqTypeOK, Queues
<1>4. CASE Start
  <2>1. UNCHANGED <<mtFlag, before, stopped, cut>> /\ call' = "idle"
    BY <1>4 DEF Start
  <2>2. threads # <<>> => UNCHANGED <<threads, flags, at>>
    BY <1>4 DEF Start
  <2>3. QED
    BY <1>1, <2>1, <2>2, DoneKept DEF StillServed, Alive
<1>5. CASE Stop \/ Joined \/ \E n \in use.sizes : Reconfigure(n)
  BY <1>2, <1>5 DEF Stop, Joined, Reconfigure
<1>6. CASE StopPool \/ Grow \/ Shrink
  <2>1. before = {} /\ before' = before
    BY <1>6 DEF StopPool, Grow, Shrink, DoneInv
  <2>2. QED
    BY <1>2, <2>1
<1>7. CASE Reset \/ Wait
  <2>1. /\ UNCHANGED <<mtFlag, before, threads, flags, cut, at>> /\ call' \in {"idle", "wait"}
        /\ ResetQueues \/ stopped' = stopped
    BY <1>7 DEF Reset, Wait
  <2>2. QED
    BY <1>1, <1>3, <2>1, DoneKept DEF StillServed, Alive
<1>8. CASE Shutdown
  <2>1. /\ UNCHANGED <<mtFlag, threads, flags, cut, at, stopped, state, where, call>>
        /\ call = "idle" /\ before' = IF Serving THEN In(Active) ELSE {}
    BY <1>8 DEF Shutdown
  <2>2. CASE ~Serving
    BY <1>2, <2>1, <2>2
  <2>3. ASSUME Serving, ~cut PROVE StillServed'
    <3>1. guard # "none" /\ ~Pending /\ ~deadStart /\ ~stopped[Active]
      BY <2>1, <2>3 DEF Serving, Pending
    <3>2. /\ mtFlag /\ threads # <<>> /\ Range(threads) \subseteq Range(flags)
          /\ \A w \in Range(threads) : Alive(w)
      BY <2>1, <2>3, <3>1 DEF ServedInv
    <3>3. Active = "asio"
      BY <3>2 DEF Active, ActiveIf
    <3>4. UNCHANGED <<In("asio"), Range(threads), Range(flags)>>
      BY <2>1 DEF In
    <3>5. QED
      BY <2>1, <2>3, <3>1, <3>2, <3>3, <3>4 DEF StillServed, Alive
  <2>4. QED
    BY <2>1, <2>2, <2>3 DEF DoneInv
<1>9. QED
  BY <1>4, <1>5, <1>6, <1>7, <1>8 DEF CallGoesOn, Owner

LEMMA DoneStep == BqTypeOK /\ ServedInv /\ DoneInv /\ [BqNext]_bqVars => DoneInv'
<1>1. ASSUME DoneInv, UNCHANGED bqVars PROVE DoneInv'
  <2>1. UNCHANGED <<Range(threads), Range(flags), In("asio")>>
    BY <1>1 DEF bqVars, In
  <2>2. QED
    BY <1>1, <2>1 DEF DoneInv, StillServed, Alive, bqVars
<1>2. QED
  BY <1>1, DonePost, DoneWorker, DoneOwner DEF BqNext

(* wait() goes on only when the threads have ended.                        *)
LEMMA WaitEnds ==
  ASSUME BqTypeOK, DoneInv, [BqNext]_bqVars, ~cut
  PROVE  DoneWhenJoined
<1> SUFFICES ASSUME use.asio, call = "wait", call' # "wait"
             PROVE  \A t \in before : state[t] = "done"
  BY DEF DoneWhenJoined
<1>1. ASSUME NEW t \in Tasks, Post(t) \/ SafePost(t) \/ Expire(t) \/ CallerServes(t)
      PROVE  call' = call
  BY <1>1 DEF Post, SafePost, Expire, CallerServes, OthersKeep
<1>2. ASSUME NEW w \in Threads, Worker(w) PROVE call' = call
  BY <1>2 DEF Worker, Enter, Take, Finish, OutOfWork, LeaveRun, Return, WorkersKeep
<1>3. UNCHANGED bqVars => call' = call
  BY DEF bqVars
<1>4. Joined
  BY <1>1, <1>2, <1>3 DEF BqNext, CallGoesOn, Owner, Start, Stop, StopPool, Reset, Shutdown,
                         Wait, Reconfigure, Grow, Shrink
<1>5. ~StillServed
  <2>1. \A w \in Range(threads) : ~Alive(w)
    BY <1>4 DEF Joined, Alive
  <2>2. QED
    BY <2>1, Members DEF StillServed
<1>6. QED
  BY <1>5 DEF DoneInv

(* When wait() after shutdown() returns, everything that was in the queue  *)
(* at the shutdown has run: if the queue was in use and not stopped, no    *)
(* stop() or reconfigure() came in between, and no earlier reconfigure()   *)
(* has cut the lists with the flags of an earlier wait() in front          *)
(* (workflow.hpp:213-234, task_manager.cpp:143-155).                       *)
THEOREM SwitchWaits == BqSpec => WaitMeansDone
<1>1. BqTypeOK /\ DoneInv /\ [BqNext]_bqVars => [~cut => DoneWhenJoined]_bqVars
  BY WaitEnds
<1>2. QED
  BY <1>1, InitServed, InitDone, ServedStep, DoneStep, TypesHold, PTL
     DEF BqSpec, WaitMeansDone

-----------------------------------------------------------------------------
(* The facade makes no step of the task manager but those of Bique.        *)

LEMMA CallsOfBique ==
  ASSUME TypeOK, [Next]_allVars
  PROVE  [BqNext]_bqVars
<1>1. CASE CreateWarning \/ ReleaseOld \/ (\E m \in Controls : CreateTimer(m))
           \/ \E x \in timers : WarningEnds(x)
  BY <1>1 DEF CreateWarning, ReleaseOld, CreateTimer, WarningEnds
<1>2. CASE WfStop \/ WfReset \/ WfShutdown
  BY <1>2 DEF WfStop, WfReset, WfShutdown, BqNext, Owner
<1>3. CASE \E n \in use.sizes, c \in Controls, on \in BOOLEAN : WfReconfigure(n, c, on)
  BY <1>3 DEF WfReconfigure, BqNext, Owner
<1>4. CASE PlainCalls
  BY <1>4 DEF PlainCalls, BqNext, Owner
<1>5. CASE UNCHANGED allVars
  BY <1>5 DEF allVars
<1>6. QED
  BY <1>1, <1>2, <1>3, <1>4, <1>5 DEF Next, WfCalls

LEMMA InitTypes == Init => TypeOK /\ ListsInv
<1> SUFFICES ASSUME Init PROVE TypeOK /\ ListsInv
  OBVIOUS
<1>1. BqTypeOK /\ ListsInv
  BY BqInitTypes DEF Init
<1>2. control \in Managers /\ watched \in BOOLEAN
  BY ControlsAssumption DEF Init
<1>3. QED
  BY <1>1, <1>2 DEF Init, TypeOK

LEMMA CreateTypes ==
  ASSUME TypeOK, NEW m \in Managers, NEW k \in Kinds, Create(m, k)
  PROVE  /\ idCounter' \in [Managers -> Nat] /\ idCounter'[m] = idCounter[m] + 1
         /\ idCounter'[m] \in Nat
         /\ timers' \subseteq [mgr : Managers, id : Nat, kind : Kinds]
BY DEF TypeOK, Create

LEMMA TypeStep ==
  ASSUME TypeOK, ListsInv, [Next]_allVars
  PROVE  TypeOK' /\ ListsInv'
<1>b. BqTypeOK' /\ ListsInv'
  BY CallsOfBique, BqTypeStep DEF TypeOK
<1> USE DEF wfVars
<1>1. CASE CreateWarning
  <2>1. CASE watched
    <3>1. Create(control, "warning") /\ wrnTimer' = idCounter'[control]
      BY <1>1, <2>1 DEF CreateWarning
    <3>2. control \in Managers /\ "warning" \in Kinds
      BY DEF TypeOK, Kinds
    <3>3. QED
      BY <1>b, <1>1, <3>1, <3>2, CreateTypes DEF CreateWarning, TypeOK
  <2>2. CASE ~watched
    BY <1>b, <1>1, <2>2 DEF CreateWarning, TypeOK
  <2>3. QED
    BY <2>1, <2>2
<1>2. CASE ReleaseOld
  BY <1>b, <1>2 DEF ReleaseOld, Without, TypeOK
<1>3. CASE \E n \in use.sizes, c \in Controls, on \in BOOLEAN : WfReconfigure(n, c, on)
  BY <1>b, <1>3, ControlsAssumption DEF WfReconfigure, TypeOK
<1>4. CASE WfStop
  <2>1. \A x \in timers : [x EXCEPT !.kind = "stale"] \in [mgr : Managers, id : Nat, kind : Kinds]
    BY DEF TypeOK, Kinds
  <2>2. timers' \subseteq [mgr : Managers, id : Nat, kind : Kinds]
    BY <1>4, <2>1 DEF WfStop, TypeOK
  <2>3. QED
    BY <1>b, <1>4, <2>2 DEF WfStop, TypeOK
<1>5. CASE WfReset \/ WfShutdown
  BY <1>b, <1>5 DEF WfReset, WfShutdown, ClearTimers, TypeOK
<1>6. CASE \E m \in Controls : CreateTimer(m)
  <2>1. PICK m \in Controls : CreateTimer(m)
    BY <1>6
  <2>2. m \in Managers /\ "client" \in Kinds
    BY ControlsAssumption DEF Kinds
  <2>3. QED
    BY <1>b, <2>1, <2>2, CreateTypes DEF CreateTimer, TypeOK
<1>7. CASE \E x \in timers : WarningEnds(x)
  <2>1. PICK x \in timers : WarningEnds(x)
    BY <1>7
  <2>2. [x EXCEPT !.kind = "ended"] \in [mgr : Managers, id : Nat, kind : Kinds]
    BY DEF TypeOK, Kinds
  <2>3. QED
    BY <1>b, <2>1, <2>2 DEF WarningEnds, TypeOK
<1>8. CASE PlainCalls \/ UNCHANGED allVars
  BY <1>b, <1>8 DEF PlainCalls, allVars, TypeOK
<1>9. QED
  BY <1>1, <1>2, <1>3, <1>4, <1>5, <1>6, <1>7, <1>8 DEF Next, WfCalls

LEMMA WfTypesHold == Spec => [](TypeOK /\ ListsInv)
<1>1. TypeOK /\ ListsInv /\ [Next]_allVars => (TypeOK /\ ListsInv)'
  BY TypeStep
<1>2. QED
  BY <1>1, InitTypes, PTL DEF Spec

(* Every variable of the workflow keeps its type (workflow.cpp:24-332).    *)
THEOREM TypeCorrect == Spec => []TypeOK
BY WfTypesHold, PTL

(* A workflow is a task manager whose calls are made in a certain order:   *)
(* whatever holds of every use of the switch holds of a workflow           *)
(* (workflow.cpp:24-120).                                                  *)
THEOREM IsABique == Spec => BqSpec
BY CallsOfBique, TypeCorrect, PTL DEF Spec, Init, BqSpec

(* Whatever is called on a workflow, a queue that is not there is reached  *)
(* only after a reconfigure() to no threads, and every thread with a flag  *)
(* of a pool that holds its guard serves                                   *)
(* (workflow.cpp:24-120, bique.cpp:46-174).                                *)
THEOREM QueueIsServedHolds == Spec => []QueueIsServed
BY IsABique, SwitchServes, PTL

(* wait() of a workflow returns after a shutdown() when all that was in    *)
(* the queue has run, whatever is posted and whichever timers there are,   *)
(* unless reconfigure() has cut the lists with old flags in front          *)
(* (workflow.cpp:24-120, task_manager.cpp:143-155).                        *)
THEOREM WaitMeansDoneHolds == Spec => WaitMeansDone
BY IsABique, SwitchWaits, PTL

-----------------------------------------------------------------------------
(* The warning timer.                                                      *)

LEMMA InitWarn == Init => WarnInv
<1> SUFFICES ASSUME Init PROVE WarnInv
  OBVIOUS
<1>1. wrnTimer = 0 /\ idCounter[control] = 0 /\ timers = {} /\ init = "create"
  BY ControlsAssumption DEF Init
<1>2. QED
  BY <1>1 DEF WarnInv, Warnings, Ready

LEMMA WarnCreate ==
  ASSUME TypeOK, WarnInv, CreateWarning PROVE WarnInv'
<1>1. /\ init = "create" /\ init' = "release" /\ oldTimer' = wrnTimer
      /\ UNCHANGED <<control, watched, moved>>
  BY DEF CreateWarning
<1> SUFFICES ASSUME ~moved PROVE WarnInv'
  BY <1>1 DEF WarnInv
<1>2. wrnTimer <= idCounter[control] /\ \A x \in Warnings : x.mgr = control /\ x.id = wrnTimer
  BY <1>1 DEF WarnInv
<1>3. CASE watched
  <2> DEFINE new == [mgr |-> control, id |-> idCounter'[control], kind |-> "warning"]
  <2>1. /\ wrnTimer' = idCounter'[control] /\ timers' = timers \cup {new}
        /\ Create(control, "warning")
    BY <1>3 DEF CreateWarning, Create
  <2>2. idCounter'[control] = idCounter[control] + 1 /\ idCounter[control] \in Nat /\ wrnTimer \in Nat
    BY <2>1, CreateTypes DEF TypeOK, Kinds
  <2>3. wrnTimer' # oldTimer' /\ wrnTimer' <= idCounter'[control]
    BY <1>1, <1>2, <2>1, <2>2
  <2>4. Warnings' = Warnings \cup {new}
    BY <2>1 DEF Warnings
  <2>5. \A x \in Warnings' : x.mgr = control /\ x.id \in {wrnTimer, wrnTimer'}
    BY <1>2, <2>1, <2>4
  <2>6. new \in timers' /\ new.kind = "warning" /\ new.id = wrnTimer'
    BY <2>1
  <2>7. QED
    BY <1>1, <1>3, <2>3, <2>5, <2>6 DEF WarnInv, Ready
<1>4. CASE ~watched
  <2>1. UNCHANGED <<idCounter, timers, wrnTimer>>
    BY <1>4 DEF CreateWarning
  <2>2. QED
    BY <1>1, <1>2, <1>4, <2>1 DEF WarnInv, Warnings, Ready
<1>5. QED
  BY <1>3, <1>4

LEMMA WarnRelease ==
  ASSUME TypeOK, WarnInv, ReleaseOld PROVE WarnInv'
<1>1. /\ init = "release" /\ init' = "done" /\ timers' = Without(control, oldTimer)
      /\ UNCHANGED <<idCounter, control, watched, wrnTimer, oldTimer, moved, lost>>
  BY DEF ReleaseOld
<1> SUFFICES ASSUME ~moved PROVE WarnInv'
  BY <1>1 DEF WarnInv
<1>2. /\ wrnTimer <= idCounter[control]
      /\ \A x \in Warnings : x.mgr = control /\ x.id \in {oldTimer, wrnTimer}
      /\ ~watched => wrnTimer = oldTimer
      /\ watched => /\ wrnTimer # oldTimer
                    /\ \E x \in timers : x.kind = "warning" /\ x.id = wrnTimer
  BY <1>1 DEF WarnInv
<1>3. Warnings' = {x \in Warnings : ~(x.mgr = control /\ x.id = oldTimer)}
  BY <1>1 DEF Warnings, Without
<1>4. \A x \in Warnings' : x.mgr = control /\ x.id = wrnTimer /\ watched
  BY <1>2, <1>3
<1>5. watched => \E x \in Warnings' : x.kind = "warning"
  BY <1>2, <1>3 DEF Warnings
<1>6. QED
  BY <1>1, <1>2, <1>4, <1>5 DEF WarnInv, OneWarning, Ready

(* A call of a workflow that is initialised, and what may become of its    *)
(* warning timers.                                                         *)
LEMMA WarnCalls ==
  ASSUME TypeOK, WarnInv, WfStop \/ WfReset \/ WfShutdown PROVE WarnInv'
<1>1. /\ Ready /\ UNCHANGED <<idCounter, control, watched, wrnTimer, oldTimer, init, moved>>
  BY DEF WfStop, WfReset, WfShutdown, ClearTimers
<1> SUFFICES ASSUME ~moved PROVE WarnInv'
  BY <1>1 DEF WarnInv
<1>2. /\ wrnTimer <= idCounter[control]
      /\ \A x \in Warnings : x.mgr = control /\ x.id = wrnTimer /\ watched
      /\ (watched /\ ~lost) => \E x \in Warnings : x.kind = "warning"
  BY <1>1 DEF WarnInv, OneWarning
<1>3. ASSUME \A x \in Warnings' : x.mgr = control /\ x.id = wrnTimer /\ watched,
             lost' \/ (watched => \E x \in Warnings' : x.kind = "warning")
      PROVE  WarnInv'
  BY <1>1, <1>2, <1>3 DEF WarnInv, OneWarning, Ready
<1>4. CASE WfStop
  <2>1. /\ lost' = TRUE
        /\ timers' = {IF x.kind = "warning" THEN [x EXCEPT !.kind = "stale"] ELSE x : x \in timers}
    BY <1>4 DEF WfStop
  <2>2. ASSUME NEW y \in Warnings' PROVE y.mgr = control /\ y.id = wrnTimer /\ watched
    <3>1. PICK x \in timers : y = IF x.kind = "warning" THEN [x EXCEPT !.kind = "stale"] ELSE x
      BY <2>1, <2>2 DEF Warnings
    <3>2. x \in [mgr : Managers, id : Nat, kind : Kinds] /\ y \in timers' /\ y.kind # "client"
      BY <2>2, <3>1 DEF TypeOK, Warnings
    <3>3. x \in Warnings /\ y.mgr = x.mgr /\ y.id = x.id
      BY <3>1, <3>2 DEF Warnings
    <3>4. QED
      BY <1>2, <3>3
  <2>3. QED
    BY <1>3, <2>1, <2>2
<1>5. CASE WfReset \/ WfShutdown
  <2>1. timers' = {x \in timers : x.mgr # "self"} /\ lost' = (lost \/ control = "self")
    BY <1>5 DEF WfReset, WfShutdown, ClearTimers
  <2>2. Warnings' = {x \in Warnings : x.mgr # "self"}
    BY <2>1 DEF Warnings
  <2>3. QED
    BY <1>2, <1>3, <2>1, <2>2
<1>6. QED
  BY <1>4, <1>5

LEMMA WarnReconfigure ==
  ASSUME TypeOK, WarnInv, NEW n, NEW c, NEW on, WfReconfigure(n, c, on) PROVE WarnInv'
<1>1. /\ Ready /\ init' = "create" /\ control' = c /\ moved' = (moved \/ c # control)
      /\ UNCHANGED <<idCounter, timers, wrnTimer>>
  BY DEF WfReconfigure
<1>2. QED
  BY <1>1 DEF WarnInv, OneWarning, Ready, Warnings

(* A step that keeps the warnings, but for one that is stale and ends.     *)
LEMMA WarnKept ==
  ASSUME TypeOK, WarnInv, TypeOK',
         UNCHANGED <<control, watched, wrnTimer, oldTimer, init, moved, lost>>,
         idCounter'[control] >= idCounter[control],
         \A y \in Warnings' : \E x \in Warnings : y.mgr = x.mgr /\ y.id = x.id,
         \A x \in timers : x.kind = "warning" => x \in timers'
  PROVE  WarnInv'
<1>1. (\E x \in timers : x.kind = "warning" /\ x.id = wrnTimer)
        => \E x \in timers' : x.kind = "warning" /\ x.id = wrnTimer
  OBVIOUS
<1>2. (\E x \in Warnings : x.kind = "warning") => \E x \in Warnings' : x.kind = "warning"
  BY DEF Warnings
<1>3. OneWarning => OneWarning'
  BY <1>2 DEF OneWarning, Ready
<1>4. wrnTimer <= idCounter[control] => wrnTimer' <= (idCounter[control])'
  <2>1. /\ control' = control /\ wrnTimer' = wrnTimer /\ wrnTimer \in Nat
        /\ idCounter[control] \in Nat /\ idCounter'[control] \in Nat
    BY DEF TypeOK
  <2>2. QED
    BY <2>1
<1>5. QED
  BY <1>1, <1>3, <1>4 DEF WarnInv, Ready

LEMMA WarnOther ==
  ASSUME TypeOK, TypeOK', WarnInv,
         \/ \E m \in Controls : CreateTimer(m)
         \/ \E x \in timers : WarningEnds(x)
         \/ PlainCalls \/ UNCHANGED allVars
  PROVE  WarnInv'
<1>c. control \in Managers /\ idCounter[control] \in Nat
  BY DEF TypeOK
<1>1. ASSUME NEW m \in Controls, CreateTimer(m) PROVE WarnInv'
  <2>1. /\ Create(m, "client")
        /\ UNCHANGED <<control, watched, wrnTimer, oldTimer, init, moved, lost>>
    BY <1>1 DEF CreateTimer
  <2>2. idCounter'[control] \in {idCounter[control], idCounter[control] + 1}
    BY <1>c, <2>1 DEF Create, TypeOK
  <2>3. timers' = timers \cup {[mgr |-> m, id |-> idCounter'[m], kind |-> "client"]}
    BY <2>1 DEF Create
  <2>4. Warnings' \subseteq Warnings
    BY <2>3 DEF Warnings
  <2>5. idCounter'[control] >= idCounter[control]
    BY <1>c, <2>2
  <2>6. QED
    BY <2>1, <2>3, <2>4, <2>5, WarnKept
<1>2. ASSUME NEW x \in timers, WarningEnds(x) PROVE WarnInv'
  <2>1. /\ x.kind = "stale" /\ timers' = (timers \ {x}) \cup {[x EXCEPT !.kind = "ended"]}
        /\ UNCHANGED <<idCounter, control, watched, wrnTimer, oldTimer, init, moved, lost>>
    BY <1>2 DEF WarningEnds
  <2>2. [x EXCEPT !.kind = "ended"].mgr = x.mgr /\ [x EXCEPT !.kind = "ended"].id = x.id
    BY DEF TypeOK
  <2>3. \A y \in Warnings' : \E z \in Warnings : y.mgr = z.mgr /\ y.id = z.id
    BY <2>1, <2>2 DEF Warnings
  <2>4. \A z \in timers : z.kind = "warning" => z \in timers'
    BY <2>1
  <2>5. idCounter'[control] >= idCounter[control]
    BY <1>c, <2>1
  <2>6. QED
    BY <2>1, <2>3, <2>4, <2>5, WarnKept
<1>3. CASE PlainCalls \/ UNCHANGED allVars
  <2>1. UNCHANGED wfVars
    BY <1>3 DEF PlainCalls, allVars
  <2>2. QED
    BY <1>c, <2>1, WarnKept DEF wfVars, Warnings
<1>4. QED
  BY <1>1, <1>2, <1>3

LEMMA WarnStep == TypeOK /\ ListsInv /\ WarnInv /\ [Next]_allVars => WarnInv'
<1> SUFFICES ASSUME TypeOK, ListsInv, WarnInv, [Next]_allVars PROVE WarnInv'
  OBVIOUS
<1>1. TypeOK'
  BY TypeStep
<1>2. CASE \E n \in use.sizes, c \in Controls, on \in BOOLEAN : WfReconfigure(n, c, on)
  BY <1>2, WarnReconfigure
<1>3. QED
  BY <1>1, <1>2, WarnCreate, WarnRelease, WarnCalls, WarnOther DEF Next, WfCalls

(* As long as its control workflow stays the same, a workflow has one      *)
(* warning timer or none, as its options say, between any two calls of     *)
(* reconfigure(), whatever stop(), reset() and shutdown() have done to it  *)
(* before (workflow.cpp:272-332).                                          *)
THEOREM OneWarningHolds == Spec => []OneWarning
<1>1. WarnInv => OneWarning
  BY DEF WarnInv, OneWarning
<1>2. QED
  BY <1>1, InitWarn, WarnStep, WfTypesHold, PTL DEF Spec

=============================================================================
