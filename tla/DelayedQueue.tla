----------------------------- MODULE DelayedQueue -----------------------------
(***************************************************************************)
(* The queue of wflow/queue/delayed_queue.cpp: one mutex and one condition *)
(* variable around a FIFO of ready handlers (_que) and a priority queue of *)
(* delayed ones (_delayed_que), served by the threads that call run(),     *)
(* run_one() or poll_one().                                                *)
(*                                                                         *)
(* The grain of the steps is that of the lock: what runs between lock()    *)
(* and unlock() is one step, what runs outside is split wherever another   *)
(* thread may get in between.  A task stands for a posted handler; who     *)
(* posts it (a client, a running handler, a timer) makes no difference to  *)
(* the queue.  A worker also carries the loop that thread_pool_base puts   *)
(* around run(): call it again unless the queue is stopped.                *)
(***************************************************************************)
EXTENDS Integers, Sequences, FiniteSets, Functions

CONSTANTS Tasks,            (* the handlers that may be posted, each once  *)
          Workers,          (* the threads that serve the queue            *)
          Mode,             (* which function each worker calls            *)
          Maxsizes,         (* the limits set_maxsize() may choose from    *)
          MaxTime,          (* the bound on the clock                      *)
          ConcurrentReset,  (* is reset() called while others use the queue *)
          DropReposts,      (* do drop handlers post to their own queue    *)
          NoTask            (* "no task"                                   *)

Time == 0..MaxTime
Forever == MaxTime + 1      (* the deadline of an untimed wait             *)
Kinds == {"safe", "unsafe"} (* safe tasks are never refused                *)
Modes == {"run", "run_one", "poll_one"}
Fates == {"fresh", "accepted", "refused", "finished", "discarded"}
Places == {"out", "check", "poll", "popped", "running", "wait", "asleep",
           "awake", "ret", "done"}
Alarms == 0..Forever

ASSUME TasksAssumption == IsFiniteSet(Tasks) /\ NoTask \notin Tasks
ASSUME WorkersAssumption == Mode \in [Workers -> Modes]
ASSUME BoundsAssumption == MaxTime \in Nat /\ Maxsizes \subseteq Nat
ASSUME SwitchesAssumption == {ConcurrentReset, DropReposts} \subseteq BOOLEAN

VARIABLES
  que,          (* _que: the ready handlers, first to run first            *)
  dque,         (* the handlers in _delayed_que, ordered only by due       *)
  due,          (* the time point of each task; 0 is "at once"             *)
  kind,         (* how each task was posted                                *)
  fate,         (* what has become of each task                            *)
  cur,          (* the handler each worker has taken                       *)
  pc,           (* where each worker stands                                *)
  deadline,     (* until when a worker sleeps on the condition variable    *)
  now,          (* system_clock, bounded by MaxTime                        *)
  loopExit,     (* _loop_exit                                              *)
  counter,      (* _counter, of unsafe tasks                               *)
  safeCounter,  (* _safe_counter                                           *)
  maxsize,      (* _maxsize; 0 is "no limit"                               *)
  dropCount,    (* _drop_count                                             *)
  lock,         (* the refused task whose drop handler holds _mutex        *)
  ctl           (* where the thread that runs reset() stands               *)

taskVars  == <<due, kind, fate>>
workVars  == <<cur, pc, deadline>>
sizeVars  == <<counter, safeCounter>>
vars == <<que, dque, due, kind, fate, cur, pc, deadline, now, loopExit,
          counter, safeCounter, maxsize, dropCount, lock, ctl>>

TypeOK ==
  /\ que \in Seq(Tasks)
  /\ dque \subseteq Tasks
  /\ due \in [Tasks -> Time]
  /\ kind \in [Tasks -> Kinds \cup {"none"}]
  /\ fate \in [Tasks -> Fates]
  /\ cur \in [Workers -> Tasks \cup {NoTask}]
  /\ pc \in [Workers -> Places]
  /\ deadline \in [Workers -> Alarms]
  /\ now \in Time
  /\ loopExit \in BOOLEAN
  /\ counter \in Int /\ safeCounter \in Int
  /\ maxsize \in Maxsizes
  /\ dropCount \in Nat
  /\ lock \in Tasks \cup {NoTask}
  /\ ctl \in {"idle", "test que", "pop que", "test dque", "pop dque", "corrupt"}

Init ==
  /\ que = <<>> /\ dque = {}
  /\ due = [t \in Tasks |-> 0]
  /\ kind = [t \in Tasks |-> "none"]
  /\ fate = [t \in Tasks |-> "fresh"]
  /\ cur = [w \in Workers |-> NoTask]
  /\ pc = [w \in Workers |-> "out"]
  /\ deadline = [w \in Workers |-> Forever]
  /\ now = 0
  /\ loopExit = FALSE
  /\ counter = 0 /\ safeCounter = 0
  /\ maxsize \in Maxsizes
  /\ dropCount = 0
  /\ lock = NoTask
  /\ ctl = "idle"

-----------------------------------------------------------------------------
(* The mutex and the condition variable.                                   *)

Unlocked == lock = NoTask

Asleep == {w \in Workers : pc[w] = "asleep"}

AllDone == \A w \in Workers : pc[w] = "done"

Wake(S) ==
  /\ pc' = [w \in Workers |-> IF w \in S THEN "awake" ELSE pc[w]]
  /\ deadline' = [w \in Workers |-> IF w \in S THEN Forever ELSE deadline[w]]

NotifyNobody == UNCHANGED <<pc, deadline>>  (* variant: the call forgotten *)

NotifyOne == IF Asleep = {} THEN UNCHANGED <<pc, deadline>>
                            ELSE \E w \in Asleep : Wake({w})

-----------------------------------------------------------------------------
(* Posting.  Callers keep off a reset() unless ConcurrentReset.            *)

Size == Len(que) + Cardinality(dque)

RoomForOneMore == maxsize = 0 \/ Size <= maxsize  (* variant: off by one *)

Room == maxsize = 0 \/ Size < maxsize

MayOffer(t) == /\ Unlocked
               /\ fate[t] = "fresh"
               /\ ConcurrentReset \/ ctl = "idle"

(* What every accepted post does to the task and to the counters.          *)
Admit(t, k, tp) ==
  /\ fate' = [fate EXCEPT ![t] = "accepted"]
  /\ kind' = [kind EXCEPT ![t] = k]
  /\ due' = [due EXCEPT ![t] = tp]
  /\ counter' = IF k = "unsafe" THEN counter + 1 ELSE counter
  /\ safeCounter' = IF k = "safe" THEN safeCounter + 1 ELSE safeCounter
  /\ NotifyOne
  /\ UNCHANGED <<cur, now, loopExit, maxsize, dropCount, lock, ctl>>

PushReady(t, k) ==
  /\ MayOffer(t)
  /\ Admit(t, k, 0)
  /\ que' = Append(que, t)
  /\ UNCHANGED dque

PushDelayed(t, k, tp) ==
  /\ MayOffer(t)
  /\ Admit(t, k, tp)
  /\ dque' = dque \cup {t}
  /\ UNCHANGED que

SafePost(t) == PushReady(t, "safe")

Post(t) == Room /\ PushReady(t, "unsafe")

SafePostAfter(t, tp) == PushDelayed(t, "safe", now + tp)  (* variant: tp a delay *)

SafePostAt(t, tp) == PushDelayed(t, "safe", tp)

PostAt(t, tp) == Room /\ PushDelayed(t, "unsafe", tp)

SafeDelayedPost(t, d) == IF d = 0 THEN SafePost(t) ELSE SafePostAt(t, now + d)

DelayedPost(t, d) == IF d = 0 THEN Post(t) ELSE PostAt(t, now + d)

(* post() or post_at() on a full queue; the drop handler, when there is    *)
(* one, is called inside check_(), that is under the mutex.                *)
Refuse(t, hasDrop) ==
  /\ MayOffer(t)
  /\ ~Room
  /\ fate' = [fate EXCEPT ![t] = "refused"]
  /\ dropCount' = dropCount + 1
  /\ lock' = IF hasDrop THEN t ELSE NoTask
  /\ UNCHANGED <<que, dque, due, kind, workVars, now, loopExit, sizeVars,
                 maxsize, ctl>>

(* The drop handler returns.  One that posts to the same queue never does: *)
(* the mutex is not recursive.                                             *)
DropReturns ==
  /\ ~Unlocked
  /\ ~DropReposts
  /\ lock' = NoTask
  /\ UNCHANGED <<que, dque, taskVars, workVars, now, loopExit, sizeVars,
                 maxsize, dropCount, ctl>>

-----------------------------------------------------------------------------
(* A worker.                                                               *)

Goto(w, l) == pc' = [pc EXCEPT ![w] = l]

WorkerKeeps == UNCHANGED <<due, kind, now, loopExit, maxsize, dropCount, lock, ctl>>

(* run() looks at _loop_exit under the mutex, run_one() and poll_one()     *)
(* without it.                                                             *)
Enter(w) ==
  /\ pc[w] = "out"
  /\ Mode[w] = "run" => Unlocked
  /\ Goto(w, IF loopExit THEN "ret"
             ELSE IF Mode[w] = "poll_one" THEN "poll" ELSE "check")
  /\ WorkerKeeps /\ UNCHANGED <<que, dque, fate, cur, deadline, sizeVars>>

(* while ( !_loop_exit ), read without the mutex.                          *)
LoopCheck(w) ==
  /\ pc[w] = "check"
  /\ Goto(w, IF loopExit THEN "ret" ELSE "poll")
  /\ WorkerKeeps /\ UNCHANGED <<que, dque, fate, cur, deadline, sizeVars>>

Earliest(S) == {t \in S : \A u \in S : due[t] <= due[u]}

DueOrNot == Earliest(dque)  (* variant: the clock not consulted *)

Due == {t \in Earliest(dque) : due[t] <= now}

(* Variant of Take: front() without pop().                                *)
TakeFront(w, q, d) ==
  /\ IF q = <<>>
     THEN /\ UNCHANGED <<que, cur>>
          /\ Goto(w, IF Mode[w] = "poll_one" THEN "ret" ELSE "wait")
     ELSE /\ que' = q
          /\ cur' = [cur EXCEPT ![w] = Head(q)]
          /\ Goto(w, "popped")
  /\ dque' = d

(* The first ready task, if any, is taken off the front.                  *)
Take(w, q, d) ==
  /\ IF q = <<>>
     THEN /\ UNCHANGED <<que, cur>>
          /\ Goto(w, IF Mode[w] = "poll_one" THEN "ret" ELSE "wait")
     ELSE /\ que' = Tail(q)
          /\ cur' = [cur EXCEPT ![w] = Head(q)]
          /\ Goto(w, "popped")
  /\ dque' = d

(* Variant of PollOne: the delayed task is copied and stays in _delayed_que. *)
PollOneCopying(w) ==
  /\ pc[w] = "poll"
  /\ Unlocked
  /\ \/ Due = {} /\ Take(w, que, dque)
     \/ \E t \in Due : Take(w, Append(que, t), dque)
  /\ WorkerKeeps /\ UNCHANGED <<fate, deadline, sizeVars>>

(* poll_one_(): at most one delayed task that is due joins the ready ones, *)
(* then the first ready one, if any, is taken.                             *)
PollOne(w) ==
  /\ pc[w] = "poll"
  /\ Unlocked
  /\ \/ Due = {} /\ Take(w, que, dque)
     \/ \E t \in Due : Take(w, Append(que, t), dque \ {t})
  /\ WorkerKeeps /\ UNCHANGED <<fate, deadline, sizeVars>>

(* Variant of CountOut: one counter for both kinds.                        *)
CountOutUnsafe(w) ==
  /\ pc[w] = "popped"
  /\ counter' = counter - 1 /\ UNCHANGED safeCounter
  /\ Goto(w, "running")
  /\ WorkerKeeps /\ UNCHANGED <<que, dque, fate, cur, deadline>>

(* The wrapper around the handler counts the task out before it runs it.   *)
CountOut(w) ==
  /\ pc[w] = "popped"
  /\ IF kind[cur[w]] = "unsafe"
     THEN counter' = counter - 1 /\ UNCHANGED safeCounter
     ELSE safeCounter' = safeCounter - 1 /\ UNCHANGED counter
  /\ Goto(w, "running")
  /\ WorkerKeeps /\ UNCHANGED <<que, dque, fate, cur, deadline>>

(* The handler returns; run() goes round its loop, the others return.      *)
Finish(w) ==
  /\ pc[w] = "running"
  /\ fate' = [fate EXCEPT ![cur[w]] = "finished"]
  /\ cur' = [cur EXCEPT ![w] = NoTask]
  /\ Goto(w, IF Mode[w] = "run" THEN "check" ELSE "ret")
  /\ WorkerKeeps /\ UNCHANGED <<que, dque, deadline, sizeVars>>

(* Variant of RunWait: no second look before the wait.                     *)
RunWaitBlind(w) ==
  /\ pc[w] = "wait"
  /\ Unlocked
  /\ Goto(w, "asleep")
  /\ WorkerKeeps /\ UNCHANGED <<que, dque, fate, cur, deadline, sizeVars>>

(* run_wait_(): the queues are looked at again under the mutex, _loop_exit *)
(* is not.                                                                 *)
RunWait(w) ==
  /\ pc[w] = "wait"
  /\ Unlocked
  /\ IF que # <<>>
     THEN Goto(w, "check") /\ UNCHANGED deadline
     ELSE /\ Goto(w, "asleep")
          /\ IF dque = {} THEN UNCHANGED deadline
             ELSE \E t \in Earliest(dque) :
                    deadline' = [deadline EXCEPT ![w] = due[t]]
  /\ WorkerKeeps /\ UNCHANGED <<que, dque, fate, cur, sizeVars>>

(* wait_until() reaches its time point.                                    *)
Timeout(w) ==
  /\ pc[w] = "asleep"
  /\ deadline[w] <= now
  /\ Wake({w})
  /\ WorkerKeeps /\ UNCHANGED <<que, dque, fate, cur, sizeVars>>

(* Both waits may also return for no reason.                               *)
SpuriousWakeup(w) ==
  /\ pc[w] = "asleep"
  /\ Wake({w})
  /\ WorkerKeeps /\ UNCHANGED <<que, dque, fate, cur, sizeVars>>

(* A woken worker leaves the wait when it has the mutex back.              *)
WakeUp(w) ==
  /\ pc[w] = "awake"
  /\ Unlocked
  /\ Goto(w, "check")
  /\ WorkerKeeps /\ UNCHANGED <<que, dque, fate, cur, deadline, sizeVars>>

(* Variant of Return: stopped() is not looked at.                          *)
ReturnAlways(w) ==
  /\ pc[w] = "ret"
  /\ Goto(w, "out")
  /\ WorkerKeeps /\ UNCHANGED <<que, dque, fate, cur, deadline, sizeVars>>

(* Back in the loop of the thread: if ( s->stopped() ) break;              *)
Return(w) ==
  /\ pc[w] = "ret"
  /\ Goto(w, IF loopExit THEN "done" ELSE "out")
  /\ WorkerKeeps /\ UNCHANGED <<que, dque, fate, cur, deadline, sizeVars>>

-----------------------------------------------------------------------------
(* The owner of the queue.                                                 *)

Stop ==
  /\ Unlocked
  /\ ~loopExit
  /\ ConcurrentReset \/ ctl = "idle"
  /\ dropCount' = 0
  /\ loopExit' = TRUE
  /\ Wake(Asleep)
  /\ UNCHANGED <<que, dque, taskVars, cur, now, sizeVars, maxsize, lock, ctl>>

(* The threads of a stopped queue are joined and new ones started.         *)
StartAll ==
  /\ AllDone
  /\ ConcurrentReset \/ ctl = "idle"
  /\ pc' = [w \in Workers |-> "out"]
  /\ UNCHANGED <<que, dque, taskVars, cur, deadline, now, loopExit, sizeVars,
                 maxsize, dropCount, lock, ctl>>

SetMaxsize(n) ==
  /\ Unlocked
  /\ maxsize' = n
  /\ UNCHANGED <<que, dque, taskVars, workVars, now, loopExit, sizeVars,
                 dropCount, lock, ctl>>

(* reset() takes no lock: it is one step per statement, and the queues are *)
(* tested in one step and popped in the next.  pop() on an empty queue is  *)
(* undefined: ctl = "corrupt", and what follows means nothing.              *)
ResetKeeps == UNCHANGED <<due, kind, workVars, now, sizeVars, maxsize, lock>>

ResetFlags ==
  /\ ctl = "idle"
  /\ ConcurrentReset \/ (AllDone /\ Unlocked)
  /\ dropCount' = 0
  /\ loopExit' = FALSE
  /\ ctl' = "test que"
  /\ ResetKeeps /\ UNCHANGED <<que, dque, fate>>

ResetTest(from, empty, pop, next) ==
  /\ ctl = from
  /\ ctl' = IF empty THEN next ELSE pop
  /\ ResetKeeps /\ UNCHANGED <<que, dque, fate, loopExit, dropCount>>

ResetTestQue == ResetTest("test que", que = <<>>, "pop que", "test dque")

ResetTestDelayed == ResetTest("test dque", dque = {}, "pop dque", "idle")

Discard(t) == fate' = [fate EXCEPT ![t] = "discarded"]

ResetPopQue ==
  /\ ctl = "pop que"
  /\ IF que = <<>> THEN ctl' = "corrupt" /\ UNCHANGED <<que, fate>>
     ELSE /\ ctl' = "test que"
          /\ que' = Tail(que)
          /\ Discard(Head(que))
  /\ ResetKeeps /\ UNCHANGED <<dque, loopExit, dropCount>>

ResetPopDelayed ==
  /\ ctl = "pop dque"
  /\ IF dque = {} THEN ctl' = "corrupt" /\ UNCHANGED <<dque, fate>>
     ELSE /\ ctl' = "test dque"
          /\ \E t \in Earliest(dque) : dque' = dque \ {t} /\ Discard(t)
  /\ ResetKeeps /\ UNCHANGED <<que, loopExit, dropCount>>

ResetStep == \/ ResetTestQue \/ ResetPopQue
             \/ ResetTestDelayed \/ ResetPopDelayed

Tick ==
  /\ now < MaxTime
  /\ now' = now + 1
  /\ UNCHANGED <<que, dque, taskVars, workVars, loopExit, sizeVars, maxsize,
                 dropCount, lock, ctl>>

-----------------------------------------------------------------------------
Client ==
  \E t \in Tasks :
    \/ SafePost(t) \/ Post(t)
    \/ \E tp \in Time : SafePostAt(t, tp) \/ PostAt(t, tp)
    \/ \E d \in 0..(MaxTime - now) : SafeDelayedPost(t, d) \/ DelayedPost(t, d)
    \/ \E hasDrop \in BOOLEAN : Refuse(t, hasDrop)

(* What a thread does on its own while it serves the queue.                *)
Serve(w) == \/ Enter(w) \/ LoopCheck(w) \/ PollOne(w) \/ CountOut(w)
            \/ RunWait(w) \/ Timeout(w) \/ WakeUp(w) \/ Return(w)

Worker == \E w \in Workers : Serve(w) \/ Finish(w) \/ SpuriousWakeup(w)

Owner == \/ Stop \/ StartAll \/ ResetFlags \/ ResetStep
         \/ \E n \in Maxsizes : SetMaxsize(n)

Next == Client \/ Worker \/ Owner \/ DropReturns \/ Tick

Spec == Init /\ [][Next]_vars

(* A thread that can go on does, a handler returns, time passes.  Nobody   *)
(* is obliged to post, to stop, to reset or to start, nor to call          *)
(* poll_one(), which the threads of the pool never do.                     *)
GoesOn(w) == Serve(w) /\ ~(Mode[w] = "poll_one" /\ pc[w] = "out")

PromptServing == /\ \A w \in Workers : WF_vars(GoesOn(w))
                 /\ WF_vars(DropReturns)
                 /\ WF_vars(ResetStep)
                 /\ WF_vars(Tick)

HandlersReturn == \A w \in Workers : WF_vars(Finish(w))

FairSpec == Spec /\ PromptServing /\ HandlersReturn

(* The same where a handler may run for as long as it likes.               *)
BusySpec == Spec /\ PromptServing

-----------------------------------------------------------------------------
(* Safety.                                                                 *)

Ready == Range(que)
Taken == {t \in Tasks : \E w \in Workers : cur[w] = t}

(* A task that was accepted and is not yet finished or discarded is in     *)
(* exactly one place: one of the two queues or the hands of one worker.    *)
(* (post, poll_one_ and reset move the handlers between them.)             *)
OnePlace ==
  /\ IsInjective(que)
  /\ \A v, w \in Workers : cur[v] = cur[w] /\ cur[v] # NoTask => v = w
  /\ \A w \in Workers : cur[w] # NoTask <=> pc[w] \in {"popped", "running"}
  /\ \A t \in Tasks :
       /\ fate[t] = "accepted" <=> t \in dque \/ t \in Ready \/ t \in Taken
       /\ t \in dque => t \notin Ready /\ t \notin Taken
       /\ t \in Ready => t \notin Taken

(* No handler becomes ready, or is run, before its time point, however     *)
(* workers, timed waits and the moves from _delayed_que interleave.        *)
NotEarly == \A t \in Tasks : t \in Ready \/ t \in Taken => due[t] <= now

(* What the counters count: a task from its post until the wrapper around  *)
(* it starts, and for ever when reset() has thrown it away, since the pops *)
(* of reset() do not touch _counter and _safe_counter.                     *)
Counted(t) == \/ fate[t] = "discarded" \/ t \in dque \/ t \in Ready
              \/ \E w \in Workers : cur[w] = t /\ pc[w] = "popped"

Accounting ==
  /\ counter = Cardinality({t \in Tasks : kind[t] = "unsafe" /\ Counted(t)})
  /\ safeCounter = Cardinality({t \in Tasks : kind[t] = "safe" /\ Counted(t)})

(* Where every limit that is ever set is a real one, the unsafe tasks in   *)
(* the queue never outnumber the largest, however many callers post at     *)
(* once and although safe tasks are let in over the limit.                 *)
UnsafeQueued == {t \in Tasks : kind[t] = "unsafe" /\ (t \in dque \/ t \in Ready)}

UnsafeBound ==
  0 \notin Maxsizes => \E m \in Maxsizes : Cardinality(UnsafeQueued) <= m

(* No lost wakeup: when every worker that could look at the queue sleeps,  *)
(* there is nothing ready, and some sleeper has set its alarm early enough *)
(* for each delayed task.  (notify_one under the mutex in the four posts,  *)
(* the second look and the choice of the wait in run_wait_.)               *)
Attentive == {w \in Workers : pc[w] \notin {"asleep", "done"}}

NoLostWakeup ==
  ~loopExit /\ ctl = "idle" /\ Asleep # {} /\ Attentive = {} =>
    /\ que = <<>>
    /\ \A t \in dque : \E w \in Asleep : deadline[w] <= due[t]

(* The queue implements TaskQueue.                                         *)
statusBar == [t \in Tasks |-> IF t \in Taken THEN "started"
                              ELSE IF t \in Ready \/ t \in dque THEN "pending"
                              ELSE fate[t]]

Abstract == INSTANCE TaskQueue WITH status <- statusBar

(* Every behaviour of the queue is one that TaskQueue allows.              *)
ImplementsTaskQueue == Abstract!Spec

-----------------------------------------------------------------------------
(* Liveness.                                                               *)

Pending(t) == t \in Ready \/ t \in dque

(* Under FairSpec: an accepted task is taken out of the queue unless the   *)
(* queue is stopped, or was already when its workers looked.               *)
TaskServed ==
  \A t \in Tasks : Pending(t) ~> (~Pending(t) \/ loopExit \/ AllDone)

(* Under FairSpec: after stop() a thread of the pool that is about to look *)
(* at _loop_exit, or was woken by the notification, ends.                  *)
OnTheWayOut ==
  {"out", "check", "popped", "running", "awake", "ret", "done"}

StoppedWorkersEnd ==
  \A w \in Workers :
    Mode[w] # "poll_one" =>
      ((loopExit /\ pc[w] \in OnTheWayOut) ~> (pc[w] = "done" \/ ~loopExit))

(* What the tests of the queue take for granted (stop(), then join() on    *)
(* the threads that are in run()): after stop() every worker ends.         *)
StopEndsEveryWorker == loopExit ~> (AllDone \/ ~loopExit)

(* What workflow.hpp says of safe_post with a time point: the task is run  *)
(* at that moment.  At the least, an idle worker takes a task that is due. *)
NobodyIdle == \A w \in Workers : pc[w] \in {"running", "done"}

IdleWorkerServes ==
  \A t \in Tasks : (t \in dque /\ due[t] <= now)
                      ~> (t \notin dque \/ loopExit \/ NobodyIdle)

(* What workflow.hpp says of reset(): threads go on and wait for new tasks *)
(* (so it may be called while they run, without undefined behaviour).      *)
ResetIsSafe == ctl # "corrupt"

(* A drop handler returns and the mutex is free again.                     *)
MutexComesBack == ~Unlocked ~> Unlocked
=============================================================================
