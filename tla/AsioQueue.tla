------------------------------- MODULE AsioQueue -------------------------------
(***************************************************************************)
(* The queue of wflow/queue/asio_queue.cpp: a wrapper without a lock of    *)
(* its own around a boost::asio::io_context, with atomic counters for the  *)
(* limit.  A post is therefore several steps of its caller (the test of    *)
(* the limit, the increment, the hand-over), and other callers and workers *)
(* come in between.                                                        *)
(*                                                                         *)
(* The io_context is external and modelled by what the queue relies on:    *)
(* handlers start in the order they became ready, a timer becomes ready    *)
(* at its time point while some thread is in run(), and run() returns once *)
(* the io_context is stopped, which it also is when it runs out of work.   *)
(***************************************************************************)
EXTENDS Integers, Sequences, FiniteSets, Functions

CONSTANTS Tasks,            (* the handlers that may be posted, each once  *)
          Workers,          (* the threads that serve the io_context       *)
          Mode,             (* which function each worker calls            *)
          Maxsizes,         (* the limits set_maxsize() may choose from    *)
          Callers,          (* how many threads are in a post at once      *)
          MaxTime,          (* the bound on the clock                      *)
          NoTask            (* "no task"                                   *)

Time == 0..MaxTime
Kinds == {"safe", "unsafe"}
Modes == {"run", "run_for_ms", "run_one", "poll_one"}
Fates == {"fresh", "checked", "counted", "accepted", "refused", "finished",
          "discarded"}
Places == {"out", "in", "popped", "running", "ret", "done"}

ASSUME TasksAssumption == IsFiniteSet(Tasks) /\ NoTask \notin Tasks
ASSUME WorkersAssumption == Mode \in [Workers -> Modes]
ASSUME BoundsAssumption == MaxTime \in Nat /\ Maxsizes \subseteq Nat /\ Callers \in Nat \ {0}

VARIABLES
  ready,        (* the handlers the io_context may start, in order         *)
  timers,       (* the handlers that wait for a deadline_timer             *)
  due,          (* the time point of each task; 0 is "at once"             *)
  kind,         (* how each task was posted                                *)
  fate,         (* what has become of each task                            *)
  cur,          (* the handler each worker has taken                       *)
  pc,           (* where each worker stands                                *)
  now,          (* system_clock, bounded by MaxTime                        *)
  stopped,      (* is the io_context stopped                               *)
  guard,        (* does the pool hold its executor_work_guard              *)
  alive,        (* does the asio_queue still exist                         *)
  counter,      (* _counter                                                *)
  safeCounter,  (* _safe_counter                                           *)
  maxsize,      (* _maxsize; 0 is "no limit"                               *)
  dropCount     (* _drop_count, which nothing sets back to zero            *)

taskVars == <<due, kind, fate>>
ioVars   == <<ready, timers, stopped, guard>>
workVars == <<cur, pc>>
sizeVars == <<counter, safeCounter, maxsize, dropCount>>
vars == <<ready, timers, due, kind, fate, cur, pc, now, stopped, guard, alive,
          counter, safeCounter, maxsize, dropCount>>

TypeOK ==
  /\ ready \in Seq(Tasks)
  /\ timers \subseteq Tasks
  /\ due \in [Tasks -> Time]
  /\ kind \in [Tasks -> Kinds \cup {"none"}]
  /\ fate \in [Tasks -> Fates]
  /\ cur \in [Workers -> Tasks \cup {NoTask}]
  /\ pc \in [Workers -> Places]
  /\ now \in Time
  /\ {stopped, guard, alive} \subseteq BOOLEAN
  /\ counter \in Int /\ safeCounter \in Int
  /\ maxsize \in Maxsizes
  /\ dropCount \in Nat

Init ==
  /\ ready = <<>> /\ timers = {}
  /\ due = [t \in Tasks |-> 0]
  /\ kind = [t \in Tasks |-> "none"]
  /\ fate = [t \in Tasks |-> "fresh"]
  /\ cur = [w \in Workers |-> NoTask]
  /\ pc = [w \in Workers |-> "out"]
  /\ now = 0
  /\ stopped = FALSE /\ guard = TRUE /\ alive = TRUE
  /\ counter = 0 /\ safeCounter = 0
  /\ maxsize \in Maxsizes
  /\ dropCount = 0

-----------------------------------------------------------------------------
(* Posting: each task is posted by a thread of its own.                    *)

MidPost == {t \in Tasks : fate[t] \in {"checked", "counted"}}

LimitTestOffByOne == maxsize = 0 \/ counter <= maxsize  (* variant *)

Room == maxsize = 0 \/ counter < maxsize

Offer(t, k, tp, next) ==
  /\ fate[t] = "fresh"
  /\ alive
  /\ Cardinality(MidPost) < Callers
  /\ fate' = [fate EXCEPT ![t] = next]
  /\ kind' = [kind EXCEPT ![t] = k]
  /\ due' = [due EXCEPT ![t] = IF tp <= now THEN 0 ELSE tp]
  /\ UNCHANGED <<ioVars, workVars, now, alive, counter, maxsize, dropCount>>

(* The safe posts begin with ++_safe_counter.                              *)
SafePostAt(t, tp) == /\ Offer(t, "safe", tp, "counted")
                     /\ safeCounter' = safeCounter + 1

SafePost(t) == SafePostAt(t, 0)

(* The others begin with check_().                                         *)
PostAt(t, tp) == Room /\ Offer(t, "unsafe", tp, "checked") /\ UNCHANGED safeCounter

Post(t) == PostAt(t, 0)

SafeDelayedPost(t, d) == SafePostAt(t, now + d)

DelayedPost(t, d) == PostAt(t, now + d)

(* On a full queue check_() counts the drop and calls the drop handler.    *)
Refuse(t) ==
  /\ fate[t] = "fresh"
  /\ alive
  /\ ~Room
  /\ fate' = [fate EXCEPT ![t] = "refused"]
  /\ dropCount' = dropCount + 1
  /\ UNCHANGED <<ioVars, due, kind, workVars, now, alive, counter, safeCounter, maxsize>>

(* ++_counter.                                                             *)
CountIn(t) ==
  /\ fate[t] = "checked"
  /\ fate' = [fate EXCEPT ![t] = "counted"]
  /\ counter' = counter + 1
  /\ UNCHANGED <<ioVars, due, kind, workVars, now, alive, safeCounter, maxsize,
                 dropCount>>

(* Variants of HandOver: the timer goes out of scope at once, which calls  *)
(* its handler with an error nobody looks at; or it is never waited for.   *)
HandOverReady(t) ==
  /\ fate[t] = "counted"
  /\ fate' = [fate EXCEPT ![t] = "accepted"]
  /\ ready' = Append(ready, t) /\ UNCHANGED timers
  /\ UNCHANGED <<due, kind, workVars, now, stopped, guard, alive, sizeVars>>

HandOverForgotten(t) ==
  /\ fate[t] = "counted"
  /\ fate' = [fate EXCEPT ![t] = "accepted"]
  /\ ready' = IF due[t] = 0 THEN Append(ready, t) ELSE ready
  /\ UNCHANGED <<timers, due, kind, workVars, now, stopped, guard, alive, sizeVars>>

(* boost::asio::post() or async_wait().                                    *)
HandOver(t) ==
  /\ fate[t] = "counted"
  /\ fate' = [fate EXCEPT ![t] = "accepted"]
  /\ IF due[t] = 0 THEN ready' = Append(ready, t) /\ UNCHANGED timers
                   ELSE timers' = timers \cup {t} /\ UNCHANGED ready
  /\ UNCHANGED <<due, kind, workVars, now, stopped, guard, alive, sizeVars>>

-----------------------------------------------------------------------------
(* The io_context and the threads in it.                                   *)

(* What keeps run() from returning: handlers that wait or run, the guard.  *)
Busy(r, ts, c) == r # <<>> \/ ts # {} \/ \E w \in Workers : c[w] # NoTask

Goto(w, l) == pc' = [pc EXCEPT ![w] = l]

WorkerKeeps == UNCHANGED <<due, kind, now, guard, alive, maxsize, dropCount>>

Enter(w) ==
  /\ pc[w] = "out"
  /\ stopped' = (stopped \/ ~(guard \/ Busy(ready, timers, cur)))
  /\ Goto(w, IF stopped' THEN "ret" ELSE "in")
  /\ WorkerKeeps /\ UNCHANGED <<ready, timers, fate, cur, counter, safeCounter>>

(* Some thread in the io_context finds a timer at its time point.          *)
Expire(t) ==
  /\ t \in timers
  /\ due[t] <= now
  /\ ~stopped
  /\ \E w \in Workers : pc[w] = "in"
  /\ timers' = timers \ {t}
  /\ ready' = Append(ready, t)
  /\ WorkerKeeps /\ UNCHANGED <<fate, workVars, stopped, counter, safeCounter>>

Take(w) ==
  /\ pc[w] = "in"
  /\ ~stopped
  /\ ready # <<>>
  /\ ready' = Tail(ready)
  /\ cur' = [cur EXCEPT ![w] = Head(ready)]
  /\ Goto(w, "popped")
  /\ WorkerKeeps /\ UNCHANGED <<timers, fate, stopped, counter, safeCounter>>

(* The io_context is stopped, or there is nothing for poll_one(), nor was  *)
(* there for the milliseconds of run_for_ms().  (run_one_for_ms() differs  *)
(* from poll_one() only in how long it waits.)                             *)
Leave(w) ==
  /\ pc[w] = "in"
  /\ stopped \/ (Mode[w] \in {"poll_one", "run_for_ms"} /\ ready = <<>>)
  /\ Goto(w, "ret")
  /\ WorkerKeeps /\ UNCHANGED <<ready, timers, fate, cur, stopped, counter, safeCounter>>

(* Variant of CountOut: the task stays counted.                            *)
CountOutNot(w) ==
  /\ pc[w] = "popped"
  /\ alive
  /\ UNCHANGED <<counter, safeCounter>>
  /\ Goto(w, "running")
  /\ WorkerKeeps /\ UNCHANGED <<ready, timers, fate, cur, stopped>>

(* The wrapper around a handler finds its queue and counts the task out.   *)
CountOut(w) ==
  /\ pc[w] = "popped"
  /\ alive
  /\ IF kind[cur[w]] = "unsafe"
     THEN counter' = counter - 1 /\ UNCHANGED safeCounter
     ELSE safeCounter' = safeCounter - 1 /\ UNCHANGED counter
  /\ Goto(w, "running")
  /\ WorkerKeeps /\ UNCHANGED <<ready, timers, fate, cur, stopped>>

(* A wrapper returns: out of work, the io_context stops.                   *)
WrapperReturns(w, end) ==
  /\ fate' = [fate EXCEPT ![cur[w]] = end]
  /\ cur' = [cur EXCEPT ![w] = NoTask]
  /\ stopped' = (stopped \/ ~(guard \/ Busy(ready, timers, cur')))
  /\ Goto(w, IF Mode[w] \in {"run", "run_for_ms"} THEN "in" ELSE "ret")
  /\ WorkerKeeps /\ UNCHANGED <<ready, timers, counter, safeCounter>>

Finish(w) == pc[w] = "running" /\ WrapperReturns(w, "finished")

(* wthis.lock() finds no queue: the handler is not called.                 *)
FindNoQueue(w) == pc[w] = "popped" /\ ~alive /\ WrapperReturns(w, "discarded")

(* Back in the loop of the thread: if ( s->stopped() ) break;              *)
Return(w) ==
  /\ pc[w] = "ret"
  /\ Goto(w, IF stopped THEN "done" ELSE "out")
  /\ WorkerKeeps /\ UNCHANGED <<ready, timers, fate, cur, stopped, counter, safeCounter>>

-----------------------------------------------------------------------------
(* The owner of the queue and of the threads.                              *)

AllDone == \A w \in Workers : pc[w] = "done"

OwnerKeeps == UNCHANGED <<ready, timers, taskVars, cur, now, counter, safeCounter,
                          dropCount>>

Stop ==
  /\ stopped' = TRUE
  /\ OwnerKeeps /\ UNCHANGED <<pc, guard, alive, maxsize>>

(* restart(), which may be called only when no thread is in run().         *)
Reset ==
  /\ AllDone
  /\ stopped' = FALSE
  /\ OwnerKeeps /\ UNCHANGED <<pc, guard, alive, maxsize>>

(* Variants of DropGuard: a second guard is left somewhere; the threads    *)
(* are told to stop.                                                       *)
DropGuardLeaking ==
  /\ guard' = FALSE
  /\ OwnerKeeps /\ UNCHANGED <<pc, stopped, alive, maxsize>>

DropGuardAndStop ==
  /\ guard' = FALSE
  /\ stopped' = TRUE
  /\ OwnerKeeps /\ UNCHANGED <<pc, alive, maxsize>>

(* shutdown(): the pool lets go of its work guard.                         *)
DropGuard ==
  /\ guard' = FALSE
  /\ stopped' = (stopped \/ (guard /\ ~Busy(ready, timers, cur)))
  /\ OwnerKeeps /\ UNCHANGED <<pc, alive, maxsize>>

(* start() after the threads have been joined.                             *)
StartAll ==
  /\ AllDone
  /\ guard' = TRUE
  /\ pc' = [w \in Workers |-> "out"]
  /\ OwnerKeeps /\ UNCHANGED <<stopped, alive, maxsize>>

SetMaxsize(n) ==
  /\ maxsize' = n
  /\ OwnerKeeps /\ UNCHANGED <<pc, stopped, guard, alive>>

(* The last shared_ptr to the queue goes; nobody is posting to it then.    *)
Destroy ==
  /\ alive
  /\ MidPost = {}
  /\ alive' = FALSE
  /\ OwnerKeeps /\ UNCHANGED <<pc, stopped, guard, maxsize>>

Tick ==
  /\ now < MaxTime
  /\ now' = now + 1
  /\ UNCHANGED <<ioVars, taskVars, workVars, alive, sizeVars>>

-----------------------------------------------------------------------------
Client ==
  \E t \in Tasks :
    \/ SafePost(t) \/ Post(t) \/ Refuse(t)
    \/ \E tp \in Time : SafePostAt(t, tp) \/ PostAt(t, tp)
    \/ \E d \in 0..(MaxTime - now) : SafeDelayedPost(t, d) \/ DelayedPost(t, d)

PostGoesOn(t) == CountIn(t) \/ HandOver(t)

Serve(w) == Enter(w) \/ Take(w) \/ Leave(w) \/ CountOut(w) \/ FindNoQueue(w)
            \/ Return(w)

Owner == \/ Stop \/ Reset \/ DropGuard \/ StartAll \/ Destroy
         \/ \E n \in Maxsizes : SetMaxsize(n)

Next == \/ Client \/ Owner \/ Tick
        \/ \E t \in Tasks : PostGoesOn(t) \/ Expire(t)
        \/ \E w \in Workers : Serve(w) \/ Finish(w)

Spec == Init /\ [][Next]_vars

(* A thread in a post or in the io_context goes on, timers fire, handlers  *)
(* return, time passes.  Nobody is obliged to call poll_one() again.       *)
GoesOn(w) == Serve(w) /\ ~(Mode[w] = "poll_one" /\ pc[w] = "out")

Fairness == /\ \A t \in Tasks : WF_vars(PostGoesOn(t)) /\ WF_vars(Expire(t))
            /\ \A w \in Workers : WF_vars(GoesOn(w)) /\ WF_vars(Finish(w))
            /\ WF_vars(Tick)

-----------------------------------------------------------------------------
(* Safety.                                                                 *)

Ready == Range(ready)
Taken == {t \in Tasks : \E w \in Workers : cur[w] = t}

(* What the counters count although no step of theirs is under a lock: a   *)
(* task from ++_counter in its post until the wrapper around it starts,    *)
(* and for ever where the wrapper finds no queue.                          *)
Counted(t) == \/ fate[t] \in {"counted", "discarded"} \/ t \in timers \/ t \in Ready
              \/ \E w \in Workers : cur[w] = t /\ pc[w] = "popped"

Accounting ==
  /\ counter = Cardinality({t \in Tasks : kind[t] = "unsafe" /\ Counted(t)})
  /\ safeCounter = Cardinality({t \in Tasks : kind[t] = "safe" /\ Counted(t)})
  /\ dropCount = Cardinality({t \in Tasks : fate[t] = "refused"})

(* check_() and ++_counter are two steps, so the limit may be passed, but  *)
(* by no more tasks than there are other callers in a post.                *)
Checked == {t \in Tasks : fate[t] = "checked"}

Overshoot ==
  0 \notin Maxsizes =>
    \E m \in Maxsizes : counter + Cardinality(Checked) <= m - 1 + Callers

(* The queue implements TaskQueue: a task is accepted when it is handed    *)
(* over to the io_context and started when its wrapper calls the handler.  *)
Started(t) == \E w \in Workers : cur[w] = t /\ pc[w] = "running"

statusBar == [t \in Tasks |-> IF Started(t) THEN "started"
                              ELSE IF fate[t] = "accepted" THEN "pending"
                              ELSE IF t \in MidPost THEN "fresh" ELSE fate[t]]

dueBar == [t \in Tasks |-> IF t \in MidPost THEN 0 ELSE due[t]]

Abstract == INSTANCE TaskQueue WITH status <- statusBar, due <- dueBar

(* Every behaviour of the queue is one that TaskQueue allows.              *)
ImplementsTaskQueue == Abstract!Spec

-----------------------------------------------------------------------------
(* Liveness, under Fairness.                                               *)

(* An accepted task is taken unless the io_context is stopped or its       *)
(* threads have ended.                                                     *)
TaskServed ==
  \A t \in Tasks : fate[t] = "accepted" ~> (t \in Taken \/ stopped \/ AllDone)

(* After shutdown() the threads end, unless start() is called again.       *)
ShutdownEnds == ~guard ~> (AllDone \/ guard)

-----------------------------------------------------------------------------
(* What workflow_options.hpp says of maxsize: on reaching it new tasks are *)
(* thrown out, so the unsafe ones never outnumber it.                      *)
LimitHolds == maxsize = 0 \/ counter <= maxsize
=============================================================================
