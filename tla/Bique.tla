---------------------------------- MODULE Bique ----------------------------------
(***************************************************************************)
(* The switch between the three queues (wflow/queue/bique.cpp) and the     *)
(* calls of task_manager that go through it: start, stop, reset, shutdown, *)
(* wait, reconfigure.  Each call of the switch goes to the queue that is   *)
(* in use at that moment, so a thread, a post and the pool's guard may     *)
(* each be with a different one.                                           *)
(*                                                                         *)
(* The queues are what TaskQueue promises, without a limit; of the pool    *)
(* there is what ThreadPool shows of it.  The caller's io_context, behind  *)
(* the queue "st", is run by the caller.                                   *)
(***************************************************************************)
EXTENDS Integers, Sequences, FiniteSets, Functions

CONSTANTS Tasks,     (* the tasks that may be posted, each once            *)
          Threads,   (* the threads the pool may ever create               *)
          NoTask,    (* "no task"                                          *)
          Uses,      (* the ways a manager is made and used                *)
          MaxCalls   (* the bound on reset() and reconfigure()             *)

Queues == {"delayed", "asio", "st"}

(* Was use_asio set, was it made on an io_context of the caller, has it a  *)
(* post_delay_ms, how many threads has it at first and after reconfigure(),*)
(* how many tasks are posted, and timers created (for Workflow)?           *)
Use == [asio : BOOLEAN, io : BOOLEAN, delayed : BOOLEAN, size : Nat, sizes : SUBSET Nat,
        posts : Nat, timers : Nat]

ASSUME TasksAssumption == IsFiniteSet(Tasks) /\ NoTask \notin Tasks
ASSUME UsesAssumption == Uses \subseteq Use /\ MaxCalls \in Nat

VARIABLES
  use,      (* the way of this behaviour, fixed; ~use.asio is _dflag       *)
  mtFlag,   (* _mt_flag                                                    *)
  size,     (* _threads of the task manager                                *)
  state,    (* what has become of each task                                *)
  where,    (* the queue each task was given to                            *)
  stopped,  (* is each queue stopped                                       *)
  guard,    (* the queue whose work the pool holds                         *)
  started,  (* _started of the pool                                        *)
  threads,  (* _threads of the pool                                        *)
  flags,    (* _flags, each named by the thread it was made for            *)
  cut,      (* has reconfigure() cut the lists where flags of an earlier   *)
            (* wait() were in front of those of the threads                *)
  at,       (* where each thread is                                        *)
  runs,     (* the task it runs                                            *)
  call,     (* the call of the owner that is under way                     *)
  before,   (* the tasks that were there when shutdown() was called, until *)
            (* wait() has returned                                         *)
  calls,    (* how many calls of reset() and reconfigure() there were      *)
  deadStart,(* did start() or reconfigure() last find the queue in use     *)
            (* stopped, or threads that have ended                         *)
  broken    (* has a call reached a queue that does not exist              *)

taskVars == <<state, where>>
poolVars == <<guard, started, threads, flags, cut>>
workVars == <<at, runs>>
bqVars == <<use, mtFlag, size, state, where, stopped, guard, started, threads,
            flags, cut, at, runs, call, before, calls, deadStart, broken>>

States == {"fresh", "later", "waiting", "running", "done", "cleared"}
Places == {"none", "out", "ret", "ended"} \cup Queues
Calls == {"idle", "stop", "stopjoin", "wait", "grow", "shrink", "restart"}

BqTypeOK ==
  /\ use \in Uses
  /\ mtFlag \in BOOLEAN /\ size \in Nat
  /\ state \in [Tasks -> States]
  /\ where \in [Tasks -> Queues \cup {"none"}]
  /\ stopped \in [Queues -> BOOLEAN]
  /\ guard \in Queues \cup {"none"} /\ started \in BOOLEAN
  /\ threads \in Seq(Threads) /\ flags \in Seq(Threads) /\ cut \in BOOLEAN
  /\ at \in [Threads -> Places]
  /\ runs \in [Threads -> Tasks \cup {NoTask}]
  /\ call \in Calls /\ calls \in 0..MaxCalls
  /\ before \subseteq Tasks /\ deadStart \in BOOLEAN /\ broken \in BOOLEAN

(* The constructor without an io_context does not look at the threads.     *)
BqInit ==
  /\ use \in Uses
  /\ mtFlag = (~use.io \/ use.size # 0)
  /\ size = use.size
  /\ state = [t \in Tasks |-> "fresh"]
  /\ where = [t \in Tasks |-> "none"]
  /\ stopped = [q \in Queues |-> FALSE]
  /\ guard = "none" /\ started = FALSE
  /\ threads = <<>> /\ flags = <<>> /\ cut = FALSE
  /\ at = [w \in Threads |-> "none"]
  /\ runs = [w \in Threads |-> NoTask]
  /\ call = "idle" /\ before = {} /\ calls = 0
  /\ deadStart = FALSE /\ broken = FALSE

-----------------------------------------------------------------------------
(* invoke_(), and the queue whose work() the pool is given.                *)
ActiveIf(mt) == IF ~use.asio THEN "delayed" ELSE IF mt THEN "asio" ELSE "st"
Active == ActiveIf(mtFlag)
WorkQueue == IF mtFlag THEN "asio" ELSE "st"

Exists(q) == q # "st" \/ use.io

In(q) == {t \in Tasks : where[t] = q /\ state[t] \in {"later", "waiting", "running"}}
Alive(w) == at[w] \notin {"none", "ended"}

-----------------------------------------------------------------------------
(* Posts, by anyone.  With post_delay_ms, post() puts a handler into the   *)
(* queue that posts anew when its time has come.                           *)
OthersKeep == UNCHANGED <<use, mtFlag, size, stopped, poolVars, workVars, call, before,
                          calls, deadStart>>

Give(t, q, s) ==
  IF Exists(q) THEN /\ state' = [state EXCEPT ![t] = s]
                    /\ where' = [where EXCEPT ![t] = q]
                    /\ UNCHANGED broken
               ELSE broken' = TRUE /\ UNCHANGED taskVars

MayPost == ~broken /\ Cardinality({t \in Tasks : state[t] # "fresh"}) < use.posts

Post(t) ==
  /\ state[t] = "fresh" /\ MayPost
  /\ Give(t, Active, IF use.delayed THEN "later" ELSE "waiting")
  /\ OthersKeep

SafePost(t) ==
  /\ state[t] = "fresh" /\ MayPost
  /\ Give(t, Active, "waiting")
  /\ OthersKeep

(* Some thread that serves queue q; the caller runs its own.               *)
Served(q) == ~stopped[q] /\ (q = "st" \/ \E w \in Threads : at[w] = q)

Expire(t) ==
  /\ state[t] = "later"
  /\ Served(where[t])
  /\ Give(t, Active, "waiting")
  /\ OthersKeep

CallerServes(t) ==
  /\ state[t] = "waiting" /\ where[t] = "st"
  /\ state' = [state EXCEPT ![t] = "done"]
  /\ OthersKeep /\ UNCHANGED <<where, broken>>

-----------------------------------------------------------------------------
(* The threads of the pool.                                                *)
WorkersKeep == UNCHANGED <<use, mtFlag, size, where, poolVars, call, before, calls,
                           deadStart>>

(* A thread calls the run function of the queue in use.                    *)
Enter(w) ==
  /\ at[w] = "out"
  /\ IF Exists(Active) THEN at' = [at EXCEPT ![w] = Active] /\ UNCHANGED broken
                       ELSE broken' = TRUE /\ UNCHANGED at
  /\ WorkersKeep /\ UNCHANGED <<state, stopped, runs>>

Take(w) ==
  /\ at[w] \in Queues /\ runs[w] = NoTask
  /\ ~stopped[at[w]]
  /\ \E t \in In(at[w]) : /\ state[t] = "waiting"
                          /\ state' = [state EXCEPT ![t] = "running"]
                          /\ runs' = [runs EXCEPT ![w] = t]
  /\ WorkersKeep /\ UNCHANGED <<at, stopped, broken>>

Finish(w) ==
  /\ runs[w] # NoTask
  /\ state' = [state EXCEPT ![runs[w]] = "done"]
  /\ runs' = [runs EXCEPT ![w] = NoTask]
  /\ WorkersKeep /\ UNCHANGED <<at, stopped, broken>>

(* An io_context that a thread runs stops when there is no work left.      *)
OutOfWork(w) ==
  /\ at[w] \in {"asio", "st"}
  /\ ~stopped[at[w]] /\ guard # at[w] /\ In(at[w]) = {}
  /\ stopped' = [stopped EXCEPT ![at[w]] = TRUE]
  /\ WorkersKeep /\ UNCHANGED <<state, at, runs, broken>>

(* run_for_ms() returns: the queue is stopped, or the milliseconds are over. *)
LeaveRun(w) ==
  /\ at[w] \in Queues /\ runs[w] = NoTask
  /\ at' = [at EXCEPT ![w] = "ret"]
  /\ WorkersKeep /\ UNCHANGED <<state, stopped, runs, broken>>

(* if ( s->stopped() ) break; if ( wflag.lock() == nullptr ) break;        *)
Return(w) ==
  /\ at[w] = "ret"
  /\ IF Exists(Active)
     THEN /\ at' = [at EXCEPT ![w] =
                      IF stopped[Active] \/ w \notin Range(flags) THEN "ended" ELSE "out"]
          /\ UNCHANGED broken
     ELSE broken' = TRUE /\ UNCHANGED at
  /\ WorkersKeep /\ UNCHANGED <<state, stopped, runs>>

-----------------------------------------------------------------------------
(* The calls of the owner, one at a time.                                  *)
CallsKeep == UNCHANGED <<use, runs, deadStart, broken>>

Count == calls < MaxCalls /\ calls' = calls + 1

(* run_more_(): n new threads, each with a flag; the first takes the guard *)
(* if there is none.                                                       *)
RunMore(n) ==
  \E new \in [1..n -> {w \in Threads : at[w] = "none"}] :
    /\ IsInjective(new)
    /\ threads' = threads \o new
    /\ flags' = flags \o new
    /\ at' = [w \in Threads |-> IF w \in Range(new) THEN "out" ELSE at[w]]
    /\ guard' = IF guard = "none" /\ n > 0 THEN WorkQueue ELSE guard

Start ==
  /\ call \in {"idle", "restart"} /\ ~broken
  /\ started' = TRUE /\ call' = "idle"
  /\ IF started \/ threads # <<>>
     THEN UNCHANGED <<guard, threads, flags, at, deadStart>>
     ELSE RunMore(size) /\ deadStart' = stopped[Active]
  /\ UNCHANGED <<use, runs, broken, mtFlag, size, taskVars, stopped, before, calls, cut>>

(* bique::stop(): not the caller's queue.                                  *)
Stop ==
  /\ call = "idle" /\ ~broken
  /\ call' = "stop"
  /\ stopped' = [stopped EXCEPT !["delayed"] = TRUE, !["asio"] = TRUE]
  /\ before' = {}
  /\ CallsKeep /\ UNCHANGED <<mtFlag, size, taskVars, poolVars, at, calls>>

StopPool ==
  /\ call = "stop"
  /\ call' = "stopjoin" /\ guard' = "none" /\ flags' = <<>>
  /\ CallsKeep /\ UNCHANGED <<mtFlag, size, taskVars, stopped, started, threads, cut, at,
                              before, calls>>

(* bique::reset(): it clears the delayed queue and restarts the other one. *)
ResetQueues ==
  /\ stopped' = [stopped EXCEPT !["delayed"] = FALSE, !["asio"] = FALSE]
  /\ state' = [t \in Tasks |-> IF where[t] = "delayed" /\ state[t] \in {"later", "waiting"}
                               THEN "cleared" ELSE state[t]]

Reset ==
  /\ call = "idle" /\ ~broken
  /\ Count /\ ResetQueues
  /\ CallsKeep /\ UNCHANGED <<mtFlag, size, where, poolVars, at, call, before>>

(* The pool holds its guard, and nothing else keeps it from the queue.     *)
Serving == guard # "none" /\ ~deadStart /\ ~stopped[Active]

(* Variant of Shutdown: the queue is stopped as well.                      *)
ShutdownStopping ==
  /\ call = "idle" /\ ~broken
  /\ guard' = "none"
  /\ stopped' = [stopped EXCEPT !["delayed"] = TRUE, !["asio"] = TRUE]
  /\ before' = IF Serving THEN In(Active) ELSE {}
  /\ CallsKeep /\ UNCHANGED <<mtFlag, size, taskVars, started, threads, flags, cut, at, call,
                              calls>>

Shutdown ==
  /\ call = "idle" /\ ~broken
  /\ guard' = "none"
  /\ before' = IF Serving THEN In(Active) ELSE {}
  /\ CallsKeep /\ UNCHANGED <<mtFlag, size, taskVars, stopped, started, threads, flags, cut,
                              at, call, calls>>

(* wait(): with the guard still held the pool returns at once.             *)
Wait ==
  /\ call = "idle" /\ ~broken
  /\ IF guard # "none" THEN ResetQueues /\ UNCHANGED call
                       ELSE call' = "wait" /\ UNCHANGED <<state, stopped>>
  /\ CallsKeep /\ UNCHANGED <<mtFlag, size, where, poolVars, at, before, calls>>

(* The end of the joins of stop() and wait(), which clears _threads only,  *)
(* and what wait() does next; wait_and_restart() goes on to start().       *)
Joined ==
  /\ call \in {"stopjoin", "wait"}
  /\ \A w \in Range(threads) : at[w] = "ended"
  /\ threads' = <<>> /\ cut' = FALSE /\ started' = FALSE /\ before' = {}
  /\ IF call = "wait" THEN ResetQueues /\ call' \in {"idle", "restart"}
                      ELSE UNCHANGED <<state, stopped>> /\ call' = "idle"
  /\ CallsKeep /\ UNCHANGED <<mtFlag, size, where, guard, flags, at, calls>>

(* task_manager::reconfigure(): the switch first, the pool next.           *)
Reconfigure(n) ==
  /\ call = "idle" /\ ~broken
  /\ use.asio
  /\ Count
  /\ mtFlag' = (n # 0) /\ size' = n
  /\ call' = IF ~started \/ n = Len(threads) THEN "idle"
             ELSE IF n > Len(threads) THEN "grow" ELSE "shrink"
  /\ before' = {}
  /\ CallsKeep /\ UNCHANGED <<taskVars, stopped, poolVars, at>>

Grow ==
  /\ call = "grow"
  /\ IF threads = <<>> THEN ResetQueues ELSE UNCHANGED <<state, stopped>>
  /\ RunMore(size - Len(threads))
  /\ deadStart' = (deadStart \/ stopped'[Active] \/ \E w \in Range(threads) : at[w] = "ended")
  /\ call' = "idle"
  /\ UNCHANGED <<use, runs, broken, mtFlag, size, where, started, cut, before, calls>>

(* resize() keeps the first of both lists, whosever flags those are.       *)
CutLists == /\ threads' = SubSeq(threads, 1, size)
            /\ flags' = SubSeq(flags, 1, size)
            /\ cut' = (size # 0 /\ (cut \/ flags # threads))

(* Variant of Shrink: the guard is not given back with the last thread.    *)
ShrinkKeepingGuard ==
  /\ call = "shrink"
  /\ CutLists /\ UNCHANGED guard
  /\ broken' = (broken \/ ~Exists(Active))
  /\ call' = "idle"
  /\ UNCHANGED <<use, runs, mtFlag, size, taskVars, stopped, started, at, before, calls,
                 deadStart>>

(* The empty handlers that shall wake the threads go to the queue in use.  *)
Shrink ==
  /\ call = "shrink"
  /\ CutLists
  /\ guard' = IF size = 0 THEN "none" ELSE guard
  /\ broken' = (broken \/ ~Exists(Active))
  /\ call' = "idle"
  /\ UNCHANGED <<use, runs, mtFlag, size, taskVars, stopped, started, at, before, calls,
                 deadStart>>

-----------------------------------------------------------------------------
Worker(w) == Enter(w) \/ Take(w) \/ Finish(w) \/ OutOfWork(w) \/ LeaveRun(w) \/ Return(w)

CallGoesOn == StopPool \/ Joined \/ Grow \/ Shrink

Owner == Start \/ Stop \/ Reset \/ Shutdown \/ Wait \/ \E n \in use.sizes : Reconfigure(n)

BqNext == \/ \E t \in Tasks : Post(t) \/ SafePost(t) \/ Expire(t) \/ CallerServes(t)
          \/ \E w \in Threads : Worker(w)
          \/ CallGoesOn \/ Owner

BqSpec == BqInit /\ [][BqNext]_bqVars

-----------------------------------------------------------------------------
(* When wait() after shutdown() returns, everything that was in the queue  *)
(* at the shutdown has run: if the queue was in use and not stopped, no    *)
(* stop() or reconfigure() came in between, and no earlier reconfigure()   *)
(* has cut the lists with old flags in front                               *)
(* (workflow.hpp:213-234, task_manager.cpp:143-155).                       *)
DoneWhenJoined ==
  (call = "wait" /\ call' # "wait" /\ use.asio) => \A t \in before : state[t] = "done"

WaitMeansDone == [][~cut => DoneWhenJoined]_bqVars

(* A call reaches a queue that does not exist only if reconfigure() asked  *)
(* for no threads where the manager has no io_context of a caller.  And as *)
(* long as a pool holds its guard, however often it went to no threads and *)
(* back, every thread that still has its flag serves, and there is such a  *)
(* thread unless reconfigure() has cut the lists with old flags in front.  *)
(* Excepted are a queue that is stopped and a start() or reconfigure()     *)
(* that found it so (bique.cpp:46-56, 150-174, thread_pool_base.cpp:85-156). *)
QueueIsServed ==
  /\ broken => size = 0 /\ ~use.io
  /\ (Serving /\ call = "idle")
       => /\ \A w \in Range(threads) \cap Range(flags) : Alive(w)
          /\ ~cut => Range(threads) \cap Range(flags) # {}

(* start() "may be used to go on working after stop()" (workflow.hpp:187): *)
(* it leaves no stopped queue behind where it has started threads.         *)
StartResumes == ~deadStart

(* The same as WaitMeansDone whatever reconfigure() was called before:     *)
(* wait() "waits until all tasks have ended" after shutdown()              *)
(* (workflow.hpp:226-229).                                                 *)
WaitKeepsItsWord == [][DoneWhenJoined]_bqVars

=============================================================================
