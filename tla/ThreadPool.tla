------------------------------ MODULE ThreadPool ------------------------------
(***************************************************************************)
(* The pool of wflow/task/thread_pool_base.cpp over one queue, of either   *)
(* kind, under the calls that task_manager makes to both.  The queue is    *)
(* what the pool sees of it: how many handlers wait, and whether it is     *)
(* stopped; an asio queue also stops by itself when it is out of work and  *)
(* nobody holds its guard.  That a reconfigure() to no threads also makes  *)
(* bique take another queue is not in this module.                         *)
(*                                                                         *)
(* The calls of the pool hold its mutex from end to end, joins included;   *)
(* the threads never take it.  Clients are threads outside the pool.       *)
(***************************************************************************)
EXTENDS Integers, Sequences, FiniteSets, Functions

CONSTANTS Threads,        (* the threads that may be created, a bound      *)
          Clients,        (* the threads that call the pool                *)
          NoClient,       (* "no client"                                   *)
          Calls,          (* what they may call                            *)
          Sizes,          (* the numbers of threads they ask for           *)
          Mode,           (* what the threads call: run, run_for_ms, run_one *)
          UseAsio,        (* an asio queue, or a delayed one               *)
          HandlersThrow,  (* may handlers throw                            *)
          MaxCalls        (* the bound on posts and resets of clients      *)

AllCalls == {"start", "stop", "shutdown", "wait", "reconfigure", "reset"}
Modes == {"run", "run_for_ms", "run_one"}
Places == {"unborn", "out", "in", "busy", "ret", "ended"}
Steps == {"idle", "stop", "join stop", "join wait", "reset", "grow", "nudge"}

ASSUME ClientsAssumption == NoClient \notin Clients
ASSUME CallsAssumption == Calls \subseteq AllCalls /\ Mode \in Modes
ASSUME SizesAssumption == Sizes \subseteq Nat /\ MaxCalls \in Nat
ASSUME SwitchesAssumption == {UseAsio, HandlersThrow} \subseteq BOOLEAN

VARIABLES
  threads,    (* _threads                                                  *)
  flags,      (* _flags, each named by the thread it was made for          *)
  detached,   (* the threads that were detached                            *)
  started,    (* _started                                                  *)
  work,       (* _work # nullptr                                           *)
  mutex,      (* the client that holds _mutex                              *)
  at,         (* where each client stands in its call                      *)
  todo,       (* what the call still has to create, or to post             *)
  pc,         (* where each thread stands                                  *)
  pending,    (* how many handlers wait in the queue                       *)
  stopped,    (* stopped() of the queue                                    *)
  calls       (* the posts and resets so far                               *)

poolVars  == <<threads, flags, detached, started, work>>
callVars  == <<mutex, at, todo>>
queueVars == <<pending, stopped>>
vars == <<threads, flags, detached, started, work, mutex, at, todo, pc, pending,
          stopped, calls>>

TypeOK ==
  /\ threads \in Seq(Threads) /\ flags \in Seq(Threads)
  /\ detached \subseteq Threads
  /\ {started, work, stopped} \subseteq BOOLEAN
  /\ mutex \in Clients \cup {NoClient}
  /\ at \in [Clients -> Steps]
  /\ todo \in Nat /\ pending \in Nat /\ calls \in 0..MaxCalls
  /\ pc \in [Threads -> Places]

Init ==
  /\ threads = <<>> /\ flags = <<>> /\ detached = {}
  /\ started = FALSE /\ work = FALSE /\ stopped = FALSE
  /\ mutex = NoClient
  /\ at = [c \in Clients |-> "idle"]
  /\ todo = 0 /\ pending = 0 /\ calls = 0
  /\ pc = [t \in Threads |-> "unborn"]

-----------------------------------------------------------------------------
(* The queue.                                                              *)

BusyOnes(p) == {t \in Threads : p[t] = "busy"}

(* An io_context without outstanding work.                                 *)
OutOfWork(n, p, guard) == UseAsio /\ ~guard /\ n = 0 /\ BusyOnes(p) = {}

Post ==
  /\ calls < MaxCalls
  /\ calls' = calls + 1
  /\ pending' = pending + 1
  /\ UNCHANGED <<poolVars, callVars, pc, stopped>>

(* reset() of the queue: the delayed one also loses its handlers.          *)
QueueReset == /\ stopped' = FALSE
              /\ pending' = IF UseAsio THEN pending ELSE 0

-----------------------------------------------------------------------------
(* A thread.                                                               *)

Goto(t, l) == pc' = [pc EXCEPT ![t] = l]

ThreadKeeps == UNCHANGED <<poolVars, callVars, calls>>

Enter(t) ==
  /\ pc[t] = "out"
  /\ stopped' = (stopped \/ OutOfWork(pending, pc, work))
  /\ Goto(t, IF stopped' THEN "ret" ELSE "in")
  /\ ThreadKeeps /\ UNCHANGED pending

Take(t) ==
  /\ pc[t] = "in"
  /\ ~stopped
  /\ pending > 0
  /\ pending' = pending - 1
  /\ Goto(t, "busy")
  /\ ThreadKeeps /\ UNCHANGED stopped

(* The queue is stopped, or the milliseconds pass with nothing to do.      *)
Leave(t) ==
  /\ pc[t] = "in"
  /\ stopped \/ (Mode = "run_for_ms" /\ pending = 0)
  /\ Goto(t, "ret")
  /\ ThreadKeeps /\ UNCHANGED queueVars

HandlerEnds(t, l) ==
  /\ pc[t] = "busy"
  /\ Goto(t, l)
  /\ stopped' = (stopped \/ OutOfWork(pending, pc', work))
  /\ ThreadKeeps /\ UNCHANGED pending

Finish(t) == \/ Mode # "run_one" /\ HandlerEnds(t, "in")
             \/ Mode # "run" /\ HandlerEnds(t, "ret")

(* The exception leaves the loop of the thread.                            *)
Throw(t) == HandlersThrow /\ HandlerEnds(t, "ended")

(* Variant of Return: the flag is not looked at.                           *)
ReturnUnflagged(t) ==
  /\ pc[t] = "ret"
  /\ Goto(t, IF stopped THEN "ended" ELSE "out")
  /\ ThreadKeeps /\ UNCHANGED queueVars

(* if ( s->stopped() ) break; if ( wflag.lock() == nullptr ) break;        *)
Return(t) ==
  /\ pc[t] = "ret"
  /\ Goto(t, IF stopped \/ t \notin Range(flags) THEN "ended" ELSE "out")
  /\ ThreadKeeps /\ UNCHANGED queueVars

-----------------------------------------------------------------------------
(* The calls.                                                              *)

Unlocked == mutex = NoClient

Step(c, from, to) == at[c] = from /\ at' = [at EXCEPT ![c] = to]

(* Under the mutex all through, and back in the same step.                 *)
AtOnce(c, call) == /\ call \in Calls
                   /\ at[c] = "idle"
                   /\ Unlocked
                   /\ UNCHANGED <<callVars, calls>>

(* The mutex is taken and kept.                                            *)
Lock(c, from, to) == Step(c, from, to) /\ Unlocked /\ mutex' = c /\ UNCHANGED calls

Unlock(c, from, to) == /\ Step(c, from, to)
                       /\ mutex' = NoClient
                       /\ todo' = 0
                       /\ UNCHANGED calls

(* _work = nullptr                                                         *)
DropWork == /\ work' = FALSE
            /\ stopped' = (stopped \/ (work /\ OutOfWork(pending, pc, FALSE)))

Unborn == {t \in Threads : pc[t] = "unborn"}

(* Variant of RunMore: no flags.                                           *)
RunMoreUnflagged(n) ==
  \E new \in [1..n -> Unborn] :
    /\ IsInjective(new)
    /\ threads' = threads \o new /\ UNCHANGED flags
    /\ work' = (work \/ n > 0)
    /\ pc' = [t \in Threads |-> IF t \in Range(new) THEN "out" ELSE pc[t]]

(* run_more_(): n threads, each with a flag, and the guard.                *)
RunMore(n) ==
  \E new \in [1..n -> Unborn] :
    /\ IsInjective(new)
    /\ threads' = threads \o new
    /\ flags' = flags \o new
    /\ work' = (work \/ n > 0)
    /\ pc' = [t \in Threads |-> IF t \in Range(new) THEN "out" ELSE pc[t]]

Start(c, n) ==
  /\ AtOnce(c, "start")
  /\ ~started
  /\ started' = TRUE
  /\ IF threads = <<>> THEN RunMore(n) ELSE UNCHANGED <<threads, flags, work, pc>>
  /\ UNCHANGED <<detached, queueVars>>

(* task_manager::stop() stops the queue, then the pool.                    *)
QueueStop(c) ==
  /\ "stop" \in Calls
  /\ Step(c, "idle", "stop")
  /\ stopped' = TRUE
  /\ UNCHANGED <<poolVars, mutex, todo, pc, pending, calls>>

Stop(c) ==
  /\ Lock(c, "stop", "join stop")
  /\ flags' = <<>>
  /\ DropWork
  /\ UNCHANGED <<threads, detached, started, todo, pc, pending>>

Shutdown(c) ==
  /\ AtOnce(c, "shutdown")
  /\ DropWork
  /\ UNCHANGED <<threads, flags, detached, started, pc, pending>>

(* Variant of Wait: the guard is not looked at.                            *)
WaitAnyway(c) ==
  /\ "wait" \in Calls
  /\ Lock(c, "idle", "join wait")
  /\ UNCHANGED <<poolVars, todo, pc, queueVars>>

(* wait() joins only after a shutdown; task_manager::wait() then resets.   *)
Wait(c) ==
  /\ "wait" \in Calls
  /\ IF work THEN /\ Unlocked
                  /\ Step(c, "idle", "reset")
                  /\ UNCHANGED <<mutex, calls>>
             ELSE Lock(c, "idle", "join wait")
  /\ UNCHANGED <<poolVars, todo, pc, queueVars>>

(* All the threads of the pool have ended: they are forgotten, the flags   *)
(* only by stop().                                                         *)
Join(c) ==
  /\ \/ Unlock(c, "join stop", "idle")
     \/ Unlock(c, "join wait", "reset")
  /\ \A t \in Range(threads) : pc[t] = "ended"
  /\ threads' = <<>>
  /\ started' = FALSE
  /\ UNCHANGED <<flags, detached, work, pc, queueVars>>

ResetAfterWait(c) ==
  /\ Step(c, "reset", "idle")
  /\ QueueReset
  /\ UNCHANGED <<poolVars, mutex, todo, pc, calls>>

Reset(c) ==
  /\ "reset" \in Calls
  /\ at[c] = "idle"
  /\ calls < MaxCalls
  /\ calls' = calls + 1
  /\ QueueReset
  /\ UNCHANGED <<poolVars, callVars, pc>>

(* task_manager refuses a delayed queue, the pool one that is not started. *)
Reconfigurable == "reconfigure" \in Calls /\ UseAsio /\ started

(* reconfigure() to more threads; from none, the queue is reset first.     *)
Grow(c, n) ==
  /\ Reconfigurable
  /\ n > Len(threads)
  /\ n <= Len(threads) + Cardinality(Unborn)   (* the bound *)
  /\ Lock(c, "idle", "grow")
  /\ todo' = n - Len(threads)
  /\ IF threads = <<>> THEN QueueReset ELSE UNCHANGED queueVars
  /\ UNCHANGED <<poolVars, pc>>

Grown(c) ==
  /\ Unlock(c, "grow", "idle")
  /\ RunMore(todo)
  /\ UNCHANGED <<detached, started, queueVars>>

(* Variants of Shrink: the flags are left; the guard is left; the first    *)
(* surplus thread is not detached.                                         *)
ShrinkKeepingFlags(c, n) ==
  /\ Reconfigurable
  /\ n < Len(threads)
  /\ Lock(c, "idle", "nudge")
  /\ todo' = 2 * Len(threads)
  /\ detached' = detached \cup {threads[i] : i \in (n + 1)..Len(threads)}
  /\ threads' = SubSeq(threads, 1, n)
  /\ IF n = 0 THEN DropWork ELSE UNCHANGED <<work, stopped>>
  /\ UNCHANGED <<flags, started, pc, pending>>

ShrinkKeepingWork(c, n) ==
  /\ Reconfigurable
  /\ n < Len(threads)
  /\ Lock(c, "idle", "nudge")
  /\ todo' = 2 * Len(threads)
  /\ detached' = detached \cup {threads[i] : i \in (n + 1)..Len(threads)}
  /\ threads' = SubSeq(threads, 1, n)
  /\ flags' = SubSeq(flags, 1, n)
  /\ UNCHANGED <<work, stopped, started, pc, pending>>

ShrinkDetachingLess(c, n) ==
  /\ Reconfigurable
  /\ n < Len(threads)
  /\ Lock(c, "idle", "nudge")
  /\ todo' = 2 * Len(threads)
  /\ detached' = detached \cup {threads[i] : i \in (n + 2)..Len(threads)}
  /\ threads' = SubSeq(threads, 1, n)
  /\ flags' = SubSeq(flags, 1, n)
  /\ IF n = 0 THEN DropWork ELSE UNCHANGED <<work, stopped>>
  /\ UNCHANGED <<started, pc, pending>>

(* reconfigure() to fewer: the surplus is detached and loses its flags;    *)
(* resize() keeps the first n of both lists.                               *)
Shrink(c, n) ==
  /\ Reconfigurable
  /\ n < Len(threads)
  /\ Lock(c, "idle", "nudge")
  /\ todo' = 2 * Len(threads)
  /\ detached' = detached \cup {threads[i] : i \in (n + 1)..Len(threads)}
  /\ threads' = SubSeq(threads, 1, n)
  /\ flags' = SubSeq(flags, 1, n)
  /\ IF n = 0 THEN DropWork ELSE UNCHANGED <<work, stopped>>
  /\ UNCHANGED <<started, pc, pending>>

(* Variant of Nudge: the loop does not end.                                *)
NudgeOnceMore(c) ==
  /\ Step(c, "nudge", "nudge")
  /\ todo' = todo - 1
  /\ pending' = pending + 1
  /\ UNCHANGED <<poolVars, mutex, pc, stopped, calls>>

(* Two empty handlers for each thread there was, to let them come round.   *)
Nudge(c) ==
  /\ Step(c, "nudge", "nudge")
  /\ todo > 0
  /\ todo' = todo - 1
  /\ pending' = pending + 1
  /\ UNCHANGED <<poolVars, mutex, pc, stopped, calls>>

Nudged(c) ==
  /\ todo = 0
  /\ Unlock(c, "nudge", "idle")
  /\ UNCHANGED <<poolVars, pc, queueVars>>

-----------------------------------------------------------------------------
Call(c) == \/ QueueStop(c) \/ Shutdown(c) \/ Wait(c) \/ Reset(c)
           \/ \E n \in Sizes : Start(c, n) \/ Grow(c, n) \/ Shrink(c, n)

CallGoesOn(c) == Stop(c) \/ Join(c) \/ ResetAfterWait(c) \/ Grown(c) \/ Nudge(c)
                 \/ Nudged(c)

Serve(t) == Enter(t) \/ Take(t) \/ Leave(t) \/ Finish(t) \/ Return(t)

Next == \/ Post
        \/ \E c \in Clients : Call(c) \/ CallGoesOn(c)
        \/ \E t \in Threads : Serve(t) \/ Throw(t)

Spec == Init /\ [][Next]_vars

(* A thread goes on, a handler returns, a call that has begun goes on.     *)
FairSpec == /\ Spec
            /\ \A c \in Clients : WF_vars(CallGoesOn(c))
            /\ \A t \in Threads : WF_vars(Serve(t))

-----------------------------------------------------------------------------
(* The guard is held only while there are threads to let go when it goes,  *)
(* so a pool that wait() finds at work is one whose threads can be joined  *)
(* after a shutdown(); and a pool that is not started has none.            *)
PoolShape == /\ work => threads # <<>>
             /\ ~started => threads = <<>>

Alive(t) == pc[t] \notin {"unborn", "ended"}

(* Every thread that runs is in _threads or was detached: none is dropped  *)
(* while it could still be joined, which would end the program.            *)
NoneDropped ==
  \A t \in Threads : Alive(t) => t \in Range(threads) \/ t \in detached

(* A detached thread has lost its flag, wherever in the list that was.     *)
SurplusDismissed == detached \cap Range(flags) = {}

(* The flags are those of the threads, in their order, unless wait() has   *)
(* left the flag of a thread it joined in front of them (or stop() is      *)
(* still joining).                                                         *)
FlagsMatch ==
  \/ flags = threads
  \/ flags # <<>> /\ Head(flags) \notin Range(threads)
  \/ \E c \in Clients : at[c] = "join stop"

(* Under FairSpec, with an asio queue: stop(), and wait() after a          *)
(* shutdown(), return, whatever other clients call meanwhile.              *)
Joining(c) == at[c] \in {"join stop", "join wait"}

JoinReturns == \A c \in Clients : Joining(c) ~> ~Joining(c)

(* Under FairSpec, where run_for_ms() or run_one() lets threads look at    *)
(* their flags: the surplus threads of a reconfigure() end.                *)
SurplusEnds == \A t \in Threads : t \in detached ~> pc[t] = "ended"

(* What workflow.hpp says of wait_and_restart() and reconfigure(): the work *)
(* goes on, with another number of threads.  So a thread that is kept does *)
(* not end as long as the queue is not stopped.                            *)
KeptThreadsServe ==
  [][\A t \in Range(threads) : pc[t] = "ret" /\ pc'[t] = "ended" => stopped]_vars
===============================================================================
