# A TLA+ verification of wflow

wflow is a C++ task queue.  Handlers are posted, at once or for a later time
point; a pool of threads runs them; timers, rate limiting and life-time tracking
are built on top.  This directory holds TLA+ modules for its parts, the TLC
configurations that check them on small instances, and TLAPS proofs of what holds
for every instance.  Paths below are relative to the source tree; line numbers
are those of the modelled commit, and `PROJECT.json` maps every definition to
the lines it stands for.

Contents: [1 The system](#1-the-system) - [2 Hazards](#2-hazards) -
[3 The modules](#3-the-modules) - [4 What the runs show](#4-what-the-runs-show) -
[5 Fairness](#5-fairness) - [6 Proofs](#6-proofs) -
[7 What is not modelled](#7-what-is-not-modelled) - [8 Plan](#8-plan) -
[9 Running it](#9-running-it)

## 1 The system

    workflow ──► task_manager ──► bique ──► delayed_queue   (mutex + condition variable)
        │             │             └─────► asio_queue      (io_context + atomics), once or twice
        │             ├──► thread_pool: N threads in  queue->run()  or  run_one()
        │             └──► timer_manager ──► timer handlers ──► safe_post_at on the queue
        └── owner / callback_handler around what a client posts

A client calls `workflow`; it forwards to the task manager, which posts to one of
the queues through the switch `bique`.  The threads of the pool call the queue,
which calls the handlers back; handlers post again, and every timer is a chain
of handlers that post their own next run.  The parts meet in shared state: the
queues under a mutex (`delayed_queue`) or in atomics (`asio_queue`), the flags of
the pool, the map of timers, the alive mark of an owner.

| component | state | operations | what is hard | what makes it correct | modules |
|---|---|---|---|---|---|
| delayed queue (`queue/delayed_queue.*`) | `_que`, `_delayed_que`, `_loop_exit`, `_counter`, `_safe_counter`, `_drop_count`, `_maxsize`, mutex, condition variable | `post`, `post_at`, `delayed_post` and the `safe_` ones, `run`, `run_one`, `poll_one` and the `_for_ms` ones, `stop`, `reset`, `set_maxsize` | several workers poll and sleep; three ways to wait; the wrapper counts outside the lock; `reset` takes none | each handler is in one place and runs once, never early; a sleeping pool means nothing to do; the counters and the limit are right; everything is served, a stop ends everybody | `DelayedQueue` |
| asio queue (`queue/asio_queue.*`) | atomics `_counter`, `_safe_counter`, `_drop_count`, `_maxsize`; the handlers and timers are in the io_context | the same | a post is three steps without a lock; wrappers outlive the queue; the io_context stops by itself when it runs out of work | the counters are right, the limit is passed by a bounded amount; a shutdown loses nothing and ends | `AsioQueue` |
| switch (`queue/bique.*`) | which of three queues is in use | forwarding, `reconfigure`, `reset`, `stop` | `reset` and `stop` reach only two of the three | the guard, the posts and the threads agree on the queue | `Bique` |
| thread pool (`task/thread_pool_base.*`) | `_threads`, `_flags`, `_work`, `_started`, mutex | `start`, `stop`, `shutdown`, `wait`, `reconfigure` | joins under the mutex; a thread looks at its flag only between two calls of `run` | the number of threads converges to the one asked for; stop and wait end | `ThreadPool` |
| task manager (`task/task_manager.*`) | `_can_drop`, `_wait_reset`, rate window | posts with a rate limit, `reconfigure`, `start`, `stop`, `reset`, `shutdown`, `wait` | the window is read and written in separate atomic steps; a full queue may be reset from inside a post | no more than the limit per window; one overflow resets once; a wait means that the work is done | `TaskManager`, `Bique` |
| timers (`timer/*`) | `_id_map` of flags, the chain of posts of each timer | `create`, `release`, `detach`, `reset`, the handlers' answers | the next run is posted before or after the handler; answers come late, twice or never | one chain per timer; a released timer stops; a refusal is obeyed | `Timers`, `Schedule` |
| requester (`timer/requester.hpp`) | one callback to the timer | send, answer, drop | an answer and a refusal for one request | the timer is answered at most once | `Requester` |
| time parser (`timer/private/time_parser.cpp`, `croncpp/croncpp.h`) | none | `make_time_point`, `make_cron`, `cron_next` | UTC day against local day; a search that carries from field to field | the first second that the string stands for | `TimeParser`, `Cron` |
| owner, callbacks (`owner/*`) | weak alive mark, tracking map, per-callback flag | `wrap`, `callback`, `tracking`, `reset` | concurrent double calls and destructions | no call after the owner has gone; a callback ends in one call or one report | `Owner` |
| rwlock, spinlock (`mutex/*`) | `_readers`, `_writer`, mutex, two condition variables | `lock`, `unlock`, `lock_r`, `unlock_r` | readers and writers wait on each other | exclusion; no waiter sleeps through its turn | `RWLock` |
| workflow (`workflow.*`) | options, warning timer | forwarding, `reconfigure`, `wait_and_restart` | an id of one manager used with another | one warning timer at a time | `Workflow`, `Schedule` |
| json options, logger, system wrappers | none | conversion, macros | - | - | none |

## 2 Hazards

`PROJECT.json` lists them one by one, each at its line, with the property that
covers it or the reason that none does.  The groups are:

* **lost wakeups** around the condition variables of the delayed queue and of the
  rwlock (a post, a stop or a new earliest time point between a worker's look and
  its wait; a reader or a writer that sleeps on beside a free lock);
* **one handler, two places or none**, since polls of several workers move
  delayed handlers to the ready ones while others take them;
* **counters kept by several threads**, in the lock-free queue without any lock,
  the limit tested before the counter is changed, the rate window in four
  separate reads and writes;
* **stop, shutdown, wait, reset, start, reconfigure** in orders nobody wrote a
  test for, with up to three queues behind one switch;
* **a callback under a mutex** (drop handlers, joins inside `stop`);
* **answers of timers and requesters** that come late, twice or after the end;
* **stale state**: flags, ids and raw pointers that outlive what they refer to,
  a handler called after its owner let go of it;
* **boundaries of the calendar**: the day of UTC and the local one, fields that
  carry into the next month or year, a loop counter of eight bits.

## 3 The modules

    TaskQueue                            what either queue promises
       ▲ refines          ▲ refines
    DelayedQueue        AsioQueue        one component each
       ▲                   ▲ ◄── AsioShutdown   a history variable for its run
    DelayedQueueProofs  AsioQueueProofs

    ThreadPool ◄── ThreadPoolProofs      the pool over what it sees of a queue
    Bique ◄── Workflow ◄── WorkflowProofs   the switch and the calls of the manager; the facade
    TaskManager ◄── TaskManagerProofs    its posts
    Timers ◄── Requester ◄── TimersProofs   (Requester implements Timers)
    RWLock ◄── Owner ◄── OwnerProofs     (each step of Owner is one of RWLock's or none)
    TimeParser, Cron ◄── Schedule ◄── ScheduleProofs   strings with times

Arrows are EXTENDS, read from right to left; each component with a run has a
module `MC...` that extends it.  The queue modules say what a queue does;
`TaskManager`, `Timers`, `Bique` and `ThreadPool` rely on no more of it than
`TaskQueue` and the liveness of the queues' runs promise, so that each of them
can be checked with the interleavings that belong to it.

### TaskQueue

The abstract specification: a task is `fresh`, then `pending` or `refused`; a
pending one is started at most once and not before its time point `due`, or is
discarded; a started one finishes.  There are no threads, queues or counters.
Both queue modules are shown to implement it (`ImplementsTaskQueue`), by TLC and
by proof.

### DelayedQueue

| TLA+ | C++ |
|---|---|
| `que`, `dque`, `due` | `_que`, `_delayed_que` and the time point of each entry; the heap is a set, since `queue_cmp` orders by time only and equal time points come out in any order |
| `kind`, `fate` | nothing: how a task was posted and what became of it |
| `counter`, `safeCounter`, `maxsize`, `dropCount`, `loopExit` | the members of these names |
| `cur[w]`, `pc[w]`, `deadline[w]` | the handler a thread has taken, the place it stands at, the time until which it sleeps |
| `lock` | `_mutex` while a drop handler runs under it; elsewhere a critical section is one step |
| `ctl` | the place of the thread inside `reset()`, which takes no mutex |

A worker is one thread of the pool with the loop of
`thread_pool_base::create_thread_` around it: `out` (about to call the queue),
`check` (`while (!_loop_exit)`), `poll` (`poll_one_`), `popped` (has a handler
and has left the mutex), `running`, `wait` (about to take the mutex in
`run_wait_`), `asleep`, `awake` (notified, waits for the mutex), `ret`, `done`.
`Mode` says which function it calls: `run()` without statistics, `run_one()`
with, `poll_one()` for a client's own loop.  The `_for_ms` functions of this
queue are `run` and `run_one` in the code too.

Steps are cut where the code lets another thread in: `PollOne` is one critical
section (at most one due handler moves, then the first ready one is taken),
`CountOut` is the wrapper's decrement outside it, `RunWait` decides under the
mutex whether and how long to sleep, `NotifyOne` picks any sleeper, and both
waits may time out or wake spuriously.  `reset()` is one step per test and per
`pop()`, and popping an empty queue sets `ctl` to `corrupt`.

Two switches name what a client may do.  `ConcurrentReset` is FALSE where
`reset()` is called with the threads joined, as in `task_manager::wait()` after a
shutdown; TRUE lets it run beside them.  `DropReposts` says whether drop handlers
post to the queue that called them.

### AsioQueue

The queue wraps a `boost::asio::io_context`, which is external: `ready`,
`timers`, `stopped` and `guard` (its work guard, held by the pool) are what the
queue relies on.  A post is `Offer` (with the test of the limit for unsafe ones,
the increment for safe ones), `CountIn` (`++_counter`, unsafe only) and
`HandOver` (`asio::post`, or a timer that waits): other threads come in between,
up to `Callers` of them at once.  `CountOut` and `FindNoQueue` are the wrapper
that locks its `weak_ptr` to the queue; `Destroy` is the last `shared_ptr` going.
`WrapperReturns`, `Enter` and `DropGuard` let the io_context stop by itself when
nothing is left, which is how `shutdown()` ends the threads.  A worker in
`run_for_ms()` may leave when it finds nothing ready; `run_one_for_ms()` differs
from `poll_one()` only in how long it waits and is that mode.  `Reset` is allowed
only when no thread is in `run()`, the precondition of `restart()`.

`AsioShutdown` adds the history variable `halted`, whether `stop()` has been called
since the last `reset()`.  It tells an io_context that its owner has stopped from
one that ran out of work, which is what `ShutdownLosesNothing` is about.

### ThreadPool

| TLA+ | C++ |
|---|---|
| `threads`, `flags` | `_threads` and `_flags`, a flag named by the thread it was made for; a thread holds only a `weak_ptr` to its flag, so being out of the list is being destroyed |
| `detached` | the threads on which `detach()` was called |
| `started`, `work`, `mutex` | `_started`, `_work != nullptr`, who holds `_mutex` |
| `at[c]`, `todo` | where a client stands in a call of more than one step, and how many threads or empty handlers are still to come |
| `pc[t]` | `unborn`, `out` (about to call the queue), `in`, `busy`, `ret` (about to look at `stopped()` and its flag), `ended` |
| `pending`, `stopped` | how many handlers wait in the queue, and its `stopped()` |

The queue is kept as small as the pool sees it, and is of either kind
(`UseAsio`): an asio queue stops by itself when nothing waits or runs and nobody
holds the guard (`OutOfWork`), a delayed one never does, and only the latter
forgets its handlers in `reset()`.  Clients are threads outside the pool, which
call it as `task_manager` does: `QueueStop` comes before `Stop`,
`ResetAfterWait` after `Wait` and `Join`.

All calls hold the mutex from end to end.  Those that cannot wait are one step
(`Start`, `Shutdown`); the others keep it over several: `Stop` and `Wait` up to
`Join`, which waits for all the threads of the list at once, since nothing else
of the call lies between one join and the next; `Grow` from the `reset()` of the
queue to `Grown`, where the new threads begin to run; `Shrink` over the empty
handlers it posts, one step each (`Nudge`, `Nudged`).  A thread reads the flag
without the mutex (`Return`).  A handler that throws ends its thread (`Throw`).

### TaskManager

One post is many steps, one for each atomic that `post()` reads or writes:
`enter`, `look` and the following places of `pc` are the lines of the rate limit
(task_manager.cpp:281-315), `offer` is the queue's `post`, `failed` to `clear` the
reset of a queue that overflows (193-217), `defer` the post put off by a second.
`_start_interval` is read twice (`Look`, `Span`), and another thread may have
written to it in between.  Several posters, and a thread in `reconfigure()`
(`Admin`), take these steps in any order.  Times are relative and saturate: an age
counts up to just over a second, a delay down to zero.  `_wait_reset` has no
initial value in the code, and either one in `Init`; `_reset_count`, a
`shared_ptr` that is read and replaced without synchronisation, is taken as
atomic, the outcome most kind to the code.  A division by zero ends a task in
`crashed`, a call of an empty drop handler in `threw`.  `use` fixes, for a
behaviour, which limits and options a program uses, how many threads post and how
much.

Three variables are history and guard nothing: `passed[t]`, how long ago the
limit let a task through; `left`, whether a task has left the queue since it last
refused one; `progress`, whether one has left since the refusal that led to the
latest reset.  `ResetAfterProgress` counts from the refusal and not from the
reset because a worker may take a task between the two: the next post then
succeeds and clears `_wait_reset`, the one after is refused, and a second reset
follows although nothing was served since the first.

### Bique and Workflow

`Bique` has the three queues as sets of tasks with a flag `stopped` each, and the
calls of the owner through `task_manager`: `where` a task was posted, which queue
the pool's `guard` holds, and which one a thread is in may all differ, since each
call goes to the queue in use at that moment.  `threads` and `flags` are the two
lists of the pool, as in `ThreadPool`: `wait()` clears the first (`Joined`),
`stop()` both (`StopPool`, `Joined`), `reconfigure()` cuts both to one length
(`CutLists`), and a thread ends when it comes round and finds its flag gone
(`Return`).  `cut` is history: a `reconfigure()` has cut the lists while flags of an
earlier `wait()` stood in front, so that a thread it keeps may have lost its flag.
It is TRUE until the list of threads is empty again, and two properties leave that
case out.  `Workflow` adds what `workflow.cpp` does around these calls: the warning timer, the manager that it
was created in (that of the workflow itself, or of a control workflow), the ids
in either manager's map, and `wait_and_restart`.  `use` fixes how the workflow
was made: with `use_asio`, with an io_context of the caller, with a
`post_delay_ms`, with which numbers of threads.

### Timers and Requester

| TLA+ | C++ |
|---|---|
| `idMap`, `handles` | `_id_map`, and the flags that clients got from `detach()`: a flag lives while one of these, or a run that has locked it, holds it |
| `flag` | its value; FALSE suspends the timer |
| `stage[r]` | a run of a timer: `queued`, `locked` (has locked the flag), `called` (in the client's handler), `leaving` |
| `next`, `go` | the `pres` flag that a run with `expires_at::before` shares with the run it posted, and its value |
| `owed` | the callbacks that asynchronous handlers still have |
| `refused`, `late` | history: who said no, and whether the next run had begun by then |

A timer has no thread and no object.  A posted run is taken at some later time, in
any order with others, and may begin while an older one is still in its handler.
The queue may be reset, which destroys what waits in it (`ClearQueue`,
`Discarded`), or go (`DestroyQueue`).  `Requester` is an asynchronous handler
built on it: it sends a request, and each response is followed by the next request
from a handler of its own; only the end of the sequence tells the timer.  It
implements the specification of `Timers` (`IsAsyncHandler`), that is, it keeps the
contract of an asynchronous handler.

### RWLock and Owner

`RWLock` has the two counters and, for each thread, where it is: `wantR`, `wantW`
(about to take the mutex), `sleepR`, `sleepW` (in one of the two condition
variables), `reads`, `writes`.  `notify_all` wakes all sleepers of a kind, and
any sleeper may wake by itself.  `Owner` runs on top of it: what an operation
does to the owner's data is one step together with its unlock, while its tests of
`_tracking_flag` come before the lock, as in the code, a step apart from what
follows: `enable_tracking()` is the test (`TestTracking`) and the store
(`EnableTracking`), with other threads between.  The `shared_ptr<int>`s of
`_alive` and of the tracking map are numbered tokens; a wrapped handler remembers
one, and a call is possible while somebody still holds it.  A callback's copies
share `CallbackRecord`; the destructor of a copy is two steps, the look at
`use_count()` and the end.

### TimeParser, Cron and Schedule

`TimeParser` is the arithmetic of `make_time`.  `Cron` is `croncpp.h` from the
items of an expression on: ranges, lists and steps with the eight-bit arithmetic
of `cron_int`, and the search `cron_next` over broken-down times, with `mktime` as
an operator that carries.  A `find_next()` that calls itself for the rest of the
search is a stack of calls, each with the field it is at and the fields it has
marked: `SearchStep` takes one field of the innermost call, and `findNext` takes
such steps until no call is left.  The loops over bits and over days are written
as the value they stop at (`stepFrom`, `findNextDay`).  What an expression *means*
is said apart from all this, by `Meaning` and `IsNextMatch`.  The sizes of the
fields are constants, so that a small calendar can be searched completely.
`Schedule` is what `workflow` makes of a string: a post, a timer with a start, a
timer with a schedule.

### The other modules

Each `MC` module defines the small sets and the symmetry of its instances.  The
modules of proofs are described in section 6.  A definition marked "variant" in a
comment is no part of the specification: it is the defective form of a neighbour
(a dropped guard, a forgotten notification, an off-by-one) and serves to see that
a property notices it.

## 4 What the runs show

| run | instance | shows |
|---|---|---|
| `dq_safety` | 3 tasks, `run` and `run_one`, limits 1 and 2 | `OnePlace`, `NotEarly`, `Accounting`, `UnsafeBound`, `NoLostWakeup` and the types |
| `dq_service` | 2 tasks, `run` and `poll_one`, limit 1, 3 instants, fair | the queue implements `TaskQueue`; accepted tasks are taken (`TaskServed`); a thread that is awake when the queue stops ends (`StoppedWorkersEnd`) |
| `dq_stop` | 1 task, both in `run`, fair | *violated*: `StopEndsEveryWorker` |
| `aq_safety` | 3 tasks, 2 callers at once, `run_for_ms` and `poll_one`, limit 1 | `Accounting`, `Overshoot` |
| `aq_service` | 2 tasks, `run` and `run_one`, fair | the queue implements `TaskQueue`; what comes to an io_context with threads in it is finished, whenever the guard is dropped, unless `stop()` is called (`ShutdownLosesNothing`); accepted tasks are taken; `shutdown()` ends the threads (`ShutdownEnds`) |
| `tp_pool` | 2 threads, 2 clients, every call, sizes 0 to 2, handlers that throw, `run_for_ms`, asio, fair | `PoolShape`, `NoneDropped`, `SurplusDismissed`, `FlagsMatch` and the types; a join returns (`JoinReturns`); surplus threads end (`SurplusEnds`) |
| `timers` | 1 timer, 3 runs at once, 2 threads, every kind of handler, both `expires_at`, a queue that may be reset or go, fair | one chain per timer (`OneChain`); a flag let go is gone (`CutIsFinal`); a timely refusal ends the timer (`RefusalObeyed`); a requester is an asynchronous handler (`IsAsyncHandler`); a timer whose chain goes on is called again and again (`TimerGoesOn`) |
| `taskmgr` | up to 4 tasks, limit 1, a queue of 1; four uses: limited (3 tasks), reset (4), switched (2), two posters (2); fair | one poster passes at most twice the limit in a second (`RateKept`); a reset queue is not reset again unless something has left it since the refusal that led to that reset (`ResetAfterProgress`); a division by zero needs a limit taken away (`CrashNeedsSwitch`); every post ends (`PostsEnd`) |
| `workflow` | 2 tasks, 3 threads, 2 calls of `reset` and `reconfigure`; made over asio, over the delayed queue, on an io_context of the caller, with a warning timer | as long as the pool holds its guard, every thread with a flag serves, and there is one unless the lists were cut with old flags in front; a missing queue is reached in one way only (`QueueIsServed`); a wait after a shutdown means that the work is done, with the same exception (`WaitMeansDone`); one warning timer (`OneWarning`) |
| `owner` | 3 threads, 2 handlers, 1 id, 3 copies of a callback, 3 tokens | the lock excludes (`Exclusion`) and forgets no sleeper (`NobodyForgotten`); what is cut off stays so (`CutOff`); a callback ends in one call or one report (`CallbackSettled`) |
| `strings` | every second of a year of 66 seconds, 51 schedules, all times of day, 3 time zones, runs up to a second late | `TimeOfDayKept`, `ScheduleKept` |
| `sched_zone` | a year of 44 seconds, all times of day, 3 time zones | *violated*: `PostedInTime` |

TLC checks for deadlock except in `timers`, `workflow`, `owner` and the strings:
there the environment really may stop calling.

### The bounds

*Queues.*  The clock has two instants (`MaxTime` = 1): a handler is then at once,
due now, or due later, and a sleeper may have set a later alarm than the one
needed.  `dq_service` has three, so that two delayed handlers may both lie ahead
and come due one after the other.  Two workers are the least with which one
sleeps while the other is busy, two tasks the least with which one overtakes the
other, three the least with which a limit of two is met by a mix of safe and
unsafe ones.  Every task is posted at most once: a longer history of a queue
differs from a shorter one only in its counters, which the proofs cover.

*Pool.*  The bounds are `Threads`, all that are ever created, and `MaxCalls`, the
posts and resets of clients; the calls of the pool itself are not counted, for
they only go round in its states.  Two clients are the least with which one calls
while another joins, two threads the least of which a `reconfigure()` keeps one.
What more threads could change in the lists is covered by the proofs.

*Timers.*  Three runs of one timer may be posted or under way at once: a slow
handler, the next run beside it and, with `expires_at::before`, the one after.
Timers share nothing but the map, and the proofs are for any number.

*Task manager.*  A limit of one and a second of one tick: an interval is then
full, begins anew or lies in the past within two ticks.  Two posters are the
least with which one acts on a window the other has just replaced; the `Switched`
use adds a thread in `reconfigure()`.  With a queue of one, four tasks are the
least of which one waits, one is refused and leads to a reset, one fills the queue
again and one is refused after that.

*Workflow.*  Two calls are the least with which the pool goes to no threads and
back, or to one thread more and one less; with three threads one of them can have
ended in a `wait_and_restart()` before, which is what it takes for old flags to
stand before the new ones when the lists are cut; `start`, `stop`, `shutdown` and
`wait` are not counted.  Warning timers and client timers are checked in a use of
their own (`Watched`), since tasks and timers of a manager do not touch.

*Owner.*  Three threads are the least with which two readers hold off a writer
while the next one asks.  The operations come in three groups that share no data
but the lock (the alive mark, the tracking map, the callback), and a behaviour
has one group.  A thread that would make a token past `MaxTokens` stays where it
is.  Two handlers may hold tokens of different ages; three copies of a callback
are the least with which one is destroyed beside two others.

*Strings.*  In `strings` a minute has three seconds, the least with which a
schedule can name some but not one and not all, and a day two hours of one minute;
in `MCSchedule_seconds.cfg` the day is one hour of two minutes, so that the minute
moves.  A week has three days, a year three months of 4, 3 and 4 days; `MinNow` to
`MaxNow` is a whole year, the second one, in which each field carries into every
higher one.  `MaxDays` is one day more than a year, as 366 is in the code, and
`MaxYears` is four, as `CRON_MAX_YEARS_DIFF` is.  `IntSize` is 32, far above the
sizes of the fields, as 256 is in the code; what happens near it is excluded by
`NumbersFit`.

### What the violated runs say

* `dq_stop`: `run_wait_()` does not look at `_loop_exit` once it has the mutex.
  A `stop()` between a worker's test of the loop and its wait notifies nobody,
  the worker goes to sleep, and a `join()` on it, as in
  `tests/delayed_common_suite.hpp:106`, does not return until somebody posts.
* `sched_zone`: `beg_day` is the last midnight of UTC less the offset.  Where the
  local date is not that of UTC this is the wrong midnight: behind UTC a task due
  later today is posted for tomorrow, ahead of it the time point may be past and
  the task goes at once.  `TimeOfDayKept` says that this is the only exception,
  and that a *timer* with such a schedule shows the right time of day anyway.

### Instances that are violated and are no runs

These configurations come with the modules and may be run in the same way.  Each
shows a behaviour of the code that the properties above exclude by a condition;
no document of the repository promises otherwise, or the promise is too vague to
call it a disagreement.

* `MCDelayedQueue_idle.cfg`, `IdleWorkerServes`: `notify_one` may wake the one
  worker that has set an alarm for the first delayed handler; if it then runs
  something long, the others, which wait without a limit, sleep on past the time
  point although they are idle.  The handler is late, not lost.
* `MCDelayedQueue_drop.cfg`, `MutexComesBack`: the drop handler is called under
  the mutex, so one that posts to the same queue waits for ever.
* `MCDelayedQueue_reset_race.cfg`, `ResetIsSafe`: `reset()` tests and pops
  without the mutex and may pop an empty queue while workers take from it.
* `MCAsioQueue_limit.cfg`, `LimitHolds`: `check_()` and `++_counter` are two
  steps; two callers pass the check and a queue of size one holds two tasks.
  `Overshoot` says how far this goes, and is proved.
* `MCThreadPool_flags.cfg`, `KeptThreadsServe`: `wait()` clears `_threads` and
  leaves `_flags`, `stop()` clears both.  After a `wait_and_restart()` the old
  flags stand before the new ones; a later `reconfigure()` to fewer threads cuts
  both lists alike, keeps an old flag and destroys that of a thread it keeps.
  `SurplusDismissed` says that the mistake goes this way only: no surplus thread
  ever keeps its flag.
* `MCThreadPool_delayed.cfg`, `JoinReturns`: with `use_asio` off, `shutdown()`
  drops a guard that means nothing to the delayed queue, so its threads go round
  for ever and `wait()` joins them with the mutex held.
* `MCRequester_false.cfg`, `FalseStopsTimer`: with `expires_at::before` the next
  run is posted before the handler is called.  If that run has begun when the
  handler says no, it has already looked at its `pres` and the timer goes on.
* `MCWorkflow_warning.cfg`, `ClientTimersStay`: `reconfigure()` releases the old
  warning id in the manager of the *new* control workflow (workflow.cpp:331),
  where a timer of a client may have that id.
* `MCWorkflow_start.cfg`, `StartResumes`: `start()` after `stop()` finds the queue
  stopped, and the threads it creates end at once, although `workflow.hpp:186`
  calls it the way to go on.  It takes a `reset()` between them.  After `shutdown()`
  and `wait()` a `start()` does go on, since `task_manager::wait()` ends in a reset
  of the queue (task_manager.cpp:154).
* `MCWorkflow_flags.cfg`, `WaitKeepsItsWord`: `WaitMeansDone` without its exception.
  After a `wait_and_restart()` from one thread, `reconfigure(2)` and
  `reconfigure(1)`, the one flag that is left is that of a thread which ended long
  ago.  The thread that was kept ends when it comes round; the pool has its guard,
  the queue is not stopped, and nobody serves it.  A task posted now is still there
  when `shutdown()` and `wait()` have returned, where `workflow.hpp:226-229` says
  that `wait()` waits for all tasks.
* `MCSchedule_seconds.cfg`, `NoSecondMissed`: where `find_next()` has moved the
  seconds it neither marks them nor starts again (croncpp.h:745), as it does for
  every other field.  When the minute, the hour, the day or the month then moves,
  the seconds are not reset: "0,30 10 * * * *" asked at 12:05:10 gives 12:10:30 and
  misses 12:10:00, which is a mistake in the search.  It takes two seconds or more
  in the schedule, not all of them, and another field that is not "*";
  `ScheduleKept` leaves just that out (`SecondsAreSimple`).
* `MCSchedule_cron.cfg`, `NoMatchMissed`: the search misses times in two more cases.
  A day of the month together with a weekday: the search accepts the same day of
  a later month as "not moved" and does not look at hours again, so
  "0 0 12 13 * 5" asked at 2021-07-13 12:00:00 gives 2021-08-13 00:00:00.  A month
  set while the day is past its end: "0 0 12 * 2 *" asked at 2021-01-31 12:00:00
  gives 2022-02-01, because February 31 is a day of March.  The conditions of
  `ScheduleKept` (`EveryMonthHas`, `DaysAreSimple`, and `NumbersFit` for numbers
  past eight bits) keep clear of these; that nothing else goes wrong, but for the
  seconds above, is proved.

### What else came up

* A schedule that nothing fits gives `INVALID_TIME`, which is -1; it is used as a
  time (time_parser.cpp:161), so the timer runs again and again at once.
* A string that cannot be read: a post goes at once, a timer with a start waits
  for one period, a timer with a schedule is not created.  A period of zero is a
  day.
* A step near 256 in a schedule wraps the eight-bit loop counter: "30/230" also
  sets 4.
* `task_manager`: two posters with a limit of one may let five tasks and more
  through in a second, and two deferred tasks may put each other off for ever;
  with several posters a reset may follow a reset with nothing served in between.
  `RateKept`, `PostsEnd` and `ResetAfterProgress` are therefore about one poster.
  A rate limit taken away under a post divides by zero (task_manager.cpp:309).
* `reconfigure()` to no threads, without an io_context of the caller, makes every
  call go to a queue that does not exist (`broken` in `Bique`); from some threads
  to none and back, tasks posted before stay in a queue nobody serves.
* `release_tracking()` ignores how often an id was registered and does nothing
  while tracking is off; `tracking()` registers even then.  Two copies of a
  callback destroyed at the same time may each see the other, and then nobody
  reports that there was no call.  The rwlock lets readers overtake a writer for
  ever.

## 5 Fairness

`FairSpec` of the delayed queue and `Fairness` of the asio queue (in `ShFairSpec`)
assume weak fairness of

* each step a thread of the pool takes by itself (`Serve`): the operating system
  schedules it, and a mutex held for a bounded time is obtained.  The steps are
  fair one worker at a time, so a worker that goes on does not count for another
  that does not;
* `Finish`: handlers return.  `BusySpec` of the delayed queue is the same
  without it, for what must hold although a handler runs on;
* `Tick`: time passes (up to its bound, where every delayed task is due);
* the rest of a post, a timer's expiry, the return of a drop handler and of
  `reset()`, once they have begun.

Nobody is obliged to post, stop, start, reset or destroy, nor to call
`poll_one()` again (`GoesOn`): the pool calls only `run` and `run_one`, and a
client's loop around `poll_one` promises nothing.

`FairSpec` of the pool assumes weak fairness, one thread and one client at a
time, of the steps of a thread (`Serve`, the return of a handler included) and of
the rest of a call that has begun (`CallGoesOn`).  Nobody is obliged to call
anything, and no handler has to throw.  `SurplusEnds` is checked with
`run_for_ms`, the default: a thread in plain `run()` that finds nothing to do
does not come round unless an empty handler reaches it.

`FairReqSpec` of the timers assumes, of each run, strong fairness of `Begin` and
weak fairness of the steps that follow: handlers return, senders call back or let
go of their callback.  `Begin` is strong because the number of threads is bounded
and a run may find them all busy again and again; that it is taken nevertheless
is `TaskServed` of the queues.  Strong fairness of `LastRequest` says that a
generator comes to an end: it may, at each response, have a further request, but
not for ever.

`FairSpec` of the task manager assumes weak fairness of `Tick`, of the rest of a
post and of the service of a queued task.  A deferred task is posted again by a
thread of the queue, which may be kept out for a while by the bound on posters;
that it comes in is strong fairness of that step, again `TaskServed`.

`Workflow`, `Owner` and `Schedule` state safety only.

## 6 Proofs

`tlapm` proves the following for any finite sets of tasks, workers, runs,
threads, handlers, ids and copies, any limits and bounds, under the assumptions
named in the modules (such as `TasksAssumption`, `RunsAssumption`,
`CopiesAssumption`); TLC evaluates these on every run.

| theorem | says | argument |
|---|---|---|
| `DelayedQueueProofs!TypeCorrect` | `[]TypeOK` | inductive by itself, one lemma per group of actions |
| `EachTaskInOnePlace` | `[]OnePlace` | `TypeOK /\ OnePlace` is inductive: every step is a post into one queue, a move of the task at the head, the end of a handler, or leaves the places alone.  It holds with `ConcurrentReset` too, as far as `reset()` is defined |
| `NothingStartsEarly` | `[]NotEarly` | with `OnePlace`: the only way from `dque` to `que` is through `Due`, and time never runs back |
| `NoWakeupIsLost` | `[]NoLostWakeup`, assuming `~ConcurrentReset` | needs that `reset()` runs alone (`ResetAlone`): a worker goes to sleep only with nothing ready and with the alarm of the earliest delayed task, and each post wakes a sleeper or finds somebody attentive |
| `QueueImplementsTaskQueue` | `Spec => Abstract!Spec` | step by step, from `OnePlace` and `NotEarly`: each action moves at most one task from one status to another |
| `LimitHolds` | `[]UnsafeBound` | a post adds one task under the lock in which `Room` was tested, everything else removes some |
| `CountersAreRight` | `[]Accounting` | with `KindKnown`, the kind of a task being fixed once it is accepted; each step adds one element to the counted set, removes one or neither |
| `AsioQueueProofs!TypeCorrect` | `[]TypeOK` | as above |
| `OvershootIsBounded` | `[]Overshoot` | inductive with `Cardinality(MidPost) <= Callers`: `counter + Cardinality(Checked)` grows only when `Room` holds, and then the counter is below a limit and at most `Callers` tasks are checked; `++_counter` moves one from the second summand to the first |
| `CountersAreRight` | `[]Accounting` | with `InOnePlace` (an accepted task is in exactly one of the timers, the ready handlers and the hands of a worker) and `PostKnown` (its kind is known from the test or the count on): each step changes the counted sets by one task and the counter by one |
| `QueueImplementsTaskQueue` | `Spec => Abstract!Spec` | as for the delayed queue; the first steps of a post are stutters, `HandOver` is the abstract one |
| `ThreadPoolProofs!TypeCorrect`, `ShapeKept`, `ThreadsAccountedFor`, `SurplusLosesFlags`, `FlagsAreThreads` | `[]TypeOK`, `[]PoolShape`, `[]NoneDropped`, `[]SurplusDismissed`, `[]FlagsMatch` | one inductive invariant `IInv`, below |
| `OwnerProofs!LockExcludes`, `LockForgetsNobody` | `[]Exclusion`, `[]NobodyForgotten` for `LockSpec` | inductive with the types; the counters are cardinalities of the sets of threads inside |
| `UsesLock` | `Spec => LockSpec` | every step of the owner is one of the lock or leaves its variables alone; `OwnerExcludes` and `OwnerForgetsNobody` follow with no further argument |
| `OwnerTypeCorrect` | `[]TypeOK` | part of `OwnerInv` |
| `CutOffHolds` | `CutOff` | `TokenInv`: a token is with the owner, with one id of the map, or cut, and never comes back from there; so the only way to hold a cut one is to have held it |
| `CallbackIsSettled` | `[]CallbackSettled` | `CallbackInv`: as long as there was neither call nor report and no two destructors met, some copy is live to make one |
| `TimersProofs!TimersTypeCorrect`, `OneChainHolds`, `CutIsFinalHolds`, `RefusalObeyedHolds` | `[]TypeOK`, `[]OneChain`, `CutIsFinal`, `RefusalObeyed` for `Timers`, and so for everything that implements it | `TimersInv`, below |
| `RequesterIsHandler` | `ReqSpec => Spec` | with `AskInv`: a round of requests is under way only while the timer is owed an answer; each step is one of `Timers` or a stutter |
| `TaskManagerProofs!TypeCorrect` | `[]TypeOK` | with the fact that a post past its look at the limit computes a delay only from a limit above zero |
| `CrashNeedsSwitchHolds` | `[]CrashNeedsSwitch` | `CrashInv`: who reckons with a limit has seen one, so if there is none now it was taken away |
| `ResetAfterProgressHolds` | `ResetAfterProgress` | `PostInv` and `ResetInv`, below |
| `RateKeptHolds` | `[]RateKept` | `PostInv` and `RateInv`, below |
| `WorkflowProofs!BqTypeCorrect`, `TypeCorrect` | `BqSpec => []BqTypeOK`, `Spec => []TypeOK` | inductive by themselves |
| `IsABique` | `Spec => BqSpec` | every step of a workflow is one of the switch or leaves its variables alone, so what holds of the switch for any owner holds of a workflow |
| `SwitchServes`, `QueueIsServedHolds` | `[]QueueIsServed` for `BqSpec` and for `Spec` | `ListsInv` with `ServedInv`, below; then `IsABique` |
| `SwitchWaits`, `WaitMeansDoneHolds` | `WaitMeansDone` for `BqSpec` and for `Spec` | `DoneInv` with these two, below; then `IsABique` |
| `OneWarningHolds` | `[]OneWarning` | `WarnInv`, below |
| `ScheduleProofs!TimeOfDayKeptHolds` | `[]TimeOfDayKept` | `KeptInv` over what is proved of `MakeTime` for every time, offset and time of day (`MadeTime`), below |
| `ScheduleKeptHolds` | `[]ScheduleKept` | `ScheduleInv` over what is proved of `cronNext` (`CronNextIs`) and of `makeCron` (`MeaningIs`), below |

None of the four after `TypeOK` in the pool is inductive alone.  `IInv` of the
pool adds `Calling` (what a call has established stays true until it goes on,
because it has the mutex), `Born` (nothing is listed before it is created) and,
for the two lists, that there are at least as many flags as threads unless
`stop()` is joining, and that a thread is never further down the list than its
flag (`Behind`).  The last is what cutting both lists to the same length needs:
it keeps no flag of a thread it drops, whatever `wait()` has left in front.

`TimersInv` is about who carries a timer.  Exactly one run may do so (`CarrierInv`):
a queued one, or one whose handler has not decided yet and that posts afterwards.
A run that counts its period from before the call has posted already, and shares
`pres` with that post and nobody else (`NextInv`).  What is left of a refused
timer is then a post that has been told (`RefusedInv`).  `PlaceInv` keeps the
places of runs from being used again while a callback is owed.

`OnePlace` and `InOnePlace` are what the other theorems about the queues need: an
invariant about the time or the counters of a task says little unless the task is
in one place.

The task manager's two properties about one poster rest on `PostInv`: a post under
way is neither queued nor put off, and there is at most one of them.  `ResetInv`
says that, while nothing has left it since it refused a task, the queue is full; so
`_wait_reset` is cleared only by a post that succeeded after something left, and it
is unset before a second reset only then.  `RateInv` names two sets of tasks for
the two intervals that a second can touch: `C`, those that passed in the present
interval, at most as many as `_interval_count` and the limit say, and `P`, those
of the interval before, at most the limit.  All that passed within the last second
are in one of them, and when an interval is renewed, everything in `P` is older
than a second, so that `C` can take its place.  `AtWindow` says what each place of
a post has established of `C`.  The two sets are no variables: the invariant says
that some such sets exist, and each step shows the next ones.

`ListsInv` and `ServedInv` are about the guard and the two lists.  There are at
least as many flags as threads unless `stop()` is joining, and every listed thread
has its flag unless `cut` holds: `run_more_()` adds a thread and its flag
together, so only a `resize()` over old flags can part them.  A pool that holds
its guard has threads and, except while a `reconfigure()` to no threads is under
way, holds the guard of the queue in use; and as long as no `start()` or
`reconfigure()` met a stopped queue or threads at their end, the queue goes on and
every listed thread with a flag lives, for `Return` ends only the others.
`QueueIsServed` alone is not inductive, since it says nothing in the middle of a
call.  `DoneInv` adds that, unless `cut` holds, what was in the queue at a
`shutdown()` is done or still in that queue, served by every listed thread, each
with its flag (`StillServed`), and that nothing is owed any more in the calls that
start or stop threads.  `WarnInv` relates the ids: as long as the control workflow
stays the same, every warning timer is in its manager and is the one `_wrn_timer`
names, except between the creation of a new one and the release of the old one,
when they are two and differ; and `_wrn_timer` is not above the counter of that
manager, so no later timer gets its id.

`ScheduleProofs` assumes `CalendarAssumption` and `TimesAssumption`: bounds and
offsets are integers, periods are numbers, and a time of day is a second of the day
(the parser accepts 23:59:60, which is left out).  `MadeTime` is about one division:
`make_time` gives a second at which the local clock shows the time of day, and
where the local date is that of UTC, the first such second from now on.  A timer
with such a schedule has the period of a day, so `KeptInv` carries "the clock shows
it" from one run to the next as long as each run is in time.

`ScheduleKeptHolds` takes most of that module.  Its invariant `ScheduleInv` is short:
`cron` is what `make_cron` makes of the expression, and `due` is what `cron_next`
gave at the time `made`.  The work is in `CronNextIs`, that for bits that stand for
values (`BitsOf`) and under the conditions of `ScheduleKept` the result of
`cron_next` fits, lies after the time it was asked at, and skips no time that fits;
and in `MeaningIs`, that the bits `make_cron` sets, with the wrap-around of
`cron_int`, stand for what the expression means.

* *Dates are times.*  `SecondsAre` and its neighbours: `mktime` undoes
  `localtime_r`, for any number of seconds, minutes, hours and days of months.
  Every move of a field (`Shift`, `AddDays`, `AddYear`, `SetMonth`) and every
  reset (`ResetIs`) of a date is then an addition or a rounding of its time.
* *No move skips a match.*  `FieldMoves` for seconds, minutes and hours, `DaysMove`
  for days, `MonthsMove` for months: the date that a move leads to is later, and no
  time between fits the schedule.  `CallFits` says what a call of `find_next()` has
  seen to by the time it is at a field and which fields it has marked; without
  `SecondsAreSimple` it is false, which is how the mistake with the seconds was
  found; `DaysAreSimple` and `EveryMonthHas` are for the moves of days and months.
* *It ends at a match.*  A search that has skipped no match (`OnItsWay`) is not
  beyond the first one, `end`.  `LeftOf` weighs the seconds up to `end` and the
  calls under way; `StepKeeps` shows that each step makes it smaller.
* *It does not give up.*  `FirstMatch`: if every month has the days, some time of
  the next year fits, so that neither the 366 days of `find_next_day` nor the years
  of `find_next` are used up.

Two things had to be had without an induction theorem, since those of the library
take an operator as their parameter.  Induction over numbers is the least element of
a set of them (`LeastNat`, from the well-founded inclusion of finite sets).  And
that a recursive function has a value is proved where it is used: `LoopExists`
gives, for a loop of any kind, a function that satisfies the recursive equation,
and `LoopEnds` its value where a measure falls.

The assumptions are those of `Cron` and `Schedule`: the fields have at least one
value each, no month is shorter than a week, a search by days may take a whole year
(`DaysAssumption`: 366 in the code), times are not before 1970 in local time, and
expressions are made of the items of `Item`.  That all years are alike is in the
model itself, so that nothing is claimed of leap years.

Only model-checked: all liveness (`TaskServed`, `StoppedWorkersEnd`,
`ShutdownLosesNothing`, `ShutdownEnds`, `JoinReturns`, `SurplusEnds`, `TimerGoesOn`,
`PostsEnd`), which is
beyond this prover.  Every safety property that a passing run checks is proved.

## 7 What is not modelled

* What a handler does, beyond that it runs, may post (any post may come from
  anyone), returns or, in `ThreadPool`, throws.  In particular, pool and manager
  calls made by a handler, that is by a thread of the pool: the mutex they wait
  for may be held by a join on that thread.
* The callbacks `startup`, `status`, `finish` and `statistics` of the pool, which
  keep no state of it.
* A handler that calls its timer's callback twice, which starts a second chain,
  and a sender that calls back and then returns false: both break the contract.
* The destruction of a manager with its posts under way, and calls of two owners
  to one workflow at the same time.  (Two clients of one *pool* are modelled; in a
  workflow they may leave `_opt` and the manager in disagreement,
  workflow.cpp:49.)
* In `Bique`, the limits of the queues and that a `stop()` may be slept through by
  a delayed queue (`dq_stop`); in `ThreadPool`, what `restart()` does to an
  io_context in use.
* In `Bique`, what happens where `wait()` without a `shutdown()` resets the queue
  beside running threads: what waits is discarded in one step (for the steps of
  `reset()` see `MCDelayedQueue_reset_race.cfg`).
* After a `reconfigure()` has cut the lists with flags of an earlier `wait()` in
  front (`cut`), `Bique` goes on as the code does, but `QueueIsServed` promises no
  thread and `WaitMeansDone` nothing until the list of threads is cleared.
* `ShutdownLosesNothing` speaks of what comes to an io_context that is not
  stopped.  A post that another thread has counted but not yet handed over when
  the last work is done comes to a stopped io_context, and its task stays there
  until a `reset()`.
* In `TaskManager`, the reading of the clock and the second reading of
  `_start_interval` are one step (`Span`).  In `Timers`, a reset destroys all the
  posted runs in one step, and the handler a requester has posted in another.
* The heap of `_delayed_que` and the chunks of `_que`: a set and a sequence.
* Liveness where the pool calls the timed functions of the asio queue: their
  steps are in the safety run only.
* The end of the `time_point` range and the width of the queues' counters: no run
  of the program comes near them.
* Leap years, clock changes, the splitting of a schedule's text into items, names
  of days and months.
* Two calls of `stop()` at once; the second one finds nothing to do.
* The json options, the logger and the include wrappers, which keep no state; the
  spinlock, the empty mutex and `common_timer.hpp`, which the library does not
  use; getters.

## 8 Plan

Done: every component with state has a module and a run, and every safety
property that a run checks is proved.  What would add most now:

1. Leap years in `Cron`, with the length of a month as a function of the year, and
   a proof of the search for the schedules of 29 February.
2. An abstract specification of the thread pool (a number of threads that
   converges to the one asked for), refined by `ThreadPool`, and one of the rwlock
   refined by `RWLock`.
3. Handlers that call the pool: a client of `ThreadPool` that is one of its
   threads, with the deadlock at thread_pool_base.cpp:121.
4. The destruction of a manager beside its deferred posts (task_manager.cpp:227).
5. Two owners of a workflow, with `reconfigure()` as several steps.

## 9 Running it

    tlc -workers 2 -config MCDelayedQueue_safety.cfg MCDelayedQueue
    tlapm DelayedQueueProofs.tla

The configuration of a run is named in `PROJECT.json`.  A run takes from a few
seconds to about two minutes, a module of proofs up to six minutes.
