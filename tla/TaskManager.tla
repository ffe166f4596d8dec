------------------------------- MODULE TaskManager -------------------------------
(***************************************************************************)
(* The posts of wflow/task/task_manager.cpp: the rate limit, the reset of  *)
(* a queue that overflows, and the posts that are put off.  The manager    *)
(* has no lock.  Its members are atomics, which each poster reads and      *)
(* writes one at a time, so a post is many steps and others come between.  *)
(*                                                                         *)
(* The queue is what TaskQueue promises, with a limit on the tasks that    *)
(* wait.  Times are relative and saturate: an age counts up to just over a *)
(* second, a delay down to zero.                                           *)
(***************************************************************************)
EXTENDS Integers, FiniteSets

CONSTANTS Tasks,     (* what is posted, each task by a caller of its own   *)
          Uses,      (* the ways the manager is used: the sets of rate     *)
                     (* limits, of values of overflow_reset, of queue      *)
                     (* limits, how many threads may be in a post at once, *)
                     (* which tasks are posted, and how often the options  *)
                     (* are changed                                        *)
          Delays,    (* the delays of delayed_post() and post_at()         *)
          Second     (* the ticks of a second                              *)

Use == [limits : SUBSET Nat, resets : SUBSET BOOLEAN, sizes : SUBSET Nat,
        posters : Nat, posts : SUBSET Tasks, changes : Nat]

ASSUME TasksAssumption == IsFiniteSet(Tasks)
ASSUME UsesAssumption == Uses \subseteq Use
ASSUME TimeAssumption == Second \in Nat \ {0} /\ Delays \subseteq Nat

VARIABLES
  use,           (* the way of this behaviour, fixed                       *)
  rateLimit,     (* _rate_limit; 0 is "no limit"                           *)
  startInterval, (* how long ago _start_interval is; Unset is its zero     *)
  intervalCount, (* _interval_count                                        *)
  overflowReset, (* _overflow_reset                                        *)
  resetCount,    (* *_reset_count, which also tells one pointer from the   *)
                 (* next                                                   *)
  waitReset,     (* _wait_reset                                            *)
  maxsize,       (* the limit of the queue; 0 is none                      *)
  pc,            (* where the post of each task stands                     *)
  clock,         (* how long ago it has read the clock                     *)
  state,         (* what has become of each task                           *)
  mark,          (* the _reset_count a task looks at; Unset if none        *)
  delay,         (* how long a task is still put off                       *)
  passed,        (* how long ago a task has passed the rate limit          *)
  admin,         (* where the thread in reconfigure() stands               *)
  changes,       (* how many times the options were changed                *)
  switchedOff,   (* was a rate limit ever replaced by none                 *)
  left,          (* history: has a task left the queue, or its limit       *)
                 (* changed, since it last refused a task                  *)
  progress       (* and since it refused the one that led to the last reset *)

Unset == -1
Aged == Second + 1
Age == 0..Aged

Places == {"out", "enter", "look", "first", "span", "renew", "one", "count", "test",
           "offer", "defer", "failed", "reset", "marked", "clear"}
States == {"fresh", "posting", "later", "queued", "ran", "dropped", "threw", "crashed"}
AdminPlaces == {"idle", "limit", "start", "count", "flag"}

rateVars  == <<rateLimit, startInterval, intervalCount>>
resetVars == <<overflowReset, resetCount, waitReset>>
taskVars  == <<pc, clock, state, mark, delay, passed>>
adminVars == <<admin, changes, switchedOff>>
pastVars  == <<left, progress>>
vars == <<use, rateLimit, startInterval, intervalCount, overflowReset, resetCount,
          waitReset, maxsize, pc, clock, state, mark, delay, passed, admin,
          changes, switchedOff, left, progress>>

TypeOK ==
  /\ use \in Uses
  /\ rateLimit \in Nat /\ intervalCount \in Nat /\ maxsize \in Nat
  /\ startInterval \in Age \cup {Unset}
  /\ overflowReset \in BOOLEAN /\ waitReset \in BOOLEAN
  /\ resetCount \in Nat
  /\ pc \in [Tasks -> Places]
  /\ clock \in [Tasks -> Age]
  /\ state \in [Tasks -> States]
  /\ mark \in [Tasks -> Nat \cup {Unset}]
  /\ delay \in [Tasks -> Nat]
  /\ passed \in [Tasks -> Age]
  /\ admin \in AdminPlaces /\ changes \in 0..use.changes
  /\ switchedOff \in BOOLEAN /\ left \in BOOLEAN /\ progress \in BOOLEAN

(* Nothing initialises _wait_reset.                                        *)
Init ==
  /\ use \in Uses
  /\ rateLimit \in use.limits /\ overflowReset \in use.resets /\ maxsize \in use.sizes
  /\ startInterval = Unset /\ intervalCount = 0
  /\ resetCount = 0
  /\ waitReset \in BOOLEAN
  /\ pc = [t \in Tasks |-> "out"]
  /\ clock = [t \in Tasks |-> 0]
  /\ state = [t \in Tasks |-> "fresh"]
  /\ mark = [t \in Tasks |-> Unset]
  /\ delay = [t \in Tasks |-> 0]
  /\ passed = [t \in Tasks |-> Aged]
  /\ admin = "idle" /\ changes = 0
  /\ switchedOff = FALSE /\ left = TRUE /\ progress = TRUE

-----------------------------------------------------------------------------
Posting == {t \in Tasks : pc[t] # "out"}
Waiting == {t \in Tasks : state[t] = "queued"}
HasRoom == maxsize = 0 \/ Cardinality(Waiting) < maxsize

Goto(t, l) == pc' = [pc EXCEPT ![t] = l]
Turn(t, s) == state' = [state EXCEPT ![t] = s]

KeepOptions == UNCHANGED <<use, rateLimit, overflowReset, maxsize, adminVars>>
KeepRate    == KeepOptions /\ UNCHANGED <<startInterval, intervalCount>>
KeepTask    == UNCHANGED <<state, mark, delay, passed>>
KeepReset   == UNCHANGED <<resetCount, waitReset, pastVars>>

-----------------------------------------------------------------------------
(* post(f, drop), by a client or, once its delay is over, by a worker of   *)
(* the queue.  The handler is wrapped in a look at _reset_count; wrapped   *)
(* twice, it runs only if the older count is still the current one.        *)
Post(t) ==
  /\ (state[t] = "fresh" /\ t \in use.posts) \/ (state[t] = "later" /\ delay[t] = 0)
  /\ pc[t] = "out"
  /\ Cardinality(Posting) < use.posters
  /\ Goto(t, "enter") /\ Turn(t, "posting")
  /\ mark' = [mark EXCEPT ![t] = IF overflowReset /\ @ = Unset THEN resetCount ELSE @]
  /\ KeepRate /\ KeepReset /\ UNCHANGED <<clock, delay, passed>>

(* post_at() and delayed_post() put the call of post() off.                *)
DelayedPost(t, d) ==
  /\ state[t] = "fresh" /\ t \in use.posts
  /\ Turn(t, "later")
  /\ delay' = [delay EXCEPT ![t] = d]
  /\ KeepRate /\ KeepReset /\ UNCHANGED <<pc, clock, mark, passed>>

(* Variant of Enter: none is taken for a limit of zero.                    *)
EnterAlways(t) ==
  /\ pc[t] = "enter"
  /\ Goto(t, "look")
  /\ KeepRate /\ KeepTask /\ KeepReset /\ UNCHANGED clock

(* Is there a limit, and has the first interval begun?                     *)
Enter(t) ==
  /\ pc[t] = "enter"
  /\ Goto(t, IF rateLimit = 0 THEN "offer" ELSE "look")
  /\ KeepRate /\ KeepTask /\ KeepReset /\ UNCHANGED clock

Look(t) ==
  /\ pc[t] = "look"
  /\ Goto(t, IF startInterval = Unset THEN "first" ELSE "span")
  /\ KeepRate /\ KeepTask /\ KeepReset /\ UNCHANGED clock

(* The second look at _start_interval, with the reading of the clock just  *)
(* before it; if it was set to zero meanwhile the span is far too long.    *)
Span(t) ==
  /\ pc[t] = "span"
  /\ Goto(t, IF startInterval \in 0..Second THEN "count" ELSE "renew")
  /\ clock' = [clock EXCEPT ![t] = 0]
  /\ KeepRate /\ KeepTask /\ KeepReset

(* The first interval begins at the time of the write, a later one at the  *)
(* time that was read.                                                     *)
StartInterval(t) ==
  /\ pc[t] \in {"first", "renew"}
  /\ startInterval' = IF pc[t] = "first" THEN 0 ELSE clock[t]
  /\ Goto(t, IF pc[t] = "first" THEN "count" ELSE "one")
  /\ clock' = [clock EXCEPT ![t] = 0]
  /\ KeepOptions /\ UNCHANGED intervalCount /\ KeepTask /\ KeepReset

Count(t) ==
  /\ pc[t] \in {"one", "count"}
  /\ intervalCount' = IF pc[t] = "one" THEN 1 ELSE intervalCount + 1
  /\ Goto(t, "test")
  /\ KeepOptions /\ UNCHANGED <<startInterval, clock>> /\ KeepTask /\ KeepReset

(* Variant of Test: one task too many passes.                              *)
TestOffByOne(t) ==
  /\ pc[t] = "test"
  /\ IF intervalCount <= rateLimit + 1
     THEN Goto(t, "offer") /\ passed' = [passed EXCEPT ![t] = 0]
     ELSE Goto(t, "defer") /\ UNCHANGED passed
  /\ KeepRate /\ KeepReset /\ UNCHANGED <<state, mark, delay, clock>>

Test(t) ==
  /\ pc[t] = "test"
  /\ IF intervalCount <= rateLimit
     THEN Goto(t, "offer") /\ passed' = [passed EXCEPT ![t] = 0]
     ELSE Goto(t, "defer") /\ UNCHANGED passed
  /\ KeepRate /\ KeepReset /\ UNCHANGED <<state, mark, delay, clock>>

(* Variant of Defer: nothing is posted.                                    *)
DeferNothing(t) ==
  /\ pc[t] = "defer"
  /\ Goto(t, "clear")
  /\ KeepRate /\ KeepReset /\ KeepTask /\ UNCHANGED clock

(* safe_delayed_post() of another post(), after a time that is computed    *)
(* from both members as they are now; a division by zero ends the program. *)
Defer(t) ==
  /\ pc[t] = "defer"
  /\ IF rateLimit = 0
     THEN Goto(t, "out") /\ Turn(t, "crashed") /\ UNCHANGED delay
     ELSE /\ Goto(t, "clear") /\ Turn(t, "later")
          /\ delay' = [delay EXCEPT ![t] = (intervalCount * Second) \div rateLimit]
  /\ KeepRate /\ KeepReset /\ UNCHANGED <<mark, passed, clock>>

(* The queue takes the task or calls its drop handler.                     *)
Offer(t) ==
  /\ pc[t] = "offer"
  /\ IF HasRoom THEN Goto(t, "clear") /\ Turn(t, "queued") /\ UNCHANGED left
                ELSE Goto(t, "failed") /\ Turn(t, "dropped") /\ left' = FALSE
  /\ KeepRate /\ UNCHANGED <<resetCount, waitReset, progress, mark, delay, passed, clock>>

(* Variant of Failed: _wait_reset is not looked at.                        *)
FailedAnyhow(t) ==
  /\ pc[t] = "failed"
  /\ Goto(t, IF overflowReset THEN "reset" ELSE "out")
  /\ KeepRate /\ KeepTask /\ KeepReset /\ UNCHANGED clock

Failed(t) ==
  /\ pc[t] = "failed"
  /\ Goto(t, IF overflowReset /\ ~waitReset THEN "reset" ELSE "out")
  /\ KeepRate /\ KeepTask /\ KeepReset /\ UNCHANGED clock

(* A new _reset_count: the handlers that look at the old one will drop.    *)
ResetQueue(t) ==
  /\ pc[t] = "reset"
  /\ resetCount' = resetCount + 1 /\ progress' = left
  /\ Goto(t, "marked")
  /\ KeepRate /\ KeepTask /\ UNCHANGED <<waitReset, clock, left>>

Mark(t) ==
  /\ pc[t] = "marked"
  /\ waitReset' = TRUE
  /\ Goto(t, "out")
  /\ KeepRate /\ KeepTask /\ UNCHANGED <<resetCount, pastVars, clock>>

(* A post that has succeeded, or was put off.                              *)
Clear(t) ==
  /\ pc[t] = "clear"
  /\ waitReset' = IF overflowReset THEN FALSE ELSE waitReset
  /\ Goto(t, "out")
  /\ KeepRate /\ KeepTask /\ UNCHANGED <<resetCount, pastVars, clock>>

-----------------------------------------------------------------------------
(* A worker takes a task: its handler runs or, if the queue was reset, its *)
(* drop handler; if it has none, an empty function is called, which throws.*)
Serve(t) ==
  /\ state[t] = "queued"
  /\ IF mark[t] \in {Unset, resetCount} THEN Turn(t, "ran")
     ELSE Turn(t, "dropped") \/ Turn(t, "threw")
  /\ left' = TRUE /\ progress' = TRUE
  /\ KeepRate /\ UNCHANGED <<pc, clock, mark, delay, passed, resetCount, waitReset>>

Older(a) == IF a = Unset \/ a = Aged THEN a ELSE a + 1

Tick ==
  /\ startInterval' = Older(startInterval)
  /\ clock' = [t \in Tasks |-> IF pc[t] = "renew" THEN Older(clock[t]) ELSE 0]
  /\ passed' = [t \in Tasks |-> Older(passed[t])]
  /\ delay' = [t \in Tasks |-> IF delay[t] = 0 THEN 0 ELSE delay[t] - 1]
  /\ UNCHANGED <<use, rateLimit, intervalCount, resetVars, maxsize, pc, state, mark,
                 adminVars, pastVars>>

-----------------------------------------------------------------------------
(* reconfigure(), called by one thread at a time, and rate_limit().        *)
AdminKeeps == UNCHANGED <<use, taskVars, resetCount, waitReset>>

SetRateLimit(l) ==
  /\ changes < use.changes
  /\ changes' = changes + 1
  /\ rateLimit' = l
  /\ switchedOff' = (switchedOff \/ (l = 0 /\ rateLimit # 0))

RateLimit(l) ==
  /\ admin = "idle"
  /\ SetRateLimit(l)
  /\ AdminKeeps /\ UNCHANGED <<startInterval, intervalCount, overflowReset, maxsize,
                               admin, pastVars>>

ReconfigureSize(n) ==
  /\ admin = "idle" /\ changes < use.changes
  /\ maxsize' = n /\ left' = TRUE /\ progress' = TRUE
  /\ admin' = "limit"
  /\ AdminKeeps /\ UNCHANGED <<rateVars, overflowReset, changes, switchedOff>>

ReconfigureLimit(l) ==
  /\ admin = "limit"
  /\ SetRateLimit(l)
  /\ admin' = "start"
  /\ AdminKeeps /\ UNCHANGED <<startInterval, intervalCount, overflowReset, maxsize,
                               pastVars>>

ReconfigureStart ==
  /\ admin = "start"
  /\ startInterval' = Unset
  /\ admin' = "count"
  /\ AdminKeeps /\ UNCHANGED <<rateLimit, intervalCount, overflowReset, maxsize,
                               changes, switchedOff, pastVars>>

ReconfigureCount ==
  /\ admin = "count"
  /\ intervalCount' = 0
  /\ admin' = "flag"
  /\ AdminKeeps /\ UNCHANGED <<rateLimit, startInterval, overflowReset, maxsize,
                               changes, switchedOff, pastVars>>

ReconfigureFlag(b) ==
  /\ admin = "flag"
  /\ overflowReset' = b
  /\ admin' = "idle"
  /\ AdminKeeps /\ UNCHANGED <<rateVars, maxsize, changes, switchedOff, pastVars>>

-----------------------------------------------------------------------------
PostGoesOn(t) ==
  \/ Enter(t) \/ Look(t) \/ Span(t) \/ StartInterval(t) \/ Count(t) \/ Test(t) \/ Defer(t)
  \/ Offer(t) \/ Failed(t) \/ ResetQueue(t) \/ Mark(t) \/ Clear(t)

Admin ==
  \/ \E l \in use.limits : RateLimit(l) \/ ReconfigureLimit(l)
  \/ \E n \in use.sizes : ReconfigureSize(n)
  \/ \E b \in use.resets : ReconfigureFlag(b)
  \/ ReconfigureStart \/ ReconfigureCount

Next == \/ \E t \in Tasks : Post(t) \/ PostGoesOn(t) \/ Serve(t)
        \/ \E t \in Tasks, d \in Delays : DelayedPost(t, d)
        \/ Tick \/ Admin

Spec == Init /\ [][Next]_vars

(* Time passes, threads are scheduled, the queue serves what it accepted,  *)
(* and a worker of it posts what was put off.                              *)
Fairness ==
  /\ WF_vars(Tick)
  /\ \A t \in Tasks : /\ WF_vars(PostGoesOn(t))
                      /\ WF_vars(Serve(t))
                      /\ SF_vars(state[t] = "later" /\ Post(t))

FairSpec == Spec /\ Fairness

-----------------------------------------------------------------------------
RecentlyPassed == {t \in Tasks : passed[t] <= Second}

(* Where one thread posts, runs what was put off and is not reconfigured,  *)
(* no more than twice the limit passes in any second, the most an interval *)
(* that begins anew allows (task_manager.cpp:285-315).                     *)
RateKept ==
  (use.posters = 1 /\ changes = 0 /\ rateLimit # 0)
    => Cardinality(RecentlyPassed) <= 2 * rateLimit

(* Where one thread posts and there is no rate limit, a queue that was     *)
(* reset is not reset again unless something has left it since it refused  *)
(* the task that led to that reset (task_manager.cpp:193-217).             *)
ResetAfterProgress ==
  [][(use.posters = 1 /\ use.limits = {0} /\ resetCount' # resetCount) => progress]_vars

(* The only way to a division by zero is a rate limit that is taken away   *)
(* while a post is past its look at it (task_manager.cpp:281-309).         *)
CrashNeedsSwitch == (\E t \in Tasks : state[t] = "crashed") => switchedOff

(* Where one thread posts, whatever is posted runs or is dropped, however  *)
(* often it is put off (task_manager.cpp:308-316).                         *)
PostsEnd ==
  \A t \in Tasks :
    (use.posters = 1 /\ state[t] \in {"posting", "later", "queued"})
      ~> state[t] \in {"ran", "dropped", "threw", "crashed"}

=============================================================================
