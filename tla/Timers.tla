--------------------------------- MODULE Timers ---------------------------------
(***************************************************************************)
(* The timers of wflow/timer: the manager's map from ids to flags and, for *)
(* each timer, the chain of posts that timer_handler makes of it.  A timer *)
(* has no thread and no object of its own.  Each of its runs is a handler  *)
(* in the queue that looks at the flag (a weak_ptr), calls the client's    *)
(* handler and posts the next run, before the call or after it.            *)
(*                                                                         *)
(* The queue is what TaskQueue promises: a posted run is taken once, at    *)
(* some later time, in any order with the others.  Delays are left to the  *)
(* choice of that time; a run may be taken while an older one of the same  *)
(* timer is still in its handler, since handlers may outlast any period.   *)
(***************************************************************************)
EXTENDS Integers, FiniteSets

CONSTANTS Runs,        (* places for runs that are posted or under way    *)
          NoRun,       (* "no run"                                        *)
          MaxTimers,   (* how many timers are ever created                *)
          Threads,     (* how many threads serve the queue                *)
          Kinds,       (* which handlers the client has                   *)
          Expires      (* which values of expires_at it uses              *)

Timer == 1..MaxTimers
AllKinds == {"sync", "async", "requester"}
Stages == {"free", "queued", "locked", "called", "leaving"}

ASSUME RunsAssumption == IsFiniteSet(Runs) /\ NoRun \notin Runs
ASSUME TimersAssumption == MaxTimers \in Nat /\ Threads \in Nat
ASSUME ChoiceAssumption == Kinds \subseteq AllKinds /\ Expires \subseteq {"after", "before"}

VARIABLES
  idCounter,   (* _id_counter, the last id given                          *)
  idMap,       (* the ids in _id_map                                      *)
  handles,     (* the timers whose flag a client got from detach()        *)
  flag,        (* the value of each flag; FALSE suspends the timer        *)
  kind,        (* what handler each timer has                             *)
  expires,     (* where each timer counts its period from                 *)
  stage,       (* how far each run is                                     *)
  of,          (* the timer of each run                                   *)
  go,          (* pres: has the handler before this run not refused it    *)
  next,        (* the run whose pres this run, or its callback, holds     *)
  owed,        (* the runs whose callback has not been called yet         *)
  queueAlive,  (* does the queue still exist                              *)
  refused,     (* the timers whose handler refused to go on in time,      *)
  late         (* and those whose handler did when the next run had begun *)

timerVars == <<idCounter, kind, expires>>
flagVars  == <<idMap, handles, flag>>
runVars   == <<stage, of, go, next, owed>>
pastVars  == <<refused, late>>
vars == <<idCounter, kind, expires, idMap, handles, flag, stage, of, go, next,
          owed, queueAlive, refused, late>>

TypeOK ==
  /\ idCounter \in 0..MaxTimers
  /\ idMap \subseteq 1..idCounter /\ handles \subseteq 1..idCounter
  /\ flag \in [Timer -> BOOLEAN]
  /\ kind \in [Timer -> AllKinds]
  /\ expires \in [Timer -> {"after", "before"}]
  /\ stage \in [Runs -> Stages]
  /\ of \in [Runs -> 0..MaxTimers]
  /\ go \in [Runs -> BOOLEAN]
  /\ next \in [Runs -> Runs \cup {NoRun}]
  /\ owed \subseteq Runs
  /\ queueAlive \in BOOLEAN
  /\ refused \subseteq Timer /\ late \subseteq Timer

Init ==
  /\ idCounter = 0 /\ idMap = {} /\ handles = {}
  /\ flag = [t \in Timer |-> TRUE]
  /\ kind = [t \in Timer |-> "sync"]
  /\ expires = [t \in Timer |-> "after"]
  /\ stage = [r \in Runs |-> "free"]
  /\ of = [r \in Runs |-> 0]
  /\ go = [r \in Runs |-> TRUE]
  /\ next = [r \in Runs |-> NoRun]
  /\ owed = {}
  /\ queueAlive = TRUE
  /\ refused = {} /\ late = {}

-----------------------------------------------------------------------------
(* What keeps a flag: the map, a client, a run that has locked its weak    *)
(* pointer.  What a run of a place: itself, its callback, its elder's pres. *)

OnThread(r) == stage[r] \in {"locked", "called", "leaving"}

FlagAlive(t) == \/ t \in idMap \cup handles
                \/ \E r \in Runs : of[r] = t /\ OnThread(r)

Free == {r \in Runs : /\ stage[r] = "free"
                      /\ r \notin owed
                      /\ \A s \in Runs : next[s] # r}

(* The queue takes the next run of timer t, in place n; s is what else     *)
(* becomes of the stages.                                                  *)
PostRun(n, t, s) ==
  /\ n \in Free
  /\ stage' = [s EXCEPT ![n] = "queued"]
  /\ of' = [of EXCEPT ![n] = t]
  /\ go' = [go EXCEPT ![n] = TRUE]

(* safe_delayed_post() of the next run, if the queue is still there.       *)
Again(t, s) ==
  IF queueAlive THEN \E n \in Free : PostRun(n, t, s)
                ELSE stage' = s /\ UNCHANGED <<of, go>>

At(r, l) == [stage EXCEPT ![r] = l]

-----------------------------------------------------------------------------
(* The manager.  All its calls hold its mutex from end to end.             *)

Create(k, e) ==
  /\ idCounter < MaxTimers
  /\ queueAlive
  /\ idCounter' = idCounter + 1
  /\ idMap' = idMap \cup {idCounter'} /\ UNCHANGED <<handles, flag>>
  /\ kind' = [kind EXCEPT ![idCounter'] = k]
  /\ expires' = [expires EXCEPT ![idCounter'] = e]
  /\ \E n \in Free : PostRun(n, idCounter', stage)
  /\ UNCHANGED <<next, owed, queueAlive, pastVars>>

ManagerKeeps == UNCHANGED <<timerVars, runVars, queueAlive, pastVars>>

Detach(t) == /\ t \in idMap
             /\ idMap' = idMap \ {t}
             /\ handles' = handles \cup {t}
             /\ UNCHANGED flag /\ ManagerKeeps

Release(t) == /\ t \in idMap
              /\ idMap' = idMap \ {t}
              /\ UNCHANGED <<handles, flag>> /\ ManagerKeeps

Reset == /\ idMap # {}
         /\ idMap' = {}
         /\ UNCHANGED <<handles, flag>> /\ ManagerKeeps

(* The client lets go of a flag it got from detach(), or writes to it.     *)
DropHandle(t) == /\ t \in handles
                 /\ handles' = handles \ {t}
                 /\ UNCHANGED <<idMap, flag>> /\ ManagerKeeps

Switch(t) == /\ t \in handles
             /\ flag' = [flag EXCEPT ![t] = ~@]
             /\ UNCHANGED <<idMap, handles>> /\ ManagerKeeps

(* The runs that wait in the queue are destroyed and not called.           *)
DropPosted ==
  /\ queueAlive
  /\ stage' = [r \in Runs |-> IF stage[r] = "queued" THEN "free" ELSE stage[r]]
  /\ UNCHANGED <<timerVars, flagVars, of, go, next, owed, pastVars>>

(* The last pointer to the queue goes, or its owner resets it.             *)
DestroyQueue == DropPosted /\ queueAlive' = FALSE
ClearQueue   == DropPosted /\ UNCHANGED queueAlive

-----------------------------------------------------------------------------
(* The runs.                                                               *)

RunKeeps == UNCHANGED <<timerVars, flagVars, queueAlive>>

(* Variant of Begin: a run does not look at pres.                          *)
BeginRegardless(r) ==
  /\ stage[r] = "queued"
  /\ Cardinality({s \in Runs : OnThread(s)}) < Threads
  /\ IF ~FlagAlive(of[r])
     THEN stage' = At(r, "free") /\ UNCHANGED <<of, go, next>>
     ELSE IF expires[of[r]] = "before"
     THEN \E n \in Free : /\ PostRun(n, of[r], At(r, "locked"))
                          /\ next' = [next EXCEPT ![r] = n]
     ELSE stage' = At(r, "locked") /\ UNCHANGED <<of, go, next>>
  /\ RunKeeps /\ UNCHANGED <<owed, pastVars>>

(* Variant of Begin: the flag is not locked.                                *)
BeginUnlocked(r) ==
  /\ stage[r] = "queued"
  /\ Cardinality({s \in Runs : OnThread(s)}) < Threads
  /\ IF ~go[r]
     THEN stage' = At(r, "free") /\ UNCHANGED <<of, go, next>>
     ELSE IF expires[of[r]] = "before"
     THEN \E n \in Free : /\ PostRun(n, of[r], At(r, "locked"))
                          /\ next' = [next EXCEPT ![r] = n]
     ELSE stage' = At(r, "locked") /\ UNCHANGED <<of, go, next>>
  /\ RunKeeps /\ UNCHANGED <<owed, pastVars>>

(* A thread takes run r.  It ends at once if it was refused or if its flag *)
(* is gone; otherwise it holds the flag from now on and, if the period is  *)
(* counted from before the call, posts the next run.                       *)
Begin(r) ==
  /\ stage[r] = "queued"
  /\ Cardinality({s \in Runs : OnThread(s)}) < Threads
  /\ IF ~go[r] \/ ~FlagAlive(of[r])
     THEN stage' = At(r, "free") /\ UNCHANGED <<of, go, next>>
     ELSE IF expires[of[r]] = "before"
     THEN \E n \in Free : /\ PostRun(n, of[r], At(r, "locked"))
                          /\ next' = [next EXCEPT ![r] = n]
     ELSE stage' = At(r, "locked") /\ UNCHANGED <<of, go, next>>
  /\ RunKeeps /\ UNCHANGED <<owed, pastVars>>

Call(r) ==
  /\ stage[r] = "locked"
  /\ flag[of[r]]
  /\ stage' = At(r, "called")
  /\ owed' = IF kind[of[r]] = "sync" THEN owed ELSE owed \cup {r}
  /\ RunKeeps /\ UNCHANGED <<of, go, next, pastVars>>

(* The handler tells whether the timer shall go on: the return value of a  *)
(* synchronous one.  s is what becomes of the stages.                      *)
Decide(r, ready, s) ==
  LET t == of[r] IN
  /\ IF expires[t] = "after"
     THEN IF ready THEN Again(t, s) ELSE stage' = s /\ UNCHANGED <<of, go>>
     ELSE /\ stage' = s
          /\ go' = IF ready THEN go ELSE [go EXCEPT ![next[r]] = FALSE]
          /\ UNCHANGED of
  /\ next' = [next EXCEPT ![r] = NoRun]
  /\ IF ready THEN UNCHANGED pastVars
     ELSE IF expires[t] = "after" \/ stage[next[r]] = "queued"
     THEN refused' = refused \cup {t} /\ UNCHANGED late
     ELSE late' = late \cup {t} /\ UNCHANGED refused

(* A suspended timer is not called.  It goes on, except that expires_at::  *)
(* before with a synchronous handler takes it for a refusal.               *)
PassOver(r) ==
  /\ stage[r] = "locked"
  /\ ~flag[of[r]]
  /\ Decide(r, kind[of[r]] # "sync" \/ expires[of[r]] = "after", At(r, "leaving"))
  /\ RunKeeps /\ UNCHANGED owed

Return(r) ==
  /\ stage[r] = "called"
  /\ IF kind[of[r]] = "sync"
     THEN \E ready \in BOOLEAN : Decide(r, ready, At(r, "leaving"))
     ELSE stage' = At(r, "leaving") /\ UNCHANGED <<of, go, next, pastVars>>
  /\ RunKeeps /\ UNCHANGED owed

(* The end of the run's function, where it lets go of the flag.            *)
Leave(r) ==
  /\ stage[r] = "leaving"
  /\ stage' = At(r, "free")
  /\ RunKeeps /\ UNCHANGED <<of, go, next, owed, pastVars>>

(* Variant of Tell: the callback may be called again.                      *)
TellTwice(r, ready) ==
  /\ UNCHANGED owed
  /\ Decide(r, ready, stage)
  /\ RunKeeps

(* The callback given to an asynchronous handler is called, from anywhere. *)
Tell(r, ready) ==
  /\ owed' = owed \ {r}
  /\ Decide(r, ready, stage)
  /\ RunKeeps

Answer(r) == r \in owed /\ \E ready \in BOOLEAN : Tell(r, ready)

(* The callback is destroyed without having been called.                   *)
Forget(r) ==
  /\ r \in owed
  /\ owed' = owed \ {r}
  /\ next' = [next EXCEPT ![r] = NoRun]
  /\ RunKeeps /\ UNCHANGED <<stage, of, go, pastVars>>

ManagerStep ==
  \/ \E k \in Kinds, e \in Expires : Create(k, e)
  \/ Reset
  \/ DestroyQueue \/ ClearQueue
  \/ \E t \in Timer : Detach(t) \/ Release(t) \/ DropHandle(t) \/ Switch(t)

RunStep(r) == Begin(r) \/ Call(r) \/ PassOver(r) \/ Return(r) \/ Leave(r)

Next == \/ ManagerStep
        \/ \E r \in Runs : RunStep(r) \/ Answer(r) \/ Forget(r)

Spec == Init /\ [][Next]_vars

-----------------------------------------------------------------------------
(* The ways in which a timer may come to its next run.                     *)
Chain(t) == {r \in Runs :
               /\ of[r] = t
               /\ \/ stage[r] = "queued"
                  \/ /\ expires[t] = "after"
                     /\ \/ stage[r] = "locked"
                        \/ stage[r] = "called" /\ kind[t] = "sync"
                        \/ r \in owed}

(* A timer is a single chain: whatever overlaps, comes late or is switched *)
(* off and on, no step starts a second one (basic_timer_handler.hpp:75-209).*)
OneChain == \A t \in Timer : \A r, s \in Chain(t) : r = s

(* Once neither the map nor a client nor a run holds a timer's flag, its   *)
(* handler is never called again, although runs of it are still posted and *)
(* callbacks still to come (timer_manager_base.cpp:19-47).                 *)
CutIsFinal ==
  [][\A t \in 1..idCounter :
       ~FlagAlive(t) => /\ ~FlagAlive(t)'
                        /\ \A r \in Runs : (stage[r] # "called" /\ of[r] = t)
                                             => stage'[r] # "called"]_vars

CallsOf(t) == {r \in Runs : of[r] = t /\ stage[r] = "called"}

(* The runs of a timer that a thread is in, past the look at pres.         *)
UnderWay(t) == {r \in Runs : of[r] = t /\ OnThread(r)}

(* After a handler's false, in its return value or through its callback,   *)
(* no further run gets under way, if the next one had not begun by then;   *)
(* older ones may still be on their way to their call                      *)
(* (basic_timer_handler.hpp:89, 160, 204).                                 *)
RefusalObeyed ==
  [][\A t \in refused : UnderWay(t)' \subseteq UnderWay(t)]_vars

(* The same without the condition, as workflow.hpp says of the handler:    *)
(* "false - для завершения".                                               *)
FalseStopsTimer ==
  [][\A t \in refused \cup late : UnderWay(t)' \subseteq UnderWay(t)]_vars

=============================================================================
