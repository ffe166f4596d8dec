-------------------------------- MODULE Workflow --------------------------------
(***************************************************************************)
(* The facade of wflow/workflow.cpp over the task manager of Bique: its    *)
(* calls, and the warning timer that watches the queue.  That timer lives  *)
(* in the timer manager of this workflow or, if there is a control         *)
(* workflow, in the manager of that one; its id is one of that manager's.  *)
(* Its handler is wrapped by the owner that stop() resets.                 *)
(***************************************************************************)
EXTENDS Bique

CONSTANT Controls   (* the managers reconfigure() may choose for it        *)

Managers == {"self", "control"}
ASSUME ControlsAssumption == Controls \subseteq Managers

VARIABLES
  idCounter,  (* _id_counter of each manager                               *)
  timers,     (* the timers in the maps: manager, id, what it is           *)
  control,    (* the manager that _handlers.control_workflow stands for    *)
  watched,    (* _opt.control_ms # 0                                       *)
  wrnTimer,   (* _wrn_timer                                                *)
  oldTimer,   (* old_timer                                                 *)
  init,       (* how far initialize_() is                                  *)
  moved,      (* has the control workflow ever changed                     *)
  lost        (* is the warning timer gone, by a call of the owner         *)

wfVars == <<idCounter, timers, control, watched, wrnTimer, oldTimer, init, moved, lost>>
allVars == <<bqVars, wfVars>>

Kinds == {"client", "warning", "stale", "ended"}

TypeOK ==
  /\ BqTypeOK
  /\ idCounter \in [Managers -> Nat]
  /\ timers \subseteq [mgr : Managers, id : Nat, kind : Kinds]
  /\ control \in Managers /\ watched \in BOOLEAN
  /\ wrnTimer \in Nat /\ oldTimer \in Nat
  /\ init \in {"create", "release", "done"}
  /\ moved \in BOOLEAN /\ lost \in BOOLEAN

Init ==
  /\ BqInit
  /\ idCounter = [m \in Managers |-> 0]
  /\ timers = {}
  /\ control \in Controls
  /\ watched = (use.timers # 0)
  /\ wrnTimer = 0 /\ oldTimer = 0
  /\ init = "create"
  /\ moved = FALSE /\ lost = FALSE

-----------------------------------------------------------------------------
Without(m, id) == {x \in timers : ~(x.mgr = m /\ x.id = id)}

Create(m, k) ==
  /\ idCounter' = [idCounter EXCEPT ![m] = @ + 1]
  /\ timers' = timers \cup {[mgr |-> m, id |-> idCounter'[m], kind |-> k]}

(* Variant of CreateWarning: the old id is read when it has changed.       *)
CreateWarningFirst ==
  /\ init = "create" /\ call = "idle"
  /\ IF watched THEN Create(control, "warning") /\ wrnTimer' = idCounter'[control]
                ELSE UNCHANGED <<idCounter, timers, wrnTimer>>
  /\ oldTimer' = wrnTimer' /\ lost' = FALSE
  /\ init' = "release"
  /\ UNCHANGED <<bqVars, control, watched, moved>>

(* create_wrn_timer_(): first the new timer, then the release of the old.  *)
CreateWarning ==
  /\ init = "create" /\ call = "idle"
  /\ oldTimer' = wrnTimer
  /\ IF watched THEN Create(control, "warning") /\ wrnTimer' = idCounter'[control]
                ELSE UNCHANGED <<idCounter, timers, wrnTimer>>
  /\ lost' = FALSE
  /\ init' = "release"
  /\ UNCHANGED <<bqVars, control, watched, moved>>

ReleaseOld ==
  /\ init = "release"
  /\ timers' = Without(control, oldTimer)
  /\ init' = "done"
  /\ UNCHANGED <<bqVars, idCounter, control, watched, wrnTimer, oldTimer, moved, lost>>

-----------------------------------------------------------------------------
(* The calls of the workflow.                                              *)
Ready == init = "done"

WfReconfigure(n, c, on) ==
  /\ Ready /\ use.timers # 0
  /\ Reconfigure(n)
  /\ control' = c /\ watched' = on
  /\ moved' = (moved \/ c # control)
  /\ init' = "create"
  /\ UNCHANGED <<idCounter, timers, wrnTimer, oldTimer, lost>>

(* stop() resets the owner of the handler, wherever its timer is.          *)
WfStop ==
  /\ Ready /\ Stop
  /\ timers' = {IF x.kind = "warning" THEN [x EXCEPT !.kind = "stale"] ELSE x : x \in timers}
  /\ lost' = TRUE
  /\ UNCHANGED <<idCounter, control, watched, wrnTimer, oldTimer, init, moved>>

(* reset() and shutdown() reset the timer manager of this workflow.        *)
ClearTimers ==
  /\ timers' = {x \in timers : x.mgr # "self"}
  /\ lost' = (lost \/ control = "self")
  /\ UNCHANGED <<idCounter, control, watched, wrnTimer, oldTimer, init, moved>>

WfReset == Ready /\ Reset /\ ClearTimers

WfShutdown == Ready /\ Shutdown /\ ClearTimers

(* A client's timer in either workflow; use.timers bounds their ids.       *)
CreateTimer(m) ==
  /\ idCounter[m] < use.timers
  /\ Create(m, "client")
  /\ UNCHANGED <<bqVars, control, watched, wrnTimer, oldTimer, init, moved, lost>>

(* A run of a warning timer whose owner was reset ends its chain.          *)
WarningEnds(x) ==
  /\ x.kind = "stale"
  /\ timers' = (timers \ {x}) \cup {[x EXCEPT !.kind = "ended"]}
  /\ UNCHANGED <<bqVars, idCounter, control, watched, wrnTimer, oldTimer, init, moved, lost>>

WfCalls ==
  \/ CreateWarning \/ ReleaseOld
  \/ \E n \in use.sizes, c \in Controls, on \in BOOLEAN : WfReconfigure(n, c, on)
  \/ WfStop \/ WfReset \/ WfShutdown
  \/ \E m \in Controls : CreateTimer(m)
  \/ \E x \in timers : WarningEnds(x)

(* Without a warning timer reconfigure() is that of the task manager.      *)
PlainCalls ==
  /\ \/ Start \/ Wait \/ CallGoesOn
     \/ use.timers = 0 /\ \E n \in use.sizes : Reconfigure(n)
     \/ \E t \in Tasks : Post(t) \/ SafePost(t) \/ Expire(t) \/ CallerServes(t)
     \/ \E w \in Threads : Worker(w)
  /\ Ready
  /\ UNCHANGED wfVars

Next == WfCalls \/ PlainCalls

Spec == Init /\ [][Next]_allVars

-----------------------------------------------------------------------------
Warnings == {x \in timers : x.kind # "client"}

(* As long as its control workflow stays the same, a workflow has one      *)
(* warning timer or none, as its options say, between any two calls of     *)
(* reconfigure(), whatever stop(), reset() and shutdown() have done to it  *)
(* before (workflow.cpp:272-332).                                          *)
OneWarning ==
  (Ready /\ ~moved) =>
     /\ \A x \in Warnings : x.mgr = control /\ x.id = wrnTimer /\ watched
     /\ (watched /\ ~lost) => \E x \in Warnings : x.kind = "warning"

(* A reconfigure() takes no timer of a client away (workflow.hpp:193: it   *)
(* works "without a reset").                                               *)
ClientTimersStay ==
  [][(init = "release" /\ init' = "done")
       => {x \in timers : x.kind = "client"} \subseteq timers']_allVars

=============================================================================
