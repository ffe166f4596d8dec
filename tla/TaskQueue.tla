------------------------------ MODULE TaskQueue ------------------------------
(***************************************************************************)
(* What a wflow queue promises to the code that posts to it, whichever of  *)
(* the two implementations (delayed_queue, asio_queue) is behind it.       *)
(*                                                                         *)
(* A task is offered once.  The queue either accepts it or refuses it.  An *)
(* accepted task is started at most once, never before its time point, and *)
(* then finishes; the only other way out of the queue is to be discarded   *)
(* by reset().  A refused or discarded task is never started.              *)
(***************************************************************************)
EXTENDS Naturals

CONSTANTS Tasks,      (* the tasks that may be offered                     *)
          MaxTime     (* the last instant of the modelled clock            *)

VARIABLES status,     (* where each task is in its life                    *)
          due,        (* the instant from which a task may be started      *)
          now         (* the clock                                         *)

vars == <<status, due, now>>

Status == {"fresh", "pending", "started", "finished", "refused", "discarded"}

TypeOK == /\ status \in [Tasks -> Status]
          /\ due \in [Tasks -> 0..MaxTime]
          /\ now \in 0..MaxTime

Init == /\ status = [t \in Tasks |-> "fresh"]
        /\ due = [t \in Tasks |-> 0]
        /\ now = 0

Become(t, from, to) == /\ status[t] = from
                       /\ status' = [status EXCEPT ![t] = to]
                       /\ UNCHANGED now

Accept(t) == /\ Become(t, "fresh", "pending")
             /\ \E tp \in 0..MaxTime : due' = [due EXCEPT ![t] = tp]

Refuse(t) == Become(t, "fresh", "refused") /\ UNCHANGED due

Start(t) == /\ due[t] <= now
            /\ Become(t, "pending", "started")
            /\ UNCHANGED due

Finish(t) == Become(t, "started", "finished") /\ UNCHANGED due

Discard(t) == Become(t, "pending", "discarded") /\ UNCHANGED due

Tick == now < MaxTime /\ now' = now + 1 /\ UNCHANGED <<status, due>>

Next == \/ \E t \in Tasks : Accept(t) \/ Refuse(t) \/ Start(t)
                              \/ Finish(t) \/ Discard(t)
        \/ Tick

Spec == Init /\ [][Next]_vars
==============================================================================
