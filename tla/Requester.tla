------------------------------- MODULE Requester -------------------------------
(***************************************************************************)
(* The requester of wflow/timer/requester.hpp on top of the timers: the    *)
(* asynchronous handler that asks a generator for a request, gives it to a *)
(* sender and, when the sender calls back with a response, asks the        *)
(* generator again from a handler of its own in the queue, until there is  *)
(* no further request.  Only then is the timer told to go on.              *)
(*                                                                         *)
(* The sender calls back once or not at all, and not if it returns false.  *)
(***************************************************************************)
EXTENDS Timers

VARIABLE ask   (* where the round of requests of each run is               *)

Asks == {"none", "sent", "back", "lost"}

reqVars == <<vars, ask>>

ReqTypeOK == TypeOK /\ ask \in [Runs -> Asks]

ReqInit == Init /\ ask = [r \in Runs |-> "none"]

AskIs(r, a) == ask' = [ask EXCEPT ![r] = a]

IsRequester(r) == kind[of[r]] = "requester"

-----------------------------------------------------------------------------
(* The run calls generator(nullptr) and the sender.                        *)
FirstRequest(r) == Call(r) /\ IF IsRequester(r) THEN AskIs(r, "sent") ELSE UNCHANGED ask

(* The sender returns false.                                               *)
SenderRefuses(r) == ask[r] = "sent" /\ Tell(r, FALSE) /\ AskIs(r, "none")

(* The sender calls back with nothing, or the queue refuses the handler    *)
(* that would go on and calls its drop handler.                            *)
NoResponse(r) == ask[r] = "sent" /\ queueAlive /\ Tell(r, TRUE) /\ AskIs(r, "none")

(* Variant of Response: the timer is told to go on as well.                *)
ResponseTells(r) == ask[r] = "sent" /\ queueAlive /\ AskIs(r, "back") /\ Tell(r, TRUE)

(* It calls back with a response; a handler that goes on is posted.        *)
Response(r) == ask[r] = "sent" /\ queueAlive /\ AskIs(r, "back") /\ UNCHANGED vars

(* It calls back and the queue is gone: nobody is told.                    *)
NoQueue(r) == ask[r] = "sent" /\ ~queueAlive /\ AskIs(r, "lost") /\ UNCHANGED vars

(* The posted handler asks the generator for the next request.             *)
NextRequest(r) == ask[r] = "back" /\ queueAlive /\ AskIs(r, "sent") /\ UNCHANGED vars

(* Variant of LastRequest: at the end of the sequence nobody is told.      *)
LastUntold(r) == ask[r] = "back" /\ queueAlive /\ AskIs(r, "none") /\ UNCHANGED vars

LastRequest(r) == ask[r] = "back" /\ queueAlive /\ Tell(r, TRUE) /\ AskIs(r, "none")

(* The callback, or the posted handler, is destroyed without a call.       *)
Abandoned(r) ==
  /\ ask[r] \in {"sent", "lost"} \/ (ask[r] = "back" /\ ~queueAlive)
  /\ Forget(r) /\ AskIs(r, "none")

(* A reset of the queue destroys the posted handler.                       *)
Discarded(r) == ask[r] = "back" /\ queueAlive /\ Forget(r) /\ AskIs(r, "none")

Round(r) == \/ SenderRefuses(r) \/ NoResponse(r) \/ Response(r) \/ NoQueue(r)
            \/ NextRequest(r) \/ LastRequest(r)
            \/ Abandoned(r) \/ Discarded(r)

OtherAnswer(r) ==
  r \in owed /\ ~IsRequester(r) /\ (Answer(r) \/ Forget(r)) /\ UNCHANGED ask

OtherStep(r) == (Begin(r) \/ PassOver(r) \/ Return(r) \/ Leave(r)) /\ UNCHANGED ask

ReqNext == \/ ManagerStep /\ UNCHANGED ask
           \/ \E r \in Runs : FirstRequest(r) \/ OtherStep(r) \/ OtherAnswer(r) \/ Round(r)

ReqSpec == ReqInit /\ [][ReqNext]_reqVars

-----------------------------------------------------------------------------
(* The queue takes what is posted (the liveness of the queue modules), so  *)
(* Begin is strongly fair; handlers return, senders call back or let go of *)
(* their callback, and generators come to an end.                          *)
Fairness ==
  \A r \in Runs :
    /\ SF_reqVars(Begin(r) /\ UNCHANGED ask)
    /\ WF_reqVars(FirstRequest(r))
    /\ WF_reqVars(PassOver(r) /\ UNCHANGED ask)
    /\ WF_reqVars((Return(r) \/ Leave(r)) /\ UNCHANGED ask)
    /\ WF_reqVars(OtherAnswer(r))
    /\ WF_reqVars(SenderRefuses(r) \/ NoResponse(r) \/ Response(r) \/ NoQueue(r))
    /\ WF_reqVars(Abandoned(r))
    /\ SF_reqVars(LastRequest(r))

FairReqSpec == ReqSpec /\ Fairness

(* A requester is an asynchronous handler as the timers expect one: it     *)
(* tells its timer at most once for each call (requester.hpp:63-96).       *)
IsAsyncHandler == Spec

(* A timer that stays in the map is called again and again, as long as its *)
(* chain has not ended: through refusals, forgotten callbacks or the end   *)
(* of the queue (basic_timer_handler.hpp:75-209).                          *)
TimerGoesOn ==
  \A t \in Timer : []<>(t \notin idMap \/ Chain(t) = {} \/ CallsOf(t) # {})

=============================================================================
