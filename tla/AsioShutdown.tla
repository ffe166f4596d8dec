------------------------------ MODULE AsioShutdown ------------------------------
(***************************************************************************)
(* AsioQueue with a history variable that tells an io_context stopped by   *)
(* its owner from one that has stopped because it ran out of work.         *)
(***************************************************************************)
EXTENDS AsioQueue

VARIABLE halted   (* has stop() been called since the last reset()         *)

shVars == <<vars, halted>>

ShInit == Init /\ halted = FALSE

ShNext == Next /\ halted' = (Stop \/ (halted /\ ~Reset))

ShFairSpec == ShInit /\ [][ShNext]_shVars /\ Fairness

-----------------------------------------------------------------------------
(* A shutdown loses nothing: a handler that comes to an io_context with    *)
(* threads in it, be it ready, waiting for its time or running, comes to   *)
(* its end whenever the pool lets go of its guard and however the threads  *)
(* go in and out meanwhile; only a stop() leaves any behind.  (A post that *)
(* has counted its task and not yet handed it over may be too late: the    *)
(* task then comes to an io_context that has stopped for want of work.)    *)
(* (thread_pool_base.cpp:99-115, asio_queue.cpp:29-67, 84-142)             *)
ShutdownLosesNothing ==
  \A t \in Tasks :
    (fate[t] = "accepted" /\ ~stopped /\ ~AllDone)
      ~> (fate[t] \in {"finished", "discarded"} \/ halted)
=============================================================================
