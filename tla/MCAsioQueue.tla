------------------------------ MODULE MCAsioQueue ------------------------------
(* Small instances of AsioQueue for TLC.                                   *)
EXTENDS AsioQueue, TLC

CONSTANTS t1, t2, t3, w1, w2

Pair == {t1, t2}
Triple == {t1, t2, t3}
TwoWorkers == {w1, w2}

RunAndRunOne == w1 :> "run" @@ w2 :> "run_one"
RunForAndPoll == w1 :> "run_for_ms" @@ w2 :> "poll_one"

Limit1 == {1}
SomeLimits == {0, 1}

AnyTask == Permutations(Tasks)
================================================================================
