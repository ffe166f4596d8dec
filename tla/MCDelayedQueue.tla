---------------------------- MODULE MCDelayedQueue ----------------------------
(* Small instances of DelayedQueue for TLC.                                *)
EXTENDS DelayedQueue, TLC

CONSTANTS t1, t2, t3, w1, w2

Single == {t1}
Pair == {t1, t2}
Triple == {t1, t2, t3}
TwoWorkers == {w1, w2}

(* What the threads of a pool call: run(), or run_one() with statistics.   *)
BothRun == [w \in TwoWorkers |-> "run"]
RunAndRunOne == w1 :> "run" @@ w2 :> "run_one"
RunAndPoll == w1 :> "run" @@ w2 :> "poll_one"

Limits == {1, 2}
SomeLimits == {0, 1}
Limit1 == {1}
NoLimit == {0}

(* The tasks are interchangeable; so are workers that call the same.       *)
AnyTask == Permutations(Tasks)
AnyTaskAnyWorker == AnyTask \cup Permutations(Workers)
===============================================================================
