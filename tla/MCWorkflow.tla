-------------------------------- MODULE MCWorkflow --------------------------------
(* Instances of Workflow.                                                  *)
EXTENDS Workflow, TLC

CONSTANTS t1, t2, w1, w2, w3

TwoTasks == {t1, t2}
TwoThreads == {w1, w2}
ThreeThreads == {w1, w2, w3}

(* Managers of their own io_context and on one of the caller, with delayed *)
(* posts, with the other queue, and with a warning timer.                  *)
Own == [asio |-> TRUE, io |-> FALSE, delayed |-> FALSE, size |-> 1, sizes |-> {0, 1, 2},
        posts |-> 2, timers |-> 0]
Watched == [Own EXCEPT !.posts = 0, !.timers = 3, !.io = TRUE, !.size = 0, !.sizes = {0}]
AllUses == {Own, [Own EXCEPT !.delayed = TRUE, !.io = TRUE], [Own EXCEPT !.asio = FALSE],
            [Own EXCEPT !.io = TRUE, !.size = 0], Watched}
JustWatched == {Watched}
JustOwn == {Own}
Alike == Permutations(Tasks) \cup Permutations(Threads)
=============================================================================
