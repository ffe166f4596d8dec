------------------------------ MODULE MCTaskManager ------------------------------
(* Instances of TaskManager.                                               *)
EXTENDS TaskManager

CONSTANTS t1, t2, t3, t4

FourTasks == {t1, t2, t3, t4}

(* A limit and one thread; a queue of one that is reset, and one thread;   *)
(* limits that come and go, and two threads; all of it, and two threads.   *)
Limited  == [limits |-> {1}, resets |-> {FALSE}, sizes |-> {0}, posters |-> 1,
             posts |-> {t1, t2, t3}, changes |-> 0]
Reset    == [limits |-> {0}, resets |-> {TRUE}, sizes |-> {1}, posters |-> 1,
             posts |-> FourTasks, changes |-> 0]
Switched == [limits |-> {0, 1}, resets |-> {FALSE}, sizes |-> {0}, posters |-> 1,
             posts |-> {t1, t2}, changes |-> 1]
Mixed    == [limits |-> {1}, resets |-> {TRUE}, sizes |-> {1}, posters |-> 2,
             posts |-> {t1, t2}, changes |-> 0]
AllUses == {Limited, Reset, Switched, Mixed}
=============================================================================
