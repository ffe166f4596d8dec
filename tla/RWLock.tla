--------------------------------- MODULE RWLock ---------------------------------
(***************************************************************************)
(* The reader-writer lock of wflow/mutex/rwlock.hpp.  Its two counters are *)
(* only touched under a plain mutex, so a call is one step up to the place *)
(* where it has to wait: the test that finds the lock taken puts the thread*)
(* to sleep on one of two condition variables and gives up the mutex, and  *)
(* a thread that is notified, or wakes by itself, tests again.             *)
(***************************************************************************)
EXTENDS Integers, FiniteSets

CONSTANT Threads

ASSUME ThreadsAssumption == IsFiniteSet(Threads)

VARIABLES
  readers,   (* _readers                                                  *)
  writer,    (* _writer                                                   *)
  at         (* where each thread is in its calls of the lock             *)

lockVars == <<readers, writer, at>>

Places == {"out", "wantR", "wantW", "sleepR", "sleepW", "reads", "writes"}

(* The threads at a place.                                                 *)
At(p) == {t \in Threads : at[t] = p}

LockTypeOK ==
  /\ readers \in Nat /\ writer \in Nat
  /\ at \in [Threads -> Places]

LockInit ==
  /\ readers = 0 /\ writer = 0
  /\ at = [t \in Threads |-> "out"]

-----------------------------------------------------------------------------
(* A thread comes to lock() or lock_r().                                   *)
Ask(t, p) ==
  /\ p \in {"wantR", "wantW"}
  /\ at[t] = "out"
  /\ at' = [at EXCEPT ![t] = p]
  /\ UNCHANGED <<readers, writer>>

(* Variant of Lock: a writer does not wait for the readers.                *)
LockRegardless(t) ==
  /\ at[t] = "wantW"
  /\ IF writer = 0
     THEN writer' = writer + 1 /\ at' = [at EXCEPT ![t] = "writes"]
     ELSE at' = [at EXCEPT ![t] = "sleepW"] /\ UNCHANGED writer
  /\ UNCHANGED readers

Lock(t) ==
  /\ at[t] = "wantW"
  /\ IF writer = 0 /\ readers = 0
     THEN writer' = writer + 1 /\ at' = [at EXCEPT ![t] = "writes"]
     ELSE at' = [at EXCEPT ![t] = "sleepW"] /\ UNCHANGED writer
  /\ UNCHANGED readers

LockR(t) ==
  /\ at[t] = "wantR"
  /\ IF writer = 0
     THEN readers' = readers + 1 /\ at' = [at EXCEPT ![t] = "reads"]
     ELSE at' = [at EXCEPT ![t] = "sleepR"] /\ UNCHANGED readers
  /\ UNCHANGED writer

(* What notify_all() makes of a thread.                                    *)
Wake(p, which) == CASE p = "sleepR" /\ "readers" \in which -> "wantR"
                    [] p = "sleepW" /\ "writers" \in which -> "wantW"
                    [] OTHER -> p

(* Thread t leaves and the sleepers of some condition variables wake.      *)
Depart(t, which) ==
  at' = [u \in Threads |-> IF u = t THEN "out" ELSE Wake(at[u], which)]

(* Variant of Unlock: only one kind of sleeper is told.                    *)
UnlockForWriters(t) ==
  /\ at[t] = "writes"
  /\ writer' = writer - 1
  /\ Depart(t, {"writers"})
  /\ UNCHANGED readers

Unlock(t) ==
  /\ at[t] = "writes"
  /\ writer' = writer - 1
  /\ Depart(t, {"writers", "readers"})
  /\ UNCHANGED readers

UnlockR(t) ==
  /\ at[t] = "reads"
  /\ readers' = readers - 1
  /\ Depart(t, IF readers' = 0 THEN {"writers"} ELSE {})
  /\ UNCHANGED writer

(* A condition variable may wake a thread for no reason.                   *)
Spurious(t) ==
  /\ at[t] \in {"sleepR", "sleepW"}
  /\ at' = [at EXCEPT ![t] = Wake(@, {"readers", "writers"})]
  /\ UNCHANGED <<readers, writer>>

Test(t) == Lock(t) \/ LockR(t) \/ Spurious(t)

LockNext == \E t \in Threads :
              \/ Ask(t, "wantR") \/ Ask(t, "wantW")
              \/ Test(t) \/ Unlock(t) \/ UnlockR(t)

LockSpec == LockInit /\ [][LockNext]_lockVars

-----------------------------------------------------------------------------
(* A writer is alone, and the counters are the numbers of threads inside:  *)
(* none of the calls of abort() in rwlock.hpp:47-85 is reached.            *)
Exclusion ==
  /\ readers = Cardinality(At("reads"))
  /\ writer = Cardinality(At("writes"))
  /\ writer <= 1
  /\ writer = 1 => readers = 0

(* No thread sleeps on while the lock is free for it: notify_all() is      *)
(* called wherever the condition of a sleeper may have become true         *)
(* (rwlock.hpp:58-85).                                                     *)
NobodyForgotten ==
  /\ At("sleepR") # {} => writer # 0
  /\ At("sleepW") # {} => writer # 0 \/ readers # 0

=============================================================================
