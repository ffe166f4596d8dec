----------------------------- MODULE MCThreadPool -----------------------------
(* Small instances of ThreadPool for TLC.                                  *)
EXTENDS ThreadPool, TLC

CONSTANTS p1, p2, p3, c1, c2

TwoThreads == {p1, p2}
ThreeThreads == {p1, p2, p3}
OneClient == {c1}
TwoClients == {c1, c2}

OneOrTwo == {1, 2}
NoneToTwo == {0, 1, 2}

EveryCall == AllCalls
AllButStop == {"start", "shutdown", "wait", "reconfigure"}
===============================================================================
