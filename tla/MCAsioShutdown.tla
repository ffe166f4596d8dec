----------------------------- MODULE MCAsioShutdown -----------------------------
(* A small instance of AsioShutdown for TLC.                               *)
EXTENDS MCAsioQueue, AsioShutdown
================================================================================
