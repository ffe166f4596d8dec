------------------------------ MODULE MCRequester ------------------------------
(* Small instances of the timers and the requester for TLC.                *)
EXTENDS Requester, TLC

CONSTANTS r1, r2, r3, r4

ThreeRuns == {r1, r2, r3}
FourRuns == {r1, r2, r3, r4}
AnyRun == Permutations(Runs)
AnyHandler == AllKinds
AsyncOnly == {"async", "requester"}
SyncOnly == {"sync"}
BothExpires == {"after", "before"}
BeforeOnly == {"before"}
=============================================================================
