-------------------------------- MODULE MCOwner --------------------------------
(* Small instances of the owner for TLC.                                   *)
EXTENDS Owner, TLC

CONSTANTS t1, t2, t3, h1, h2, i1, c1, c2, c3

TwoThreads == {t1, t2}
ThreeThreads == {t1, t2, t3}
OneHandler == {h1}
TwoHandlers == {h1, h2}
OneId == {i1}
TwoCopies == {c1, c2}
ThreeCopies == {c1, c2, c3}
NoCopy == {}

(* Each group of operations has data of its own.                           *)
EachUse == {{"alive", "wrap", "reset"}, {"tracking", "release", "clear"},
            {"callback", "setNoCall"}}
WrapOnly == {{"alive", "wrap", "reset"}}
TrackOnly == {{"tracking", "release", "clear"}}
CallbackOnly == {{"callback", "setNoCall"}}
Alike == Permutations(Threads) \cup Permutations(Handlers) \cup Permutations(Copies)
=============================================================================
