------------------------- MODULE MCAsyncToolResume --------------------------
(* Small instances of AsyncToolResume for TLC.                               *)
EXTENDS AsyncToolResume, TLC

CONSTANTS w1, w2, w3, t1, t2

TwoWorkers == {w1, w2}
ThreeWorkers == {w1, w2, w3}
TwoTools == {t1, t2}
Symmetry == Permutations(ThreeWorkers) \cup Permutations(TwoTools)
AllFaults == FaultKinds
HandlerFaults == {"throw", "duplicate", "lag", "arm", "webhook"}
=============================================================================
