-------------------------- MODULE MCGroupMembers ----------------------------
(* Small instances of GroupMembers for TLC.                                  *)
EXTENDS GroupMembers, TLC

CONSTANTS w1, w2, m1, m2, m3

TwoWorkers == {w1, w2}
TwoMembers == {m1, m2}
ThreeMembers == {m1, m2, m3}
Symmetry == Permutations(TwoWorkers) \cup Permutations(ThreeMembers)
Finishes == {"finish"}
AllFaults == FaultKinds
=============================================================================
