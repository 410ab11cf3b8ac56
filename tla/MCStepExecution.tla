--------------------------- MODULE MCStepExecution --------------------------
(* StepExecution on a small instance: values for TLC and its symmetry.       *)
EXTENDS StepExecutionInvariant, TLC

CONSTANTS w1, w2, r1

TwoWorkers == {w1, w2}
OneRequester == {r1}
NoRequesters == {}
Symmetry == Permutations(Workers)

NoFaults == {}
LeaseFaults == {"crash", "throw", "swallow", "duplicate"}
Exceptions == {"throw", "duplicate"}
Crashes == {"crash", "duplicate", "lapse", "failOpen"}
=============================================================================
