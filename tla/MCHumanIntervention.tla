------------------------- MODULE MCHumanIntervention -------------------------
(* Small instances of HumanIntervention for TLC.                             *)
EXTENDS HumanIntervention, TLC

CONSTANTS c1, c2, c3

TwoCalls == {c1, c2}
ThreeCalls == {c1, c2, c3}
AnyAnswer == AnswerKinds
Continues == {"approve", "continue"}
AnyNature == ToolNatures
Plain == {"plain"}
AllFaults == {"duplicate", "crash", "throw"}
NoFaults == {}
=============================================================================
