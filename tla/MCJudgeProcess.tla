--------------------------- MODULE MCJudgeProcess ---------------------------
(* Finite instances of JudgeProcess for TLC. *)
EXTENDS JudgeProcess, TLC

CONSTANTS r1, r2

OneRun == {r1}
OnlyFirst == {r1}
TwoRuns == {r1, r2}
=============================================================================
