-------------------------- MODULE MCJudgePipeline --------------------------
(* Model values and bounds for checking JudgePipeline.                      *)
EXTENDS JudgePipeline
=============================================================================
