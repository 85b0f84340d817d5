--------------------------- MODULE MCVerdictStore ---------------------------
(* Finite instances of VerdictStore for TLC. *)
EXTENDS VerdictStore, TLC

CONSTANTS r1, r2

TwoRuns == {r1, r2}
OnlyFirst == {r1}
=============================================================================
