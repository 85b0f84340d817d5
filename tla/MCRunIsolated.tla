--------------------------- MODULE MCRunIsolated ---------------------------
(* Finite instances of RunIsolated for TLC. *)
EXTENDS RunIsolated, TLC

CONSTANTS r1, r2

TwoRuns == {r1, r2}
OnlyFirst == {r1}

(* Earlier verdicts differ only in whether they are judged, and an unreadable *)
(* one counts as none: three of the initial states stand for all six.        *)
MCInit ==
  /\ WrapperInit
  /\ current \in [run : {Earlier}, status : {"accepted", "error"}] \cup {NoRecord}

MCSpec == MCInit /\ [][WrapperNext]_wrapperVars
=============================================================================
