---------------------------- MODULE VerdictBoard ----------------------------
(***************************************************************************)
(* What the verdict store of judge.py promises to its readers (the         *)
(* leaderboard, scripts/score.py and scripts/run_isolated.sh): each run    *)
(* files complete records in its own archive slot, and the published       *)
(* verdict of a submission is always a record its run has archived.  A     *)
(* retry or an error never takes the place of an accepted or rejected      *)
(* verdict.  Files, locks and crashes do not appear here.                  *)
(***************************************************************************)
EXTENDS Verdicts

VARIABLES
  archive,   \* archive[r]: the attempt record of run r
  board      \* the published verdict of the submission

boardVars == <<archive, board>>

Init ==
  /\ archive = [r \in Run |-> NoRecord]
  /\ board \in RecordOf(Earlier) \cup {NoRecord, Unreadable}

(* A run files a complete record under its own run_id. *)
File(r) ==
  /\ \E rec \in RecordOf(r) : archive' = [archive EXCEPT ![r] = rec]
  /\ UNCHANGED board

(* A run publishes the record it has filed. *)
Publish(r) ==
  /\ archive[r] \in RecordOf(r)
  /\ IsJudged(archive[r]) \/ ~IsJudged(board)
  /\ board' = archive[r]
  /\ UNCHANGED archive

Next == \E r \in Run : File(r) \/ Publish(r)

Spec == Init /\ [][Next]_boardVars
=============================================================================
