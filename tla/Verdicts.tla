------------------------------ MODULE Verdicts ------------------------------
(***************************************************************************)
(* The vocabulary of verdict records.  evaluation/judge/judge.py writes a  *)
(* JSON record per judge run; of its fields only the run that wrote it and *)
(* its "status" decide what may replace what.                              *)
(***************************************************************************)
CONSTANTS
  Run,         \* judge runs (one run_id each) on one problem and submission
  Earlier,     \* stands for every run that ended before these started
  NoRecord,    \* the file does not exist
  Unreadable   \* the file exists and does not parse (an incomplete write)

ASSUME VerdictConstants ==
  /\ Earlier \notin Run
  /\ NoRecord \notin [run : Run \cup {Earlier},
                      status : {"accepted", "rejected", "error", "retry"}]
  /\ Unreadable \notin [run : Run \cup {Earlier},
                        status : {"accepted", "rejected", "error", "retry"}]
  /\ NoRecord # Unreadable

Status == {"accepted", "rejected", "error", "retry"}

(* The statuses that promote: `result["status"] in ("accepted", "rejected")`. *)
JudgedStatus == {"accepted", "rejected"}

Record == [run : Run \cup {Earlier}, status : Status]

RecordOf(r) == [run : {r}, status : Status]

RecordFile == Record \cup {NoRecord, Unreadable}

IsJudged(file) == file \in Record /\ file.status \in JudgedStatus
=============================================================================
