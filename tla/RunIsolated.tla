----------------------------- MODULE RunIsolated -----------------------------
(***************************************************************************)
(* The end of scripts/run_isolated.sh: the host waits for the container of *)
(* its judge run, then looks for a verdict that is evidence of this run    *)
(* before it repeats the container's exit code.  Other wrapped runs of the *)
(* same submission may replace the current verdict between any two steps.  *)
(***************************************************************************)
EXTENDS JudgeProcess

CONSTANT
  Wrapped   \* the runs this script started; the others are bare

ASSUME WrappedAssumption == Wrapped \subseteq Run

VARIABLES
  step,      \* where each wrapper is
  status     \* STATUS: the container's exit code, then the wrapper's own

wrapperVars == <<vars, step, status>>

NoStatus == -1

WrapperTypeOK ==
  /\ TypeOK
  /\ step \in [Run -> {"waiting", "current", "attempt", "done"}]
  /\ status \in [Run -> {NoStatus, 0, 1, 2, 3, 137}]

WrapperInit ==
  /\ Init
  /\ step = [r \in Run |-> "waiting"]
  /\ status = [r \in Run |-> NoStatus]

(* docker run reports 137 for a judge that was killed. *)
ContainerStatus(r) == IF pc[r] = "killed" THEN 137 ELSE exitCode[r]

(* PIPE_STATUSES: feeding the seed and the answers may have failed; a        *)
(* container that exited 0 without them is an infrastructure error.          *)
Collect(r) ==
  /\ step[r] = "waiting" /\ Ended(r)
  /\ \E fed \in BOOLEAN :
       status' = [status EXCEPT ![r] =
                    IF ~fed /\ ContainerStatus(r) = 0 THEN 2 ELSE ContainerStatus(r)]
  /\ step' = [step EXCEPT ![r] = "current"]
  /\ UNCHANGED vars

Allowed(code) ==
  CASE code = 0 -> JudgedStatus
    [] code = 2 -> {"error"}
    [] code = 3 -> {"retry"}
    [] OTHER -> {}

(* Mutant of Matches: a verdict of any run will do.                          *)
Matches_AnyRun(r, file) == file \in Record /\ file.status \in Allowed(status[r])

(* The python check of one candidate file.  An accepted record of this run   *)
(* always carries this run's cohort, so the cohort comparison adds nothing.  *)
Matches(r, file) ==
  /\ file \in Record
  /\ file.run = r
  /\ file.status \in Allowed(status[r])

(* Mutant of CheckCurrent: the attempt file is not looked at.                *)
CheckCurrent_Only(r) ==
  /\ step[r] = "current"
  /\ step' = [step EXCEPT ![r] = "done"]
  /\ status' = [status EXCEPT ![r] =
                  IF ~Matches(r, current) /\ status[r] = 0 THEN 1 ELSE status[r]]
  /\ UNCHANGED vars

(* The loop over "$VERDICT" and "$ATTEMPT" stops at the first match. *)
CheckCurrent(r) ==
  /\ step[r] = "current"
  /\ step' = [step EXCEPT ![r] = IF Matches(r, current) THEN "done" ELSE "attempt"]
  /\ UNCHANGED <<vars, status>>

CheckAttempt(r) ==
  /\ step[r] = "attempt"
  /\ step' = [step EXCEPT ![r] = "done"]
  /\ status' = [status EXCEPT ![r] =
                  IF ~Matches(r, attempts[r]) /\ status[r] = 0 THEN 1 ELSE status[r]]
  /\ UNCHANGED vars

JudgeStep == Next /\ UNCHANGED <<step, status>>

WrapperNext ==
  JudgeStep \/ \E r \in Wrapped : Collect(r) \/ CheckCurrent(r) \/ CheckAttempt(r)

WrapperSpec == WrapperInit /\ [][WrapperNext]_wrapperVars

-----------------------------------------------------------------------------
(* "An old file with the same submission tag is not evidence that this run   *)
(* judged anything": exit status 0 is backed by a judged record that this    *)
(* run archived, through every signal, kill, failing write and lost pipe.    *)
SuccessIsOwnJudgement ==
  \A r \in Run : step[r] = "done" /\ status[r] = 0 => IsJudged(attempts[r])

(* Conversely a judged run whose container exited 0 is not reported as       *)
(* failed because a concurrent run has replaced the current verdict.         *)
JudgementIsReported ==
  \A r \in Run :
    step[r] = "done" /\ pc[r] = "exited" /\ exitCode[r] = 0 /\ IsJudged(attempts[r]) =>
      status[r] \in {0, 2}   \* 2: the answers never reached the judge
=============================================================================
