---------------------------- MODULE JudgeProcess ----------------------------
(***************************************************************************)
(* main of evaluation/judge/judge.py: the life of one judge process around *)
(* judge().  What judge() decides is a choice here (JudgePipeline models   *)
(* it); this module is about what main makes of every way judge() can end, *)
(* with signals, failing system calls and kills at any point, and about    *)
(* how the processes of one submission share its verdict store.            *)
(*                                                                         *)
(* Runs are official ones: EVALUATION_RUN_ID names the run, so every       *)
(* record a process writes goes to the same attempt file.  Signals count   *)
(* from the `try` until `finally` has set cleaning[0]; before the `try`    *)
(* the default action kills the process.                                   *)
(***************************************************************************)
EXTENDS VerdictStore, Integers

CONSTANTS
  Faults,  \* what the environment may do: "signal", "os", "kill"
  Kept     \* the runs started with --keep-workspace

ASSUME ProcessConstants == Faults \subseteq {"signal", "os", "kill"} /\ Kept \subseteq Run

VARIABLES
  pc,          \* where each process is in main
  handled,     \* the status the running `except` clause reports
  exitCode,    \* how the process ended
  workspace,   \* the processes whose job directory exists
  jobDir,      \* the processes whose main knows its job directory
  disturbed,   \* history: the processes a signal or a failing system call has reached
  stuck        \* history: those whose job directory would not be thawed or removed

mainVars == <<pc, handled, exitCode, workspace, jobDir>>
historyVars == <<disturbed, stuck>>
vars == <<storeVars, mainVars, historyVars>>

Point == {"checking", "naming", "judging", "finishing", "returning",
          "caught", "storing", "leaving", "cleanup", "exited", "killed"}

NoCode == -1
Ended(r) == pc[r] \in {"exited", "killed"}

(* Mutant of Code: an error is a result.                                     *)
Code_ErrorIsZero(status) == IF status = "retry" THEN 3 ELSE 0

(* Exit codes: 0 = judged, 2 = infrastructure error, 3 = requeue. *)
Code(status) ==
  CASE status \in JudgedStatus -> 0
    [] status = "error" -> 2
    [] status = "retry" -> 3

TypeOK ==
  /\ StoreTypeOK
  /\ pc \in [Run -> Point]
  /\ handled \in [Run -> Status \cup {"none"}]
  /\ exitCode \in [Run -> {NoCode, 0, 1, 2, 3}]
  /\ workspace \subseteq Run
  /\ jobDir \subseteq workspace \cup {r \in Run : Ended(r)}
  /\ disturbed \subseteq Run
  /\ stuck \subseteq disturbed

Init ==
  /\ StoreInit
  /\ pc = [r \in Run |-> "checking"]
  /\ handled = [r \in Run |-> "none"]
  /\ exitCode = [r \in Run |-> NoCode]
  /\ workspace = {}
  /\ jobDir = {}
  /\ disturbed = {}
  /\ stuck = {}

Goto(r, point) == pc' = [pc EXCEPT ![r] = point]

(* An exception reaches the `except` clause that reports it with `status`. *)
Catch(r, status) ==
  /\ Goto(r, "caught")
  /\ handled' = [handled EXCEPT ![r] = status]
  /\ UNCHANGED <<exitCode, workspace, jobDir>>

(* SystemExit, or an exception no clause catches, reaches `finally`. *)
Leave(r, code) ==
  /\ Goto(r, "cleanup")
  /\ exitCode' = [exitCode EXCEPT ![r] = code]
  /\ UNCHANGED <<handled, workspace, jobDir>>

-----------------------------------------------------------------------------
(* The seed, a slug, the repetitions or the mode is refused: InfraError. *)
RefuseInputs(r) ==
  /\ pc[r] = "checking"
  /\ Catch(r, "error")
  /\ UNCHANGED storeVars

(* mkdtemp has returned; main has not assigned job_dir yet. *)
MakeWorkspace(r) ==
  /\ pc[r] = "checking"
  /\ workspace' = workspace \cup {r}
  /\ Goto(r, "naming")
  /\ UNCHANGED <<storeVars, handled, exitCode, jobDir>>

BindWorkspace(r) ==
  /\ pc[r] = "naming"
  /\ jobDir' = jobDir \cup {r}
  /\ Goto(r, "judging")
  /\ UNCHANGED <<storeVars, handled, exitCode, workspace>>

(* judge() reaches finish() and stores its verdict. *)
Finish(r) ==
  /\ pc[r] = "judging"
  /\ \E status \in {"accepted", "rejected", "error"} : Call(r, status)
  /\ Goto(r, "finishing")
  /\ UNCHANGED <<handled, exitCode, workspace, jobDir>>

(* Mutant of JudgeRaises: the clause exits without reporting.                *)
JudgeRaises_Silently(r) ==
  /\ pc[r] = "judging"
  /\ Leave(r, 2)
  /\ UNCHANGED storeVars

(* judge() raises SubmissionError, TimingRetry, or InfraError and the rest. *)
JudgeRaises(r) ==
  /\ pc[r] = "judging"
  /\ \E status \in {"rejected", "retry", "error"} : Catch(r, status)
  /\ UNCHANGED storeVars

(* The call of _store_verdict runs on. *)
RunStore(r) ==
  /\ pc[r] \in {"finishing", "storing"}
  /\ Advance(r)
  /\ UNCHANGED mainVars

FinishReturned(r) ==
  /\ pc[r] = "finishing" /\ ~Active(r) /\ outcome[r] = "returned"
  /\ Goto(r, "returning")
  /\ UNCHANGED <<storeVars, handled, exitCode, workspace, jobDir>>

(* Mutant of FinishRaised: the verdict is stored again until that succeeds.  *)
FinishRaised_Retries(r) ==
  /\ pc[r] = "finishing" /\ ~Active(r) /\ outcome[r] = "raised"
  /\ Call(r, payload[r].status)
  /\ UNCHANGED mainVars

(* The lock deadline or an OSError ended finish(): InfraError or Exception. *)
FinishRaised(r) ==
  /\ pc[r] = "finishing" /\ ~Active(r) /\ outcome[r] = "raised"
  /\ Catch(r, "error")
  /\ UNCHANGED storeVars

(* finish() returns 0 or 2 and sys.exit(judge(...)) raises SystemExit. *)
ExitJudged(r) ==
  /\ pc[r] = "returning"
  /\ Leave(r, Code(payload[r].status))
  /\ UNCHANGED storeVars

(* Mutant of Report: the current verdict is written without the store.       *)
Report_Directly(r) ==
  /\ pc[r] = "caught"
  /\ current' = [run |-> r, status |-> handled[r]]
  /\ Goto(r, "storing")
  /\ UNCHANGED <<attempts, lock, phase, payload, target, temp, outcome>>
  /\ UNCHANGED <<handled, exitCode, workspace, jobDir>>

(* _write_infra_verdict stores the record of the exception... *)
Report(r) ==
  /\ pc[r] = "caught"
  /\ Call(r, handled[r])
  /\ Goto(r, "storing")
  /\ UNCHANGED <<handled, exitCode, workspace, jobDir>>

(* ...and `except Exception: pass` swallows whatever storing it raised. *)
ReportDone(r) ==
  /\ pc[r] = "storing" /\ ~Active(r)
  /\ Goto(r, "leaving")
  /\ UNCHANGED <<storeVars, handled, exitCode, workspace, jobDir>>

(* The `except` clause prints and exits with the code of its status. *)
ExitReported(r) ==
  /\ pc[r] = "leaving"
  /\ Leave(r, Code(handled[r]))
  /\ UNCHANGED storeVars

(* Mutant of Removes: only after a judged exit.                              *)
Removes_OnSuccess(r) == r \in jobDir \ Kept /\ exitCode[r] = 0

(* `finally` removes the job directory main knows of, unless told to keep it. *)
Removes(r) == r \in jobDir \ Kept

(* cleaning[0] is set, the directory is thawed and removed. *)
Cleanup(r) ==
  /\ pc[r] = "cleanup"
  /\ workspace' = IF Removes(r) THEN workspace \ {r} ELSE workspace
  /\ Goto(r, "exited")
  /\ UNCHANGED <<storeVars, handled, exitCode, jobDir>>

(* thaw raises and rmtree is skipped, or rmtree ignores its errors: the      *)
(* directory, or a part of it, stays and the exit code with it.              *)
CleanupFails(r) ==
  /\ "os" \in Faults
  /\ pc[r] = "cleanup" /\ Removes(r)
  /\ Goto(r, "exited")
  /\ UNCHANGED <<storeVars, handled, exitCode, workspace, jobDir>>

-----------------------------------------------------------------------------
(* _on_signal raises TimingRetry wherever the main thread is; once           *)
(* cleaning[0] is set it only returns.                                       *)

(* In the `try` body the signal becomes a retry verdict. *)
SignalInBody(r) ==
  /\ pc[r] \in {"checking", "naming", "judging", "returning"}
  /\ Catch(r, "retry")
  /\ UNCHANGED storeVars

SignalInFinish(r) ==
  /\ pc[r] = "finishing"
  /\ Raise(r)
  /\ Catch(r, "retry")

(* Inside _write_infra_verdict its own `except Exception` catches it. *)
SignalInReport(r) ==
  /\ pc[r] = "storing"
  /\ Raise(r)
  /\ UNCHANGED mainVars

(* Elsewhere in an `except` clause no clause catches it: traceback, exit 1. *)
SignalInClause(r) ==
  /\ pc[r] \in {"caught", "leaving"}
  /\ Leave(r, 1)
  /\ UNCHANGED storeVars

(* In `finally`, cleaning[0] not yet set: nothing is removed, exit 1.        *)
SignalInFinally(r) ==
  /\ pc[r] = "cleanup"
  /\ Goto(r, "exited")
  /\ exitCode' = [exitCode EXCEPT ![r] = 1]
  /\ UNCHANGED <<storeVars, handled, workspace, jobDir>>

Signal(r) ==
  /\ "signal" \in Faults
  /\ \/ SignalInBody(r)
     \/ SignalInFinish(r)
     \/ SignalInReport(r)
     \/ SignalInClause(r)
     \/ SignalInFinally(r)

(* A write, rename or open of the store fails. *)
OSFailure(r) ==
  /\ "os" \in Faults
  /\ pc[r] \in {"finishing", "storing"}
  /\ Raise(r)
  /\ UNCHANGED mainVars

(* SIGKILL from the operator, the container runtime or the OOM killer. *)
Killed(r) ==
  /\ "kill" \in Faults
  /\ ~Ended(r)
  /\ Kill(r)
  /\ Goto(r, "killed")
  /\ UNCHANGED <<handled, exitCode, workspace, jobDir>>

-----------------------------------------------------------------------------
Step(r) ==
  \/ RefuseInputs(r)
  \/ MakeWorkspace(r)
  \/ BindWorkspace(r)
  \/ Finish(r)
  \/ JudgeRaises(r)
  \/ RunStore(r)
  \/ FinishReturned(r)
  \/ FinishRaised(r)
  \/ ExitJudged(r)
  \/ Report(r)
  \/ ReportDone(r)
  \/ ExitReported(r)
  \/ Cleanup(r)

Next ==
  \E r \in Run :
    \/ (Step(r) \/ Killed(r)) /\ UNCHANGED historyVars
    \/ (Signal(r) \/ OSFailure(r)) /\ disturbed' = disturbed \cup {r} /\ UNCHANGED stuck
    \/ CleanupFails(r) /\ disturbed' = disturbed \cup {r} /\ stuck' = stuck \cup {r}

Fairness == \A r \in Diligent : WF_vars(Step(r) /\ UNCHANGED historyVars)

Spec == Init /\ [][Next]_vars
FairSpec == Spec /\ Fairness

-----------------------------------------------------------------------------
(* main uses the store only through _store_verdict, one call at a time, so   *)
(* what is proved of the store holds of the judge processes.                 *)
KeepsStoreProtocol == StoreSpec

(* "Every infra failure still writes an error JSON and exits 2, never a      *)
(* traceback" (module docstring): a process that ends by itself has filed a  *)
(* verdict whose status is the one its exit code announces.                  *)
ExitMatches(r) ==
  pc[r] = "exited" => attempts[r] \in Record /\ exitCode[r] = Code(attempts[r].status)

ExitMatchesRecord == \A r \in Run : ExitMatches(r)

(* An external kill "must not ... leak the job workspace" (main).            *)
Leaks(r) == pc[r] = "exited" /\ r \in workspace \ Kept

(* Both hold of every process that no signal and no failing system call      *)
(* reached, whatever happened to the other processes of the submission and   *)
(* however long it waited for the flock of one that stopped.                 *)
UndisturbedContract == \A r \in Run \ disturbed : ExitMatches(r) /\ ~Leaks(r)

(* What signals alone can leave behind: a workspace whose name main never    *)
(* learned, of a run that asks to be requeued, or the workspace of a run     *)
(* whose exit code 1 announces no verdict.  A run that exits 0 or 2 without  *)
(* trouble in thaw or rmtree has cleaned up, wherever signals reached it.    *)
LeakIsVisible ==
  \A r \in Run \ stuck : Leaks(r) => exitCode[r] = 1 \/ (exitCode[r] = 3 /\ r \notin jobDir)

(* Exit code 0 tells the caller not to requeue: it is never paired with an   *)
(* error or retry record, whatever was interrupted.                          *)
ExitZeroIsNeverRequeueable ==
  \A r \in Run : pc[r] = "exited" /\ exitCode[r] = 0 =>
    attempts[r] = NoRecord \/ IsJudged(attempts[r])

(* A scheduled process ends, even if another stops while holding the flock   *)
(* and whatever signals and failures it meets.                               *)
ProcessEnds == \A r \in Diligent : <>Ended(r)
=============================================================================
