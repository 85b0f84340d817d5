---------------------------- MODULE JudgePipeline ---------------------------
(***************************************************************************)
(* judge() of evaluation/judge/judge.py: the comparator, the axiom audit,  *)
(* the correctness replay and the performance cases of one submission.     *)
(*                                                                         *)
(* Being at a stage means its tool may be running; the action named after  *)
(* the stage is the judge reading the tool's exit and comparing files.     *)
(* Between the two, processes the submission's build started may change    *)
(* the files the judge will read again.  A changed file stays changed, and *)
(* the baseline of a generated file is what the judge pinned, not what its *)
(* producer wrote.  The repetitions of one replay are one tool run.        *)
(*                                                                         *)
(* An exception may leave judge() at every stage (Abort).                  *)
(***************************************************************************)
EXTENDS Integers

CONSTANT Cases   \* the number of performance inputs

ASSUME CasesAssumption == Cases \in Nat \ {0}

Case == 1 .. Cases
Correctness == 0   \* the slot number of the stages before the first case

(* How the judge was started: a grouped (v2) plan or the legacy schedule,    *)
(* timing left to the host, a remote executor, an aggregate deadline.        *)
Mode ==
  {m \in [grouped : BOOLEAN, deferring : BOOLEAN, remote : BOOLEAN, deadline : BOOLEAN] :
     ~(m.deferring /\ m.remote) /\ ~(m.grouped /\ m.deadline)}

VARIABLES
  mode,
  stage,        \* the stage whose tool runs
  slot,         \* the performance case being probed
  rows,         \* timing.scaling: the outcome of each case
  correctness,  \* correctness_timing.result
  exits,        \* exits of the comparator and the axiom audit
  file,         \* the files whose bytes the judge pins
  mixed,        \* <<slot, file>>: a tool of the slot may have read a changed file
  expired,      \* the legacy performance deadline has passed
  verdict       \* how judge() ended

vars == <<mode, stage, slot, rows, correctness, exits, file, mixed, expired, verdict>>

Stage == {"prepare", "comparator", "axioms", "correctness",
          "case", "value", "build", "bind", "audit", "timing", "report", "ended"}

File == {"source", "artifacts", "cexport", "pexport"}

(* An exit the judge tells apart; "oom" is a SIGKILL the cgroup attests.     *)
Exit == {"ok", "fail", "timeout", "oom", "signal"}

FatalRow == {"identity-error", "build-error", "axiom-audit-error", "timing-error"}
ReplayResult == {"ok", "timeout", "resource-limit"}
ValueFailure == {"value-eval-timeout", "value-eval-error", "resource-limit"}
BuildFailure == {"build-timeout", "resource-limit"}
CaseResult ==
  ReplayResult \cup ValueFailure \cup BuildFailure
    \cup {"deferred", "budget-exhausted", "axiom-audit-timeout"}
Outcome == FatalRow \cup CaseResult \cup {"not-run"}

NoVerdict == [by |-> "none", status |-> "none"]

TypeOK ==
  /\ mode \in Mode
  /\ stage \in Stage
  /\ slot \in 0 .. Cases
  /\ rows \in [Case -> Outcome \cup {"none"}]
  /\ correctness \in {"none", "ok", "timeout", "resource-limit", "deferred"}
  /\ exits \in [{"comparator", "axioms"} -> Exit \cup {"none"}]
  /\ file \in [File -> {"absent", "pinned", "changed"}]
  /\ mixed \subseteq (0 .. Cases) \X File
  /\ expired \in BOOLEAN
  /\ verdict \in {NoVerdict}
       \cup [by : {"finish"}, status : {"accepted", "rejected", "error"}]
       \cup [by : {"raise"}, status : {"rejected", "error", "retry"}]

Init ==
  /\ mode \in Mode
  /\ stage = "prepare"
  /\ slot = Correctness
  /\ rows = [i \in Case |-> "none"]
  /\ correctness = "none"
  /\ exits = [gate \in {"comparator", "axioms"} |-> "none"]
  /\ file = [f \in File |-> "absent"]
  /\ mixed = {}
  /\ expired = FALSE
  /\ verdict = NoVerdict

-----------------------------------------------------------------------------
(* Mutants of Intact: the exports, or the build, are not compared.           *)
Intact_ButExports(fs) == \A f \in fs \ {"cexport", "pexport"} : file[f] # "changed"
Intact_ButBuild(fs) == \A f \in fs \ {"source", "artifacts"} : file[f] # "changed"

(* Comparing files with their pins: the Submission.lean digest, the snapshot *)
(* of the build artifacts, the bytes of an export.                           *)
Intact(fs) == \A f \in fs : file[f] # "changed"

Pin(fs) == file' = [f \in File |-> IF f \in fs THEN "pinned" ELSE file[f]]

(* The tool of this stage has read the files fs.                             *)
Reads(fs) == mixed' = mixed \cup {<<slot, f>> : f \in {g \in fs : file[g] = "changed"}}

Goto(s) == stage' = s /\ UNCHANGED <<slot, rows, verdict>>

End(by, status) ==
  /\ stage' = "ended"
  /\ verdict' = [by |-> by, status |-> status]
  /\ UNCHANGED <<slot, rows>>

Finish(status) == End("finish", status)
Raise(status) == End("raise", status)

(* Mutants of Row: a failed case ends the curve; a case that timed out is    *)
(* tried again.                                                              *)
Row_EndsCurve(result) ==
  /\ rows' = [rows EXCEPT ![slot] = result]
  /\ IF slot = Cases \/ result # "ok"
       THEN stage' = "report" /\ UNCHANGED slot
       ELSE stage' = "case" /\ slot' = slot + 1
  /\ UNCHANGED verdict
Row_Retries(result) ==
  /\ rows' = [rows EXCEPT ![slot] = result]
  /\ IF slot = Cases /\ result # "timeout"
       THEN stage' = "report" /\ UNCHANGED slot
       ELSE stage' = "case" /\ slot' = IF result = "timeout" THEN slot ELSE slot + 1
  /\ UNCHANGED verdict

(* _collect_perf_slots: the case has its row, the next one starts.           *)
Row(result) ==
  /\ rows' = [rows EXCEPT ![slot] = result]
  /\ IF slot = Cases
       THEN stage' = "report" /\ UNCHANGED slot
       ELSE stage' = "case" /\ slot' = slot + 1
  /\ UNCHANGED verdict

(* _collect_perf_slots: the curve stops here, `rest` fills the later rows.   *)
Stop(result, rest) ==
  /\ rows' = [i \in Case |-> IF i < slot THEN rows[i] ELSE IF i = slot THEN result ELSE rest]
  /\ stage' = "report"
  /\ UNCHANGED <<slot, verdict>>

Fatal(result) == Stop(result, "not-run")

-----------------------------------------------------------------------------
(* Policy checks, configuration, reference answers and assemble.             *)
Prepare ==
  /\ stage = "prepare"
  /\ \/ Goto("comparator") /\ Pin({"source"})
     \/ Raise("rejected") /\ UNCHANGED file     \* SubmissionError
  /\ UNCHANGED <<mode, correctness, exits, mixed, expired>>

(* Statement match, axioms and kernel replay of the proof.                   *)
Comparator ==
  /\ stage = "comparator"
  /\ Reads({"source"})
  /\ \E exit \in Exit :
       /\ exits' = [exits EXCEPT !["comparator"] = exit]
       /\ \/ exit \in {"fail", "timeout", "oom"} /\ Finish("rejected") /\ UNCHANGED file
          \/ exit = "signal" /\ Finish("error") /\ UNCHANGED file
          \/ exit = "ok" /\ Finish("error") /\ UNCHANGED file    \* no export, or changed source
          \/ exit = "ok" /\ Intact({"source"}) /\ Goto("axioms") /\ Pin({"cexport", "artifacts"})
  /\ UNCHANGED <<mode, correctness, expired>>

(* The axiom re-audit of the correctness export; files are compared before   *)
(* the exit is looked at.                                                    *)
Axioms ==
  /\ stage = "axioms"
  /\ Reads({"cexport"})
  /\ \E exit \in Exit :
       /\ exits' = [exits EXCEPT !["axioms"] = exit]
       /\ IF ~Intact({"cexport", "artifacts"}) THEN Finish("error")
          ELSE \/ exit \in {"fail", "oom"} /\ Finish("rejected")
               \/ exit \in {"timeout", "signal"} /\ Finish("error")
               \/ exit = "ok" /\ Goto("correctness")
  /\ UNCHANGED <<mode, correctness, file, expired>>

(* The mandatory replay of the correctness export.  A replay that does not   *)
(* complete ends the run with every case not run.                            *)
CorrectnessReplay ==
  /\ stage = "correctness"
  /\ IF mode.deferring THEN UNCHANGED mixed ELSE Reads({"cexport"})
  /\ IF ~Intact({"cexport", "artifacts"})
       THEN Finish("error") /\ UNCHANGED correctness
       ELSE \/ /\ correctness' = IF mode.deferring THEN "deferred" ELSE "ok"
               /\ stage' = "case" /\ slot' = 1
               /\ UNCHANGED <<rows, verdict>>
            \/ /\ ~mode.deferring
               /\ correctness' \in ReplayResult \ {"ok"}
               /\ rows' = [i \in Case |-> "not-run"]
               /\ stage' = "ended"
               /\ verdict' = [by |-> "finish", status |-> "accepted"]
               /\ UNCHANGED slot
            \* The kernel refuses the export, or no policy names any input.
            \/ Finish("error") /\ UNCHANGED correctness
  /\ UNCHANGED <<mode, exits, file, expired>>

-----------------------------------------------------------------------------
(* _collect_perf_slots looks at the deadline, probe_point at the artifacts.  *)
CaseStart ==
  /\ stage = "case"
  /\ \/ expired /\ Stop("budget-exhausted", "budget-exhausted")
     \/ ~expired /\ ~Intact({"artifacts"}) /\ Fatal("identity-error")
     \/ ~expired /\ Intact({"artifacts"}) /\ Goto("value")
  /\ file' = [file EXCEPT !["pexport"] = "absent"]
  /\ UNCHANGED <<mode, correctness, exits, mixed, expired>>

(* The expected value: the reference answer of a grouped plan, or the legacy *)
(* oracle.  Then the source is compared.                                     *)
Value ==
  /\ stage = "value"
  /\ \/ expired /\ UNCHANGED mixed /\ Row("budget-exhausted")
     \/ /\ IF mode.grouped THEN UNCHANGED mixed ELSE Reads({"artifacts"})
        /\ \/ ~Intact({"artifacts"}) /\ Fatal("identity-error")
           \/ /\ Intact({"artifacts"}) /\ ~mode.grouped
              /\ \E result \in ValueFailure : Row(result)
           \/ /\ Intact({"artifacts"})
              /\ IF ~Intact({"source"}) THEN Fatal("identity-error") ELSE Goto("build")
  /\ UNCHANGED <<mode, correctness, exits, file, expired>>

(* _perf_export builds and exports `impl n = v`; the export is pinned.       *)
Build ==
  /\ stage = "build"
  /\ Reads({"artifacts"})
  /\ \/ ~Intact({"artifacts"}) /\ Fatal("identity-error") /\ UNCHANGED file
     \/ /\ Intact({"artifacts"})
        /\ \/ \E result \in BuildFailure : Row(result)
           \/ expired /\ Row("budget-exhausted")
           \/ Fatal("build-error")
           \/ ~Intact({"source"}) /\ Fatal("identity-error")
        /\ UNCHANGED file
     \/ /\ Intact({"artifacts", "source"})
        /\ Goto("bind")
        /\ Pin({"pexport"})
  /\ UNCHANGED <<mode, correctness, exits, expired>>

(* --verify-performance binds the case's export to the correctness export.   *)
(* Any exit but 0 is an identity error; the time left is the axiom audit's.  *)
Bind ==
  /\ stage = "bind"
  /\ \/ expired /\ UNCHANGED mixed /\ Row("budget-exhausted")
     \/ /\ Reads({"pexport", "cexport"})
        /\ \/ Fatal("identity-error")
           \/ Intact({"pexport"}) /\ Row("budget-exhausted")
           \/ Intact({"pexport"}) /\ Goto("audit")
  /\ UNCHANGED <<mode, correctness, exits, file, expired>>

(* The axiom audit of the case's export.                                     *)
Audit ==
  /\ stage = "audit"
  /\ Reads({"pexport"})
  /\ IF ~Intact({"pexport", "artifacts"}) THEN Fatal("identity-error")
     ELSE \/ \E result \in {"axiom-audit-timeout", "resource-limit"} : Row(result)
          \/ Fatal("axiom-audit-error")
          \/ Goto("timing")
  /\ UNCHANGED <<mode, correctness, exits, file, expired>>

(* The timed replay of the case's target, or leaving it to the host.         *)
Timing ==
  /\ stage = "timing"
  /\ \/ mode.deferring /\ UNCHANGED mixed /\ Row("deferred")
     \/ /\ ~mode.deferring
        /\ Reads({"pexport"})
        /\ IF ~Intact({"pexport", "artifacts"}) THEN Fatal("identity-error")
           ELSE \/ \E result \in ReplayResult : Row(result)
                \/ expired /\ Row("budget-exhausted")
                \/ Fatal("timing-error")
  /\ UNCHANGED <<mode, correctness, exits, file, expired>>

HasRow(results) == \E i \in Case : rows[i] \in results

(* After the last row: a fatal row is an error, a grouped schedule with a    *)
(* hole is refused by the scorer, anything else is accepted.                 *)
Report ==
  /\ stage = "report"
  /\ \/ HasRow(FatalRow) /\ Finish("error")
     \/ /\ ~HasRow(FatalRow)
        /\ IF mode.grouped /\ ~mode.deferring /\ HasRow({"budget-exhausted", "not-run"})
             THEN Raise("error")
             ELSE Finish("accepted")
  /\ UNCHANGED <<mode, correctness, exits, file, mixed, expired>>

-----------------------------------------------------------------------------
(* InfraError, OSError: main reports an error.  The signal handler raises    *)
(* TimingRetry, at any point: main asks for a requeue.                       *)
Abort ==
  /\ stage # "ended"
  /\ \E status \in {"error", "retry"} : Raise(status)
  /\ UNCHANGED <<mode, correctness, exits, file, mixed, expired>>

(* The remote executor is unreachable or overloaded: TimingRetry.            *)
Requeue ==
  /\ stage \in {"correctness", "timing"} /\ mode.remote
  /\ Raise("retry")
  /\ UNCHANGED <<mode, correctness, exits, file, mixed, expired>>

(* A process of the build writes to a file after the judge pinned it.        *)
Change(f) ==
  /\ stage # "ended"
  /\ file[f] = "pinned"
  /\ file' = [file EXCEPT ![f] = "changed"]
  /\ UNCHANGED <<mode, stage, slot, rows, correctness, exits, mixed, expired, verdict>>

(* The aggregate deadline of a legacy performance phase passes.              *)
Expire ==
  /\ mode.deadline /\ slot # Correctness /\ stage # "ended"
  /\ expired' = TRUE
  /\ UNCHANGED <<mode, stage, slot, rows, correctness, exits, file, mixed, verdict>>

(* Every tool is run under a timeout, so its stage ends by itself.           *)
Step ==
  \/ Prepare \/ Comparator \/ Axioms \/ CorrectnessReplay
  \/ CaseStart \/ Value \/ Build \/ Bind \/ Audit \/ Timing
  \/ Report

Next ==
  \/ Step
  \/ Abort
  \/ Requeue
  \/ \E f \in File : Change(f)
  \/ Expire

Spec == Init /\ [][Next]_vars

FairSpec == Spec /\ WF_vars(Step)

-----------------------------------------------------------------------------
(* Only the submission is blamed by a rejection: its payload was refused, or *)
(* the comparator or the axiom audit itself said no, timed out (comparator   *)
(* only) or hit the attested memory limit.  A tool killed by another signal, *)
(* a changed correctness export or anything of the performance phase never   *)
(* rejects ("only incorrect or illegal-axiom submissions are rejected").     *)
RejectionIsEarned ==
  verdict.status = "rejected" =>
    /\ \/ verdict.by = "raise" /\ exits["comparator"] = "none"
       \/ exits["comparator"] \in {"fail", "timeout", "oom"}
       \/ /\ exits["comparator"] = "ok" /\ exits["axioms"] \in {"fail", "oom"}
          /\ <<Correctness, "cexport">> \notin mixed
    /\ \A i \in Case : rows[i] = "none"

(* An accepted submission passed both gates on files nothing had changed,    *)
(* every planned case has its row, and no row is a fault of the judge.       *)
AcceptedIsVerified ==
  verdict.status = "accepted" =>
    /\ exits["comparator"] = "ok" /\ exits["axioms"] = "ok"
    /\ correctness # "none"
    /\ \A f \in File : <<Correctness, f>> \notin mixed
    /\ \A i \in Case : rows[i] \notin FatalRow \cup {"none"}

(* What a case's row says, good or bad, was measured on the build and the    *)
(* export that were pinned: a change in between makes the row an identity    *)
(* error, whichever tool was reading at the time.                            *)
RowsMeasureWhatWasPinned ==
  \A i \in Case : rows[i] \in CaseResult =>
    <<i, "artifacts">> \notin mixed /\ <<i, "pexport">> \notin mixed

(* "Timeout rows ... never suppress later inputs": a case is left unrun only *)
(* behind a correctness replay that did not complete or an earlier fatal row, *)
(* and the report stage always has one row per planned case.                 *)
FailuresNeverSuppressLaterCases ==
  /\ \A j \in Case : rows[j] = "not-run" =>
       \/ correctness \in {"timeout", "resource-limit"}
       \/ \E k \in 1 .. j - 1 : rows[k] \in FatalRow
  /\ stage = "report" => \A i \in Case : rows[i] # "none"

(* A grouped plan is scored on a complete profile only: no accepted grouped  *)
(* verdict whose timing was measured has a case without a result of its own. *)
GroupedProfileIsComplete ==
  (verdict.status = "accepted" /\ mode.grouped /\ correctness = "ok") =>
    \A i \in Case : rows[i] \notin {"budget-exhausted", "not-run"}

(* The inductive strengthening: what being at a stage says of the gates      *)
(* already passed, of the rows already written and of the files already read. *)
AtGate == {"prepare", "comparator", "axioms", "correctness"}
AtCase == {"case", "value", "build", "bind", "audit", "timing"}

GatesPassed ==
  /\ stage # "ended" => verdict = NoVerdict
  /\ stage \in AtGate => slot = Correctness /\ correctness = "none"
  /\ stage \in AtCase \cup {"report"} => slot \in Case /\ correctness \in {"ok", "deferred"}
  /\ correctness = "ok" => ~mode.deferring
  /\ stage \in {"prepare", "comparator"} => exits["comparator"] = "none"
  /\ stage \in {"prepare", "comparator", "axioms"} => exits["axioms"] = "none"
  /\ stage \in {"axioms", "correctness", "report"} \cup AtCase => exits["comparator"] = "ok"
  /\ stage \in {"correctness", "report"} \cup AtCase => exits["axioms"] = "ok"

RowsInOrder ==
  /\ stage \in AtGate => \A i \in Case : rows[i] = "none"
  /\ stage \in AtCase => \A i \in Case :
       IF i < slot THEN rows[i] \in CaseResult ELSE rows[i] = "none"

NothingChangedSoFar ==
  /\ stage \in {"prepare", "comparator"} => mixed = {}
  /\ stage # "ended" => \A f \in File : <<Correctness, f>> \notin mixed
  /\ stage \in AtGate \cup AtCase => \A i \in Case : i >= slot =>
       <<i, "artifacts">> \notin mixed /\ <<i, "pexport">> \notin mixed

PipelineInv ==
  /\ TypeOK
  /\ GatesPassed
  /\ RowsInOrder
  /\ NothingChangedSoFar
  /\ RejectionIsEarned
  /\ AcceptedIsVerified
  /\ RowsMeasureWhatWasPinned
  /\ FailuresNeverSuppressLaterCases
  /\ GroupedProfileIsComplete

(* A recorded row is never rewritten by a later case or a later failure.     *)
RowsAreFinal == [][\A i \in Case : rows[i] # "none" => rows'[i] = rows[i]]_rows

(* Since every tool has a timeout, judge() reaches a verdict.                *)
JudgeEnds == <>(verdict # NoVerdict)

=============================================================================
