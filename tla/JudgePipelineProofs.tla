------------------------- MODULE JudgePipelineProofs ------------------------
(***************************************************************************)
(* What JudgePipeline guarantees for every number of performance cases:    *)
(* the safety properties its run checks, from the inductive PipelineInv.   *)
(***************************************************************************)
EXTENDS JudgePipeline, TLAPS

(* The types an action of judge() leaves to its outcome...                   *)
FlowTypes ==
  /\ stage \in Stage
  /\ slot \in 0 .. Cases
  /\ rows \in [Case -> Outcome \cup {"none"}]
  /\ verdict \in {NoVerdict}
       \cup [by : {"finish"}, status : {"accepted", "rejected", "error"}]
       \cup [by : {"raise"}, status : {"rejected", "error", "retry"}]

(* ...and the types it leaves to the files and tools.                        *)
DataTypes ==
  /\ mode \in Mode
  /\ correctness \in {"none", "ok", "timeout", "resource-limit", "deferred"}
  /\ exits \in [{"comparator", "axioms"} -> Exit \cup {"none"}]
  /\ file \in [File -> {"absent", "pinned", "changed"}]
  /\ mixed \subseteq (0 .. Cases) \X File
  /\ expired \in BOOLEAN

(* Each outcome of an action keeps the first half.                           *)
LEMMA FlowStep ==
  ASSUME FlowTypes
  PROVE  /\ \A s \in Stage : Goto(s) => FlowTypes'
         /\ \A result \in Outcome : Row(result) => FlowTypes'
         /\ \A result, rest \in Outcome : Stop(result, rest) => FlowTypes'
         /\ \A result \in Outcome : Fatal(result) => FlowTypes'
         /\ \A status \in {"accepted", "rejected", "error"} : Finish(status) => FlowTypes'
         /\ \A status \in {"rejected", "error", "retry"} : Raise(status) => FlowTypes'
<1>1. ASSUME NEW s \in Stage, Goto(s) PROVE FlowTypes'
  BY <1>1 DEF FlowTypes, Goto
<1>2. ASSUME NEW result \in Outcome, Row(result) PROVE FlowTypes'
  <2>1. slot' \in 0 .. Cases
    BY <1>2, CasesAssumption DEF FlowTypes, Row
  <2>2. rows' \in [Case -> Outcome \cup {"none"}]
    BY <1>2 DEF FlowTypes, Row
  <2> QED
    BY <1>2, <2>1, <2>2 DEF FlowTypes, Row, Stage
<1>3. ASSUME NEW result \in Outcome, NEW rest \in Outcome, Stop(result, rest) PROVE FlowTypes'
  BY <1>3 DEF FlowTypes, Stop, Stage
<1>4. ASSUME NEW result \in Outcome, Fatal(result) PROVE FlowTypes'
  BY <1>3, <1>4 DEF Fatal, Outcome
<1>5. ASSUME NEW status \in {"accepted", "rejected", "error"}, Finish(status) PROVE FlowTypes'
  BY <1>5 DEF FlowTypes, Finish, End, Stage
<1>6. ASSUME NEW status \in {"rejected", "error", "retry"}, Raise(status) PROVE FlowTypes'
  BY <1>6 DEF FlowTypes, Raise, End, Stage
<1> QED
  BY <1>1, <1>2, <1>3, <1>4, <1>5, <1>6

(* Reading and pinning keep the other half.                                  *)
LEMMA DataStep ==
  ASSUME FlowTypes, DataTypes
  PROVE  /\ \A fs \in SUBSET File : Reads(fs) => mixed' \subseteq (0 .. Cases) \X File
         /\ \A fs \in SUBSET File : Pin(fs) => file' \in [File -> {"absent", "pinned", "changed"}]
  BY DEF FlowTypes, DataTypes, Reads, Pin

(* Every step keeps the types.                                               *)
LEMMA TypeStep == TypeOK /\ [Next]_vars => TypeOK'
<1> SUFFICES ASSUME FlowTypes, DataTypes, [Next]_vars PROVE FlowTypes' /\ DataTypes'
  BY DEF TypeOK, FlowTypes, DataTypes
<1> USE FlowStep, DataStep DEF Stage, File, Outcome, FatalRow, CaseResult,
                               ReplayResult, ValueFailure, BuildFailure, Exit
<1>1. CASE Prepare
  <2>1. FlowTypes'
    BY <1>1 DEF Prepare
  <2>2. DataTypes'
    BY <1>1 DEF Prepare, DataTypes
  <2> QED
    BY <2>1, <2>2
<1>2. CASE Comparator
  <2>1. FlowTypes'
    BY <1>2 DEF Comparator
  <2>2. DataTypes'
    BY <1>2 DEF Comparator, DataTypes
  <2> QED
    BY <2>1, <2>2
<1>3. CASE Axioms
  <2>1. FlowTypes'
    BY <1>3 DEF Axioms
  <2>2. DataTypes'
    BY <1>3 DEF Axioms, DataTypes
  <2> QED
    BY <2>1, <2>2
<1>4. CASE CorrectnessReplay
  <2>1. FlowTypes'
    BY <1>4, CasesAssumption DEF CorrectnessReplay, FlowTypes, Case
  <2>2. DataTypes'
    BY <1>4 DEF CorrectnessReplay, DataTypes
  <2> QED
    BY <2>1, <2>2
<1>5. CASE CaseStart
  <2>1. FlowTypes'
    BY <1>5 DEF CaseStart
  <2>2. DataTypes'
    BY <1>5 DEF CaseStart, DataTypes
  <2> QED
    BY <2>1, <2>2
<1>6. CASE Value
  <2>1. FlowTypes'
    BY <1>6 DEF Value
  <2>2. DataTypes'
    BY <1>6 DEF Value, DataTypes
  <2> QED
    BY <2>1, <2>2
<1>7. CASE Build
  <2>1. FlowTypes'
    BY <1>7 DEF Build
  <2>2. DataTypes'
    BY <1>7 DEF Build, DataTypes
  <2> QED
    BY <2>1, <2>2
<1>8. CASE Bind
  <2>1. FlowTypes'
    BY <1>8 DEF Bind
  <2>2. DataTypes'
    BY <1>8 DEF Bind, DataTypes
  <2> QED
    BY <2>1, <2>2
<1>9. CASE Audit
  <2>1. FlowTypes'
    BY <1>9 DEF Audit
  <2>2. DataTypes'
    BY <1>9 DEF Audit, DataTypes
  <2> QED
    BY <2>1, <2>2
<1>10. CASE Timing
  <2>1. FlowTypes'
    BY <1>10 DEF Timing
  <2>2. DataTypes'
    BY <1>10 DEF Timing, DataTypes
  <2> QED
    BY <2>1, <2>2
<1>11. CASE Report
  <2>1. FlowTypes'
    BY <1>11 DEF Report
  <2>2. DataTypes'
    BY <1>11 DEF Report, DataTypes
  <2> QED
    BY <2>1, <2>2
<1>12. CASE Abort
  <2>1. FlowTypes'
    BY <1>12 DEF Abort
  <2>2. DataTypes'
    BY <1>12 DEF Abort, DataTypes
  <2> QED
    BY <2>1, <2>2
<1>13. CASE Requeue
  <2>1. FlowTypes'
    BY <1>13 DEF Requeue
  <2>2. DataTypes'
    BY <1>13 DEF Requeue, DataTypes
  <2> QED
    BY <2>1, <2>2
<1>14. ASSUME NEW f \in File, Change(f) PROVE FlowTypes' /\ DataTypes'
  BY <1>14 DEF Change, FlowTypes, DataTypes
<1>15. CASE Expire \/ UNCHANGED vars
  BY <1>15 DEF Expire, vars, FlowTypes, DataTypes
<1> QED
  BY <1>1, <1>2, <1>3, <1>4, <1>5, <1>6, <1>7, <1>8, <1>9, <1>10, <1>11, <1>12,
     <1>13, <1>14, <1>15
  DEF Next, Step

(* A stage is only reached through the gates before it.                      *)
LEMMA GatesStep ==
  ASSUME TypeOK, GatesPassed, [Next]_vars
  PROVE  GatesPassed'
<1> USE CasesAssumption
        DEF TypeOK, GatesPassed, AtGate, AtCase, Case, Correctness, NoVerdict,
            Finish, Raise, End
<1>1. CASE Prepare
  BY <1>1 DEF Prepare, Goto
<1>2. CASE Comparator
  BY <1>2 DEF Comparator, Goto
<1>3. CASE Axioms
  BY <1>3 DEF Axioms, Goto
<1>4. CASE CorrectnessReplay
  BY <1>4 DEF CorrectnessReplay
<1>5. CASE CaseStart
  BY <1>5 DEF CaseStart, Goto, Stop, Fatal
<1>6. CASE Value
  BY <1>6 DEF Value, Goto, Row, Stop, Fatal
<1>7. CASE Build
  BY <1>7 DEF Build, Goto, Row, Stop, Fatal
<1>8. CASE Bind
  BY <1>8 DEF Bind, Goto, Row, Stop, Fatal
<1>9. CASE Audit
  BY <1>9 DEF Audit, Goto, Row, Stop, Fatal
<1>10. CASE Timing
  BY <1>10 DEF Timing, Goto, Row, Stop, Fatal
<1>11. CASE Report
  BY <1>11 DEF Report
<1>12. CASE Abort
  BY <1>12 DEF Abort
<1>13. CASE Requeue
  BY <1>13 DEF Requeue
<1>14. ASSUME NEW f \in File, Change(f) PROVE GatesPassed'
  BY <1>14 DEF Change
<1>15. CASE Expire
  BY <1>15 DEF Expire
<1>16. CASE UNCHANGED vars
  BY <1>16 DEF vars
<1> QED
  BY <1>1, <1>2, <1>3, <1>4, <1>5, <1>6, <1>7, <1>8, <1>9, <1>10, <1>11,
     <1>12, <1>13, <1>14, <1>15, <1>16
  DEF Next, Step

(* Rows are written in the order of the schedule, one per case.              *)
LEMMA RowsStep ==
  ASSUME TypeOK, GatesPassed, RowsInOrder, [Next]_vars
  PROVE  RowsInOrder'
<1> USE CasesAssumption
        DEF TypeOK, GatesPassed, RowsInOrder, AtGate, AtCase, Case, CaseResult,
            ReplayResult, ValueFailure, BuildFailure,
            Correctness, Finish, Raise, End
<1>0. ASSUME stage \in AtCase, NEW result \in CaseResult, Row(result) PROVE RowsInOrder'
  BY <1>0 DEF Row
<1>1. CASE Prepare
  BY <1>1 DEF Prepare, Goto
<1>2. CASE Comparator
  BY <1>2 DEF Comparator, Goto
<1>3. CASE Axioms
  BY <1>3 DEF Axioms, Goto
<1>4. CASE CorrectnessReplay
  BY <1>4 DEF CorrectnessReplay
<1>5. CASE CaseStart
  BY <1>5 DEF CaseStart, Goto, Stop, Fatal
<1>6. CASE Value
  BY <1>6 DEF Value, Goto, Row, Stop, Fatal
<1>7. CASE Build
  <2>1. \/ \E result \in CaseResult : Row(result)
        \/ stage' \notin AtGate \cup AtCase
        \/ Goto("bind")
    BY <1>7 DEF Build, Stop, Fatal
  <2>2. stage = "build"
    BY <1>7 DEF Build
  <2> QED
    BY <1>0, <2>1, <2>2 DEF Goto
<1>8. CASE Bind
  BY <1>8 DEF Bind, Goto, Row, Stop, Fatal
<1>9. CASE Audit
  <2>1. \/ \E result \in CaseResult : Row(result)
        \/ stage' \notin AtGate \cup AtCase
        \/ Goto("timing")
    BY <1>9 DEF Audit, Stop, Fatal
  <2>2. stage = "audit"
    BY <1>9 DEF Audit
  <2> QED
    BY <1>0, <2>1, <2>2 DEF Goto
<1>10. CASE Timing
  BY <1>10 DEF Timing, Goto, Row, Stop, Fatal
<1>11. CASE Report
  BY <1>11 DEF Report
<1>12. CASE Abort
  BY <1>12 DEF Abort
<1>13. CASE Requeue
  BY <1>13 DEF Requeue
<1>14. ASSUME NEW f \in File, Change(f) PROVE RowsInOrder'
  BY <1>14 DEF Change
<1>15. CASE Expire
  BY <1>15 DEF Expire
<1>16. CASE UNCHANGED vars
  BY <1>16 DEF vars
<1> QED
  BY <1>1, <1>2, <1>3, <1>4, <1>5, <1>6, <1>7, <1>8, <1>9, <1>10, <1>11,
     <1>12, <1>13, <1>14, <1>15, <1>16
  DEF Next, Step

(* A stage that lets a case go on compared the files its tool read.          *)
LEMMA NothingChangedStep ==
  ASSUME TypeOK, GatesPassed, RowsInOrder, NothingChangedSoFar, [Next]_vars
  PROVE  NothingChangedSoFar'
<1> USE CasesAssumption
        DEF TypeOK, GatesPassed, NothingChangedSoFar, File, Intact, AtGate,
            AtCase, Case, Correctness, Finish, Raise, End
<1>1. CASE Prepare
  BY <1>1 DEF Prepare, Goto
<1>2. CASE Comparator
  BY <1>2 DEF Comparator, Goto, Reads
<1>3. CASE Axioms
  BY <1>3 DEF Axioms, Goto, Reads
<1>4. CASE CorrectnessReplay
  BY <1>4 DEF CorrectnessReplay, Reads
<1>5. CASE CaseStart
  BY <1>5 DEF CaseStart, Goto, Stop, Fatal
<1>6. CASE Value
  BY <1>6 DEF Value, Goto, Row, Stop, Fatal, Reads
<1>7. CASE Build
  BY <1>7 DEF Build, Goto, Row, Stop, Fatal, Reads
<1>8. CASE Bind
  BY <1>8 DEF Bind, Goto, Row, Stop, Fatal, Reads
<1>9. CASE Audit
  BY <1>9 DEF Audit, Goto, Row, Stop, Fatal, Reads
<1>10. CASE Timing
  BY <1>10 DEF Timing, Goto, Row, Stop, Fatal, Reads
<1>11. CASE Report
  BY <1>11 DEF Report
<1>12. CASE Abort
  BY <1>12 DEF Abort
<1>13. CASE Requeue
  BY <1>13 DEF Requeue
<1>14. ASSUME NEW f \in File, Change(f) PROVE NothingChangedSoFar'
  BY <1>14 DEF Change
<1>15. CASE Expire
  BY <1>15 DEF Expire
<1>16. CASE UNCHANGED vars
  BY <1>16 DEF vars
<1> QED
  BY <1>1, <1>2, <1>3, <1>4, <1>5, <1>6, <1>7, <1>8, <1>9, <1>10, <1>11,
     <1>12, <1>13, <1>14, <1>15, <1>16
  DEF Next, Step

(* A rejection is decided at a gate, with no row written.                    *)
LEMMA RejectionStep ==
  ASSUME TypeOK, GatesPassed, RowsInOrder, NothingChangedSoFar,
         RejectionIsEarned, [Next]_vars
  PROVE  RejectionIsEarned'
<1> USE CasesAssumption
        DEF TypeOK, GatesPassed, RowsInOrder, AtGate, AtCase, Case, Correctness,
            Finish, Raise, End, RejectionIsEarned, NoVerdict,
            NothingChangedSoFar, Intact, File
<1>1. CASE Prepare
  BY <1>1 DEF Prepare, Goto
<1>2. CASE Comparator
  BY <1>2 DEF Comparator, Goto, Reads
<1>3. CASE Axioms
  BY <1>3 DEF Axioms, Goto, Reads
<1>4. CASE CorrectnessReplay
  BY <1>4 DEF CorrectnessReplay, Reads
<1>5. CASE CaseStart
  BY <1>5 DEF CaseStart, Goto, Stop, Fatal
<1>6. CASE Value
  BY <1>6 DEF Value, Goto, Row, Stop, Fatal, Reads
<1>7. CASE Build
  BY <1>7 DEF Build, Goto, Row, Stop, Fatal, Reads
<1>8. CASE Bind
  BY <1>8 DEF Bind, Goto, Row, Stop, Fatal, Reads
<1>9. CASE Audit
  BY <1>9 DEF Audit, Goto, Row, Stop, Fatal, Reads
<1>10. CASE Timing
  BY <1>10 DEF Timing, Goto, Row, Stop, Fatal, Reads
<1>11. CASE Report
  BY <1>11 DEF Report
<1>12. CASE Abort
  BY <1>12 DEF Abort
<1>13. CASE Requeue
  BY <1>13 DEF Requeue
<1>14. ASSUME NEW f \in File, Change(f) PROVE RejectionIsEarned'
  BY <1>14 DEF Change
<1>15. CASE Expire
  BY <1>15 DEF Expire
<1>16. CASE UNCHANGED vars
  BY <1>16 DEF vars
<1> QED
  BY <1>1, <1>2, <1>3, <1>4, <1>5, <1>6, <1>7, <1>8, <1>9, <1>10, <1>11,
     <1>12, <1>13, <1>14, <1>15, <1>16
  DEF Next, Step

(* Acceptance comes after both gates, with a row for every case.             *)
LEMMA AcceptanceStep ==
  ASSUME TypeOK, GatesPassed, RowsInOrder, NothingChangedSoFar,
         AcceptedIsVerified, FailuresNeverSuppressLaterCases, [Next]_vars
  PROVE  AcceptedIsVerified'
<1> USE CasesAssumption
        DEF TypeOK, GatesPassed, RowsInOrder, AtGate, AtCase, Case, Correctness,
            Finish, Raise, End, AcceptedIsVerified,
            FailuresNeverSuppressLaterCases, NothingChangedSoFar, FatalRow,
            NoVerdict, File
<1>1. CASE Prepare
  BY <1>1 DEF Prepare, Goto
<1>2. CASE Comparator
  BY <1>2 DEF Comparator, Goto, Reads
<1>3. CASE Axioms
  BY <1>3 DEF Axioms, Goto, Reads
<1>4. CASE CorrectnessReplay
  <2>1. CASE verdict'.status # "accepted"
    BY <2>1
  <2>2. CASE verdict'.status = "accepted"
    <3>1. stage = "correctness" /\ exits' = exits
      BY <1>4 DEF CorrectnessReplay
    <3>2. Intact({"cexport", "artifacts"})
      BY <1>4, <2>2 DEF CorrectnessReplay
    <3>3. mixed' = mixed
      <4>1. {f \in {"cexport"} : file[f] = "changed"} = {}
        BY <3>2 DEF Intact
      <4>2. Reads({"cexport"}) => mixed' = mixed
        BY <4>1 DEF Reads
      <4> QED
        BY <1>4, <4>2 DEF CorrectnessReplay
    <3>4. correctness' # "none" /\ \A i \in Case : rows'[i] = "not-run"
      BY <1>4, <2>2, <3>1, <3>2 DEF CorrectnessReplay, ReplayResult
    <3> QED
      BY <3>1, <3>3, <3>4
  <2> QED
    BY <2>1, <2>2
<1>5. CASE CaseStart
  BY <1>5 DEF CaseStart, Goto, Stop, Fatal
<1>6. CASE Value
  BY <1>6 DEF Value, Goto, Row, Stop, Fatal, Reads
<1>7. CASE Build
  BY <1>7 DEF Build, Goto, Row, Stop, Fatal, Reads
<1>8. CASE Bind
  BY <1>8 DEF Bind, Goto, Row, Stop, Fatal, Reads
<1>9. CASE Audit
  BY <1>9 DEF Audit, Goto, Row, Stop, Fatal, Reads
<1>10. CASE Timing
  BY <1>10 DEF Timing, Goto, Row, Stop, Fatal, Reads
<1>11. CASE Report
  BY <1>11 DEF Report, HasRow
<1>12. CASE Abort
  BY <1>12 DEF Abort
<1>13. CASE Requeue
  BY <1>13 DEF Requeue
<1>14. ASSUME NEW f \in File, Change(f) PROVE AcceptedIsVerified'
  BY <1>14 DEF Change
<1>15. CASE Expire
  BY <1>15 DEF Expire
<1>16. CASE UNCHANGED vars
  BY <1>16 DEF vars
<1> QED
  BY <1>1, <1>2, <1>3, <1>4, <1>5, <1>6, <1>7, <1>8, <1>9, <1>10, <1>11,
     <1>12, <1>13, <1>14, <1>15, <1>16
  DEF Next, Step

(* A row of the submission is written only after the files were compared.    *)
LEMMA PinnedRowsStep ==
  ASSUME TypeOK, GatesPassed, RowsInOrder, NothingChangedSoFar,
         RowsMeasureWhatWasPinned, [Next]_vars
  PROVE  RowsMeasureWhatWasPinned'
<1> USE CasesAssumption
        DEF TypeOK, GatesPassed, RowsInOrder, AtGate, AtCase, Case, Correctness,
            Finish, Raise, End, RowsMeasureWhatWasPinned, CaseResult, ReplayResult,
            ValueFailure, BuildFailure, FatalRow,
            NothingChangedSoFar, Intact, File
<1>1. CASE Prepare
  BY <1>1 DEF Prepare, Goto
<1>2. CASE Comparator
  BY <1>2 DEF Comparator, Goto, Reads
<1>3. CASE Axioms
  BY <1>3 DEF Axioms, Goto, Reads
<1>4. CASE CorrectnessReplay
  BY <1>4 DEF CorrectnessReplay, Reads
<1>5. CASE CaseStart
  BY <1>5 DEF CaseStart, Goto, Stop, Fatal
<1>6. CASE Value
  BY <1>6 DEF Value, Goto, Row, Stop, Fatal, Reads
<1>7. CASE Build
  BY <1>7 DEF Build, Goto, Row, Stop, Fatal, Reads
<1>8. CASE Bind
  BY <1>8 DEF Bind, Goto, Row, Stop, Fatal, Reads
<1>9. CASE Audit
  BY <1>9 DEF Audit, Goto, Row, Stop, Fatal, Reads
<1>10. CASE Timing
  BY <1>10 DEF Timing, Goto, Row, Stop, Fatal, Reads
<1>11. CASE Report
  BY <1>11 DEF Report
<1>12. CASE Abort
  BY <1>12 DEF Abort
<1>13. CASE Requeue
  BY <1>13 DEF Requeue
<1>14. ASSUME NEW f \in File, Change(f) PROVE RowsMeasureWhatWasPinned'
  BY <1>14 DEF Change
<1>15. CASE Expire
  BY <1>15 DEF Expire
<1>16. CASE UNCHANGED vars
  BY <1>16 DEF vars
<1> QED
  BY <1>1, <1>2, <1>3, <1>4, <1>5, <1>6, <1>7, <1>8, <1>9, <1>10, <1>11,
     <1>12, <1>13, <1>14, <1>15, <1>16
  DEF Next, Step

(* Only a fatal row, or an unfinished correctness replay, leaves cases unrun. *)
LEMMA SuppressionStep ==
  ASSUME TypeOK, GatesPassed, RowsInOrder, NothingChangedSoFar,
         FailuresNeverSuppressLaterCases, [Next]_vars
  PROVE  FailuresNeverSuppressLaterCases'
<1> DEFINE Kept == FailuresNeverSuppressLaterCases'
<1>1. ASSUME stage \in AtCase, NEW result \in CaseResult, Row(result) PROVE Kept
  <2>1. \A i \in Case : rows'[i] # "not-run"
    BY <1>1 DEF TypeOK, RowsInOrder, Row, CaseResult, ReplayResult, ValueFailure,
                BuildFailure, Case
  <2>2. stage' = "report" => \A i \in Case : rows'[i] # "none"
    BY <1>1 DEF TypeOK, RowsInOrder, Row, CaseResult, ReplayResult, ValueFailure,
                BuildFailure, Case
  <2> QED
    BY <2>1, <2>2 DEF FailuresNeverSuppressLaterCases
<1>2. ASSUME stage \in AtCase, NEW result \in FatalRow, Fatal(result) PROVE Kept
  <2>1. slot \in Case
    BY <1>2 DEF GatesPassed
  <2>2. rows'[slot] \in FatalRow
    BY <1>2, <2>1, CasesAssumption DEF Fatal, Stop, Case
  <2>3. \A i \in Case : rows'[i] # "none" /\ (rows'[i] = "not-run" => slot < i)
    BY <1>2, <2>1 DEF Fatal, Stop, RowsInOrder, CaseResult, ReplayResult,
                      ValueFailure, BuildFailure, FatalRow, Case
  <2> QED
    BY <2>1, <2>2, <2>3 DEF FailuresNeverSuppressLaterCases, Case
<1>3. ASSUME stage \in AtCase, Stop("budget-exhausted", "budget-exhausted") PROVE Kept
  BY <1>3 DEF Stop, RowsInOrder, CaseResult, ReplayResult, ValueFailure,
              BuildFailure, FailuresNeverSuppressLaterCases, Case
<1>4. ASSUME rows' = rows, correctness' = correctness, stage' # "report" \/ stage' = stage
      PROVE  Kept
  BY <1>4 DEF FailuresNeverSuppressLaterCases
<1>5. ASSUME NEW s \in Stage \ {"report"}, Goto(s), correctness' = correctness PROVE Kept
  BY <1>4, <1>5 DEF Goto
<1>6. ASSUME NEW by, NEW status, End(by, status), correctness' = correctness PROVE Kept
  BY <1>4, <1>6 DEF End
<1> USE DEF AtCase, FatalRow, CaseResult, ReplayResult, ValueFailure, BuildFailure,
            Stage, Finish, Raise
<1>7. CASE Prepare \/ Comparator \/ Axioms
  BY <1>5, <1>6, <1>7 DEF Prepare, Comparator, Axioms
<1>8. CASE CorrectnessReplay
  <2>1. CASE Finish("error") /\ UNCHANGED correctness
    BY <1>6, <2>1
  <2>2. CASE stage' = "case" /\ UNCHANGED rows
    BY <1>8, <2>2 DEF CorrectnessReplay, RowsInOrder, AtGate,
                      FailuresNeverSuppressLaterCases
  <2>3. CASE stage' = "ended" /\ correctness' \in {"timeout", "resource-limit"}
    BY <2>3 DEF FailuresNeverSuppressLaterCases
  <2> QED
    BY <1>8, <2>1, <2>2, <2>3 DEF CorrectnessReplay
<1>9. CASE CaseStart
  BY <1>2, <1>3, <1>5, <1>9 DEF CaseStart
<1>10. CASE Value
  BY <1>1, <1>2, <1>5, <1>10 DEF Value
<1>11. CASE Build
  BY <1>1, <1>2, <1>5, <1>11 DEF Build
<1>12. CASE Bind
  BY <1>1, <1>2, <1>5, <1>12 DEF Bind
<1>13. CASE Audit
  BY <1>1, <1>2, <1>5, <1>13 DEF Audit
<1>14. CASE Timing
  BY <1>1, <1>2, <1>14 DEF Timing
<1>15. CASE Report \/ Abort \/ Requeue
  BY <1>6, <1>15 DEF Report, Abort, Requeue
<1>16. CASE Expire \/ (\E f \in File : Change(f)) \/ UNCHANGED vars
  BY <1>4, <1>16 DEF Expire, Change, vars
<1> QED
  BY <1>7, <1>8, <1>9, <1>10, <1>11, <1>12, <1>13, <1>14, <1>15, <1>16 DEF Next, Step

(* The report refuses a grouped profile with a hole.                         *)
LEMMA ProfileStep ==
  ASSUME TypeOK, GatesPassed, RowsInOrder, NothingChangedSoFar,
         GroupedProfileIsComplete, [Next]_vars
  PROVE  GroupedProfileIsComplete'
<1> USE CasesAssumption
        DEF TypeOK, GatesPassed, RowsInOrder, AtGate, AtCase, Case, Correctness,
            Finish, Raise, End, GroupedProfileIsComplete, NoVerdict
<1>1. CASE Prepare
  BY <1>1 DEF Prepare, Goto
<1>2. CASE Comparator
  BY <1>2 DEF Comparator, Goto
<1>3. CASE Axioms
  BY <1>3 DEF Axioms, Goto
<1>4. CASE CorrectnessReplay
  BY <1>4 DEF CorrectnessReplay
<1>5. CASE CaseStart
  BY <1>5 DEF CaseStart, Goto, Stop, Fatal
<1>6. CASE Value
  BY <1>6 DEF Value, Goto, Row, Stop, Fatal
<1>7. CASE Build
  BY <1>7 DEF Build, Goto, Row, Stop, Fatal
<1>8. CASE Bind
  BY <1>8 DEF Bind, Goto, Row, Stop, Fatal
<1>9. CASE Audit
  BY <1>9 DEF Audit, Goto, Row, Stop, Fatal
<1>10. CASE Timing
  BY <1>10 DEF Timing, Goto, Row, Stop, Fatal
<1>11. CASE Report
  BY <1>11 DEF Report, HasRow
<1>12. CASE Abort
  BY <1>12 DEF Abort
<1>13. CASE Requeue
  BY <1>13 DEF Requeue
<1>14. ASSUME NEW f \in File, Change(f) PROVE GroupedProfileIsComplete'
  BY <1>14 DEF Change
<1>15. CASE Expire
  BY <1>15 DEF Expire
<1>16. CASE UNCHANGED vars
  BY <1>16 DEF vars
<1> QED
  BY <1>1, <1>2, <1>3, <1>4, <1>5, <1>6, <1>7, <1>8, <1>9, <1>10, <1>11,
     <1>12, <1>13, <1>14, <1>15, <1>16
  DEF Next, Step

-----------------------------------------------------------------------------
(* The conjunction is inductive: it holds initially and every step keeps it. *)
LEMMA PipelineStep == PipelineInv /\ [Next]_vars => PipelineInv'
  BY TypeStep, GatesStep, RowsStep, NothingChangedStep, RejectionStep, AcceptanceStep,
     PinnedRowsStep, SuppressionStep, ProfileStep
  DEF PipelineInv

LEMMA PipelineInit == Init => PipelineInv
<1> SUFFICES ASSUME Init PROVE PipelineInv
  OBVIOUS
<1> USE CasesAssumption DEF Init, Case, Correctness, NoVerdict
<1>1. TypeOK
  <2>1. /\ mode \in Mode /\ stage \in Stage /\ slot \in 0 .. Cases
        /\ rows \in [Case -> Outcome \cup {"none"}]
    BY DEF Stage
  <2>2. /\ correctness = "none" /\ mixed = {} /\ expired \in BOOLEAN
        /\ verdict = NoVerdict
    OBVIOUS
  <2>3. exits \in [{"comparator", "axioms"} -> Exit \cup {"none"}]
    OBVIOUS
  <2>4. file \in [File -> {"absent", "pinned", "changed"}]
    OBVIOUS
  <2> QED
    BY <2>1, <2>2, <2>3, <2>4 DEF TypeOK
<1>2. GatesPassed /\ RowsInOrder /\ NothingChangedSoFar
  BY DEF GatesPassed, RowsInOrder, NothingChangedSoFar, AtGate, AtCase
<1>3. /\ RejectionIsEarned /\ AcceptedIsVerified /\ RowsMeasureWhatWasPinned
      /\ FailuresNeverSuppressLaterCases /\ GroupedProfileIsComplete
  BY DEF RejectionIsEarned, AcceptedIsVerified, RowsMeasureWhatWasPinned, CaseResult,
         ReplayResult, ValueFailure, BuildFailure,
         FailuresNeverSuppressLaterCases, GroupedProfileIsComplete
<1> QED
  BY <1>1, <1>2, <1>3 DEF PipelineInv

(* judge(), for every number of cases, in every mode and whatever changes    *)
(* the files: the invariant holds.                                           *)
THEOREM PipelineInvariant == Spec => []PipelineInv
  BY PipelineInit, PipelineStep, PTL DEF Spec

(* The variables of judge() keep their types.                                *)
THEOREM PipelineTypes == Spec => []TypeOK
<1>1. PipelineInv => TypeOK
  BY DEF PipelineInv
<1> QED
  BY <1>1, PipelineInvariant, PTL

(* A rejection always rests on the submission's own failure at a gate.       *)
THEOREM RejectionsAreEarned == Spec => []RejectionIsEarned
<1>1. PipelineInv => RejectionIsEarned
  BY DEF PipelineInv
<1> QED
  BY <1>1, PipelineInvariant, PTL

(* An accepted submission passed both gates and has a row for every case.    *)
THEOREM AcceptancesAreVerified == Spec => []AcceptedIsVerified
<1>1. PipelineInv => AcceptedIsVerified
  BY DEF PipelineInv
<1> QED
  BY <1>1, PipelineInvariant, PTL

(* No row of a case was measured on a build or an export that had changed.   *)
THEOREM RowsAreMeasuredOnPins == Spec => []RowsMeasureWhatWasPinned
<1>1. PipelineInv => RowsMeasureWhatWasPinned
  BY DEF PipelineInv
<1> QED
  BY <1>1, PipelineInvariant, PTL

(* A case that fails by itself never keeps a later case from running.        *)
THEOREM LaterCasesRun == Spec => []FailuresNeverSuppressLaterCases
<1>1. PipelineInv => FailuresNeverSuppressLaterCases
  BY DEF PipelineInv
<1> QED
  BY <1>1, PipelineInvariant, PTL

(* An accepted, measured grouped plan has a result for every case.           *)
THEOREM ProfilesAreComplete == Spec => []GroupedProfileIsComplete
<1>1. PipelineInv => GroupedProfileIsComplete
  BY DEF PipelineInv
<1> QED
  BY <1>1, PipelineInvariant, PTL

(* A row, once written, keeps its value for the rest of the run.             *)
THEOREM RowsStay == Spec => RowsAreFinal
<1> USE CasesAssumption DEF RowsAreFinal
<1>1. ASSUME PipelineInv, [Next]_vars
      PROVE  [\A i \in Case : rows[i] # "none" => rows'[i] = rows[i]]_rows
  <2> SUFFICES ASSUME NEW i \in Case, rows[i] # "none" PROVE rows'[i] = rows[i]
    OBVIOUS
  <2> USE <1>1 DEF PipelineInv, TypeOK, GatesPassed, RowsInOrder, AtGate, AtCase,
                   Case, Correctness
  <2>1. ASSUME NEW result, Row(result), stage \in AtCase PROVE rows'[i] = rows[i]
    BY <2>1 DEF Row
  <2>2. ASSUME NEW result, NEW rest, Stop(result, rest), stage \in AtCase
        PROVE  rows'[i] = rows[i]
    BY <2>2 DEF Stop
  <2>3. CASE rows' = rows
    BY <2>3
  <2>4. CASE CorrectnessReplay
    BY <2>4 DEF CorrectnessReplay, Finish, End
  <2>5. CASE CaseStart
    BY <2>2, <2>5 DEF CaseStart, Fatal, Goto
  <2>6. CASE Value
    BY <2>1, <2>2, <2>6 DEF Value, Fatal, Goto
  <2>7. CASE Build
    BY <2>1, <2>2, <2>7 DEF Build, Fatal, Goto
  <2>8. CASE Bind
    BY <2>1, <2>2, <2>8 DEF Bind, Fatal, Goto
  <2>9. CASE Audit
    BY <2>1, <2>2, <2>9 DEF Audit, Fatal, Goto
  <2>10. CASE Timing
    BY <2>1, <2>2, <2>10 DEF Timing, Fatal
  <2>11. CASE Prepare \/ Comparator \/ Axioms \/ Report
    BY <2>3, <2>11 DEF Prepare, Comparator, Axioms, Report, Goto, Finish, Raise, End
  <2>12. CASE Abort \/ Requeue \/ Expire \/ (\E f \in File : Change(f)) \/ UNCHANGED vars
    BY <2>3, <2>12 DEF Abort, Requeue, Expire, Change, Raise, End, vars
  <2> QED
    BY <2>4, <2>5, <2>6, <2>7, <2>8, <2>9, <2>10, <2>11, <2>12 DEF Next, Step
<1> QED
  BY <1>1, PipelineInvariant, PTL DEF Spec
=============================================================================
