------------------------- MODULE RunIsolatedProofs -------------------------
(***************************************************************************)
(* Proofs about the verdict store of a submission, the judge processes     *)
(* that share it and their wrappers, for any number of each, any of which  *)
(* may be signalled, killed or stopped.                                    *)
(*                                                                         *)
(* Of the store: a run is in the read/decide/write section exactly while   *)
(* it holds the flock, so current has not moved since it decided           *)
(* (StoreInv); only the two renames change what readers see, by the rules  *)
(* of VerdictBoard.                                                        *)
(*                                                                         *)
(* What is proved of the store carries over, because main takes only steps *)
(* of the store (StepOfStore); the rest of JudgeProcess is about one       *)
(* process at a time (ProcessOK): a process changes no other's files and   *)
(* places, and of its own calls it needs only what StoreInv says an ended  *)
(* call has archived.                                                      *)
(*                                                                         *)
(* A wrapper only looks at files once its own judge has ended, and nothing *)
(* of an ended process changes (EndedStays); exit code 0 goes with a       *)
(* judged record or none (ExitZeroIsJudged), and a current verdict of this *)
(* run is one it has archived (ArchivedInv).                               *)
(***************************************************************************)
EXTENDS RunIsolated, TLAPS

-----------------------------------------------------------------------------
(* The verdict store *)

(* A run's own record is a record, and never one of the two null files. *)
LEMMA RecordOfFacts ==
  ASSUME NEW r \in Run \cup {Earlier}, NEW rec \in RecordOf(r)
  PROVE  rec \in Record /\ rec # NoRecord /\ rec # Unreadable /\ rec.run = r
BY VerdictConstants DEF RecordOf, Record, Status

(* Every variable of _store_verdict keeps its type under every action. *)
LEMMA TypeStep == StoreTypeOK /\ [StoreNext]_storeVars => StoreTypeOK'
<1> SUFFICES ASSUME StoreTypeOK, [StoreNext]_storeVars
             PROVE  StoreTypeOK'
    OBVIOUS
<1> USE DEF StoreTypeOK, Proceed, Phase, RecordFile, Unlocked
<1>1. CASE UNCHANGED storeVars
    BY <1>1 DEF storeVars
<1>2. ASSUME NEW r \in Run, NEW fate \in Status, Call(r, fate)
      PROVE  StoreTypeOK'
    <2>1. [run |-> r, status |-> fate] \in Record
        BY DEF Record
    <2> QED  BY <1>2, <2>1 DEF Call
<1>3. ASSUME NEW r \in Run, CreateTemp(r) PROVE StoreTypeOK'
    BY <1>3 DEF CreateTemp
<1>4. ASSUME NEW r \in Run, DumpRecord(r) PROVE StoreTypeOK'
    BY <1>4 DEF DumpRecord
<1>5. ASSUME NEW r \in Run, ReplaceAttempt(r) PROVE StoreTypeOK'
    BY <1>5 DEF ReplaceAttempt
<1>6. ASSUME NEW r \in Run, AcquireLock(r) PROVE StoreTypeOK'
    BY <1>6 DEF AcquireLock
<1>7. ASSUME NEW r \in Run, Decide(r) PROVE StoreTypeOK'
    BY <1>7 DEF Decide
<1>8. ASSUME NEW r \in Run, ReplaceCurrent(r) PROVE StoreTypeOK'
    BY <1>8 DEF ReplaceCurrent
<1>9. ASSUME NEW r \in Run, Return(r) PROVE StoreTypeOK'
    BY <1>9 DEF Return
<1>10. ASSUME NEW r \in Run, Unwind(r) PROVE StoreTypeOK'
    BY <1>10 DEF Unwind
<1>11. ASSUME NEW r \in Run, Kill(r) PROVE StoreTypeOK'
    BY <1>11 DEF Kill
<1> QED
    BY <1>1, <1>2, <1>3, <1>4, <1>5, <1>6, <1>7, <1>8, <1>9, <1>10, <1>11
    DEF StoreNext, Advance, Raise, LockTimeout

(* Every variable of _store_verdict has its type in every reachable state. *)
THEOREM TypeCorrect == StoreSpec => []StoreTypeOK
<1>1. StoreInit => StoreTypeOK
    <2> SUFFICES ASSUME StoreInit PROVE StoreTypeOK
        OBVIOUS
    <2>1. current \in RecordFile
        BY RecordOfFacts DEF StoreInit, RecordFile
    <2> QED  BY <2>1 DEF StoreInit, StoreTypeOK, Phase, RecordFile
<1> QED  BY <1>1, TypeStep, PTL DEF StoreSpec

(* The flock is free or held by the one run in the critical section. *)
LEMMA LockStep ==
  StoreTypeOK /\ LockDiscipline /\ [StoreNext]_storeVars => LockDiscipline'
<1> SUFFICES ASSUME StoreTypeOK, LockDiscipline, [StoreNext]_storeVars
             PROVE  LockDiscipline'
    OBVIOUS
<1> USE StoreConstants
<1> USE DEF StoreTypeOK, LockDiscipline, Critical, Proceed, Unlocked
<1>1. CASE UNCHANGED storeVars
    BY <1>1 DEF storeVars
<1>2. ASSUME NEW r \in Run, NEW fate \in Status, Call(r, fate)
      PROVE  LockDiscipline'
    BY <1>2 DEF Call
<1>3. ASSUME NEW r \in Run, CreateTemp(r) PROVE LockDiscipline'
    BY <1>3 DEF CreateTemp
<1>4. ASSUME NEW r \in Run, DumpRecord(r) PROVE LockDiscipline'
    BY <1>4 DEF DumpRecord
<1>5. ASSUME NEW r \in Run, ReplaceAttempt(r) PROVE LockDiscipline'
    BY <1>5 DEF ReplaceAttempt
<1>6. ASSUME NEW r \in Run, AcquireLock(r) PROVE LockDiscipline'
    BY <1>6 DEF AcquireLock
<1>7. ASSUME NEW r \in Run, Decide(r) PROVE LockDiscipline'
    BY <1>7 DEF Decide
<1>8. ASSUME NEW r \in Run, ReplaceCurrent(r) PROVE LockDiscipline'
    BY <1>8 DEF ReplaceCurrent
<1>9. ASSUME NEW r \in Run, Return(r) PROVE LockDiscipline'
    BY <1>9 DEF Return
<1>10. ASSUME NEW r \in Run, Unwind(r) PROVE LockDiscipline'
    BY <1>10 DEF Unwind
<1>11. ASSUME NEW r \in Run, Kill(r) PROVE LockDiscipline'
    BY <1>11 DEF Kill
<1> QED
    BY <1>1, <1>2, <1>3, <1>4, <1>5, <1>6, <1>7, <1>8, <1>9, <1>10, <1>11
    DEF StoreNext, Advance, Raise, LockTimeout

(* Two runs are never both between the flock and its release, and no run     *)
(* leaves it locked, however many runs there are.                            *)
THEOREM MutualExclusion == StoreSpec => []LockDiscipline
<1>1. StoreInit => LockDiscipline
    <2> SUFFICES ASSUME StoreInit, NEW r \in Run PROVE Critical(r) <=> lock = r
        BY DEF LockDiscipline
    <2>1. phase[r] = "idle" /\ lock = Free
        BY DEF StoreInit
    <2> QED  BY <2>1, StoreConstants DEF Critical
<1> QED  BY <1>1, LockStep, TypeCorrect, PTL DEF StoreSpec

-----------------------------------------------------------------------------
(* A promotion can only raise the standing of the current verdict: a record  *)
(* written under a right decision leaves a judged verdict judged.            *)
LEMMA PromotionKeepsJudged ==
  ASSUME NEW rec, NEW previous, ShouldPromote(rec, previous), IsJudged(previous)
  PROVE  IsJudged(rec)
BY DEF ShouldPromote

(* An absent or unreadable file is not judged, so a run that decides not to  *)
(* promote has seen a judged record.                                         *)
LEMMA NotPromotedSeesJudged ==
  ASSUME NEW rec, NEW previous, ~ShouldPromote(rec, previous)
  PROVE  IsJudged(previous) /\ previous \in Record
BY DEF ShouldPromote, IsJudged

(* Each action keeps the inductive invariant.  Only ReplaceCurrent touches   *)
(* the current verdict, and no other run is then in the critical section.    *)
LEMMA StoreInvStep == StoreInv /\ [StoreNext]_storeVars => StoreInv'
<1> SUFFICES ASSUME StoreInv, [StoreNext]_storeVars
             PROVE  StoreInv'
    OBVIOUS
<1>a. StoreTypeOK' /\ LockDiscipline'
    BY TypeStep, LockStep DEF StoreInv
<1>b. SUFFICES /\ CarriesItsRecord'
               /\ PromotionStillRight'
               /\ ReturnLeavesVerdict'
    BY <1>a DEF StoreInv
<1>c. StoreTypeOK /\ LockDiscipline /\ CarriesItsRecord /\ PromotionStillRight
      /\ ReturnLeavesVerdict
    BY DEF StoreInv
<1> USE <1>c
<1> USE DEF StoreTypeOK, Proceed, Active, Critical
<1>1. CASE UNCHANGED storeVars
    BY <1>1 DEF storeVars, CarriesItsRecord, PromotionStillRight, ReturnLeavesVerdict
<1>2. ASSUME NEW r \in Run, NEW fate \in Status, Call(r, fate)
      PROVE  CarriesItsRecord' /\ PromotionStillRight' /\ ReturnLeavesVerdict'
    <2>1. [run |-> r, status |-> fate] \in RecordOf(r)
        BY DEF RecordOf
    <2>2. [run |-> r, status |-> fate] # NoRecord
        BY <2>1, RecordOfFacts
    <2> QED
        BY <1>2, <2>1, <2>2
        DEF Call, CarriesItsRecord, PromotionStillRight, ReturnLeavesVerdict
<1>3. ASSUME NEW r \in Run, CreateTemp(r)
      PROVE  CarriesItsRecord' /\ PromotionStillRight' /\ ReturnLeavesVerdict'
    BY <1>3 DEF CreateTemp, CarriesItsRecord, PromotionStillRight, ReturnLeavesVerdict
<1>4. ASSUME NEW r \in Run, DumpRecord(r)
      PROVE  CarriesItsRecord' /\ PromotionStillRight' /\ ReturnLeavesVerdict'
    BY <1>4 DEF DumpRecord, CarriesItsRecord, PromotionStillRight, ReturnLeavesVerdict
<1>5. ASSUME NEW r \in Run, ReplaceAttempt(r)
      PROVE  CarriesItsRecord' /\ PromotionStillRight' /\ ReturnLeavesVerdict'
    BY <1>5 DEF ReplaceAttempt, CarriesItsRecord, PromotionStillRight,
                ReturnLeavesVerdict
<1>6. ASSUME NEW r \in Run, AcquireLock(r)
      PROVE  CarriesItsRecord' /\ PromotionStillRight' /\ ReturnLeavesVerdict'
    BY <1>6 DEF AcquireLock, CarriesItsRecord, PromotionStillRight, ReturnLeavesVerdict
<1>7. ASSUME NEW r \in Run, Decide(r)
      PROVE  CarriesItsRecord' /\ PromotionStillRight' /\ ReturnLeavesVerdict'
    BY <1>7, NotPromotedSeesJudged
    DEF Decide, CarriesItsRecord, PromotionStillRight, ReturnLeavesVerdict
<1>8. ASSUME NEW r \in Run, ReplaceCurrent(r)
      PROVE  CarriesItsRecord' /\ PromotionStillRight' /\ ReturnLeavesVerdict'
    <2>1. current' = payload[r] /\ current' \in Record
        BY <1>8, RecordOfFacts DEF ReplaceCurrent, CarriesItsRecord
    <2>2. IsJudged(current) => IsJudged(current')
        BY <1>8, <2>1, PromotionKeepsJudged DEF ReplaceCurrent, PromotionStillRight
    <2>3. \A q \in Run \ {r} : ~Critical(q)
        BY <1>8 DEF ReplaceCurrent, LockDiscipline
    <2>4. CarriesItsRecord'
        BY <1>8, <2>1, <2>3 DEF ReplaceCurrent, CarriesItsRecord
    <2>5. PromotionStillRight'
        BY <1>8, <2>3 DEF ReplaceCurrent, PromotionStillRight
    <2>6. ReturnLeavesVerdict'
        BY <1>8, <2>1, <2>2 DEF ReplaceCurrent, ReturnLeavesVerdict
    <2> QED  BY <2>4, <2>5, <2>6
<1>9. ASSUME NEW r \in Run, Return(r)
      PROVE  CarriesItsRecord' /\ PromotionStillRight' /\ ReturnLeavesVerdict'
    BY <1>9 DEF Return, CarriesItsRecord, PromotionStillRight, ReturnLeavesVerdict
<1>10. ASSUME NEW r \in Run, Unwind(r)
      PROVE  CarriesItsRecord' /\ PromotionStillRight' /\ ReturnLeavesVerdict'
    BY <1>10 DEF Unwind, CarriesItsRecord, PromotionStillRight, ReturnLeavesVerdict
<1>11. ASSUME NEW r \in Run, Kill(r)
      PROVE  CarriesItsRecord' /\ PromotionStillRight' /\ ReturnLeavesVerdict'
    BY <1>11 DEF Kill, CarriesItsRecord, PromotionStillRight, ReturnLeavesVerdict
<1> QED
    BY <1>1, <1>2, <1>3, <1>4, <1>5, <1>6, <1>7, <1>8, <1>9, <1>10, <1>11
    DEF StoreNext, Advance, Raise, LockTimeout

LEMMA StoreInvInit == StoreInit => StoreInv
<1> SUFFICES ASSUME StoreInit PROVE StoreInv
    OBVIOUS
<1>1. \A r \in Run : /\ phase[r] = "idle" /\ lock = Free
                     /\ attempts[r] = NoRecord /\ payload[r] = NoRecord
                     /\ outcome[r] = "none"
    BY DEF StoreInit
<1>2. StoreTypeOK
    <2>1. current \in RecordFile
        BY RecordOfFacts DEF StoreInit, RecordFile
    <2> QED  BY <2>1 DEF StoreInit, StoreTypeOK, Phase, RecordFile
<1>3. LockDiscipline
    BY <1>1, StoreConstants DEF LockDiscipline, Critical
<1>4. CarriesItsRecord /\ PromotionStillRight /\ ReturnLeavesVerdict
    BY <1>1 DEF CarriesItsRecord, PromotionStillRight, ReturnLeavesVerdict,
                Active, Critical
<1> QED  BY <1>2, <1>3, <1>4 DEF StoreInv

(* The inductive invariant of the store holds in every reachable state. *)
THEOREM StoreInvariant == StoreSpec => []StoreInv
BY StoreInvInit, StoreInvStep, PTL DEF StoreSpec

(* A call of _store_verdict that returned has left a readable verdict behind, *)
(* judged if its record was, and no concurrent run has undone it.             *)
THEOREM ReturnedVerdictStands == StoreSpec => []ReturnLeavesVerdict
BY StoreInvariant, PTL DEF StoreInv

(* A record is archived before it can be promoted, and the decision to promote *)
(* it still holds when it is written, for any number of concurrent runs.      *)
THEOREM PromotionsAreRight == StoreSpec => []PromotionStillRight
BY StoreInvariant, PTL DEF StoreInv

(* The board reads records the way the store does. *)
LEMMA BoardVocabulary ==
  /\ \A r : Board!RecordOf(r) = RecordOf(r)
  /\ \A file : Board!IsJudged(file) <=> IsJudged(file)
BY DEF Board!RecordOf, RecordOf, Board!IsJudged, IsJudged, Board!Record, Record,
       Board!Status, Status, Board!JudgedStatus, JudgedStatus

(* Every step of the store is a step of the board or leaves the board alone. *)
LEMMA StepRefines ==
  StoreInv /\ [StoreNext]_storeVars => [Board!Next]_<<attempts, current>>
<1> SUFFICES ASSUME StoreInv, StoreNext
             PROVE  Board!Next \/ UNCHANGED <<attempts, current>>
    BY DEF storeVars
<1>1. ASSUME NEW r \in Run, ReplaceAttempt(r)
      PROVE  Board!File(r)
    <2>1. temp[r] \in RecordOf(r)
        BY <1>1 DEF ReplaceAttempt, StoreInv, CarriesItsRecord, Active
    <2> QED  BY <1>1, <2>1, BoardVocabulary DEF ReplaceAttempt, Board!File, StoreInv,
                                                StoreTypeOK
<1>2. ASSUME NEW r \in Run, ReplaceCurrent(r)
      PROVE  Board!Publish(r)
    <2>1. /\ temp[r] = payload[r] /\ attempts[r] = payload[r]
          /\ payload[r] \in RecordOf(r)
          /\ ShouldPromote(payload[r], current)
        BY <1>2 DEF ReplaceCurrent, StoreInv, CarriesItsRecord,
                    PromotionStillRight, Active, Critical
    <2> QED  BY <1>2, <2>1, BoardVocabulary DEF ReplaceCurrent, Board!Publish,
                                                ShouldPromote
<1>3. ASSUME NEW r \in Run,
             \/ \E fate \in Status : Call(r, fate)
             \/ CreateTemp(r) \/ DumpRecord(r) \/ AcquireLock(r)
             \/ Decide(r) \/ Return(r) \/ Unwind(r) \/ Kill(r)
      PROVE  UNCHANGED <<attempts, current>>
    BY <1>3 DEF Call, CreateTemp, DumpRecord, AcquireLock, Decide, Return, Unwind, Kill
<1> QED
    BY <1>1, <1>2, <1>3 DEF StoreNext, Advance, Raise, LockTimeout, Board!Next

(* The store implements the board: for any number of concurrent runs, raises  *)
(* and kills, readers see only complete, archived records, and a judged       *)
(* verdict is never replaced by a retry or an error.                          *)
THEOREM StoreImplementsBoard == StoreSpec => BoardSpec
<1>1. StoreInit => Board!Init
    BY BoardVocabulary DEF StoreInit, Board!Init
<1> QED
    BY <1>1, StepRefines, StoreInvariant, PTL
    DEF StoreSpec, BoardSpec, Board!Spec, Board!boardVars

(* The comment "A retry/error never replaces an existing accepted or rejected *)
(* result", for any number of concurrent runs.                                *)
THEOREM JudgedStays == StoreSpec => JudgedNeverDemoted
<1>1. StoreInv /\ [StoreNext]_storeVars => [IsJudged(current) => IsJudged(current')]_current
    <2> SUFFICES ASSUME StoreInv, [StoreNext]_storeVars, IsJudged(current),
                        current' # current
                 PROVE  IsJudged(current')
        OBVIOUS
    <2>1. PICK r \in Run : Board!Publish(r)
        BY StepRefines DEF Board!Next, Board!File
    <2> QED  BY <2>1, BoardVocabulary DEF Board!Publish
<1> QED  BY <1>1, StoreInvariant, PTL DEF StoreSpec, JudgedNeverDemoted

-----------------------------------------------------------------------------
(* The judge processes *)

Calling == {"finishing", "storing"}
Excepting == {"caught", "storing", "leaving"}
Fresh == {"checking", "naming", "judging"}

Own(r, fate) == [run |-> r, status |-> fate]

\* A call of the store is made by "finishing" and "storing" only, and once it
\* has ended says how.
CallOK(r) ==
  /\ Active(r) => pc[r] \in Calling /\ outcome[r] = "none"
  /\ pc[r] \in Calling /\ ~Active(r) => outcome[r] \in {"returned", "raised"}

\* What is in the attempt file of a process, by the place it is at.
FileOK(r) ==
  /\ pc[r] \in Fresh => attempts[r] = NoRecord
  /\ pc[r] = "finishing" /\ outcome[r] = "returned" => attempts[r] = payload[r]
  /\ pc[r] \in Calling /\ r \notin disturbed /\ outcome[r] # "none" => attempts[r] = payload[r]
  /\ pc[r] \in Calling => payload[r] \in RecordOf(r)
  /\ pc[r] = "returning" => attempts[r] = payload[r] /\ payload[r] \in RecordOf(r)
  /\ pc[r] \in Excepting => handled[r] \in Status \ {"accepted"}
  /\ pc[r] \in Excepting /\ handled[r] = "rejected" =>
       attempts[r] \in {NoRecord, Own(r, "rejected")}
  /\ pc[r] = "storing" => payload[r] = Own(r, handled[r])
  /\ pc[r] = "leaving" /\ r \notin disturbed => attempts[r] = Own(r, handled[r])

\* What its exit code says of that file.
CodeOK(r) ==
  pc[r] \in {"cleanup", "exited"} =>
    /\ r \notin disturbed => attempts[r] \in Record /\ exitCode[r] = Code(attempts[r].status)
    /\ exitCode[r] = 0 => attempts[r] = NoRecord \/ IsJudged(attempts[r])

\* What is left of its workspace: an unnamed one belongs to a run that a signal
\* turned into a retry.
WorkspaceOK(r) ==
  /\ r \in stuck => r \in disturbed
  /\ r \in workspace \ jobDir /\ pc[r] \notin {"naming", "killed"} =>
       /\ r \in disturbed
       /\ \/ pc[r] \in Excepting /\ handled[r] = "retry"
          \/ pc[r] \in {"cleanup", "exited"} /\ exitCode[r] \in {1, 3}
  /\ r \in jobDir /\ Leaks(r) => r \in stuck \/ (r \in disturbed /\ exitCode[r] = 1)

ProcessOK(r) == CallOK(r) /\ FileOK(r) /\ CodeOK(r) /\ WorkspaceOK(r)

MainTypes ==
  /\ pc \in [Run -> Point]
  /\ handled \in [Run -> Status \cup {"none"}]
  /\ exitCode \in [Run -> {NoCode, 0, 1, 2, 3}]

ProcessInv == StoreInv /\ MainTypes /\ \A r \in Run : ProcessOK(r)

-----------------------------------------------------------------------------
LEMMA OwnFacts ==
  ASSUME NEW r \in Run, NEW fate \in Status
  PROVE  /\ Own(r, fate) \in RecordOf(r) /\ Own(r, fate) \in Record
         /\ Own(r, fate).status = fate /\ Own(r, fate) # NoRecord
BY VerdictConstants DEF Own, RecordOf, Record, Status

\* Only the process itself changes its part of the store.
OthersKept(r) ==
  \A q \in Run \ {r} :
    attempts'[q] = attempts[q] /\ payload'[q] = payload[q] /\ phase'[q] = phase[q]
    /\ outcome'[q] = outcome[q]

\* A step inside a call: the file is that of the call or still the old one,
\* and if this step ends the call it is that of the call.
LEMMA AdvanceEffect ==
  ASSUME StoreInv, NEW r \in Run, Advance(r)
  PROVE  /\ OthersKept(r) /\ Active(r)
         /\ payload'[r] = payload[r] /\ attempts'[r] \in {attempts[r], payload[r]}
         /\ \/ phase'[r] \notin {"idle", "dead"} /\ outcome'[r] = outcome[r]
            \/ /\ phase'[r] = "idle" /\ outcome'[r] \in {"returned", "raised"}
               /\ attempts'[r] = payload[r]
BY DEF StoreInv, StoreTypeOK, CarriesItsRecord, PromotionStillRight,
       Critical, Active, OthersKept, Advance, CreateTemp,
       DumpRecord, ReplaceAttempt, AcquireLock, LockTimeout, Decide,
       ReplaceCurrent, Return, Unwind, Proceed

LEMMA RaiseEffect ==
  ASSUME StoreInv, NEW r \in Run, Raise(r)
  PROVE  /\ OthersKept(r) /\ Active(r) /\ UNCHANGED <<attempts, payload>>
         /\ phase'[r] = "idle" /\ outcome'[r] = "raised"
BY DEF StoreInv, StoreTypeOK, OthersKept, Raise, Unwind, Proceed

LEMMA CallEffect ==
  ASSUME StoreInv, NEW r \in Run, NEW fate, Call(r, fate)
  PROVE  /\ OthersKept(r) /\ UNCHANGED attempts
         /\ payload'[r] = Own(r, fate) /\ phase'[r] = "create" /\ outcome'[r] = "none"
BY DEF StoreInv, StoreTypeOK, OthersKept, Call, Proceed, Own

LEMMA KillEffect ==
  ASSUME StoreInv, NEW r \in Run, Kill(r)
  PROVE  /\ OthersKept(r) /\ UNCHANGED <<attempts, payload, outcome>> /\ phase'[r] = "dead"
BY DEF StoreInv, StoreTypeOK, OthersKept, Kill, Proceed

-----------------------------------------------------------------------------
(* One process at a time *)

LEMMA CodeFacts ==
  ASSUME NEW fate \in Status
  PROVE  Code(fate) \in {0, 2, 3} /\ (Code(fate) = 0 <=> fate \in JudgedStatus)
BY DEF Status, Code, JudgedStatus

\* A step changes nothing of a process.
Same(q) ==
  /\ attempts'[q] = attempts[q] /\ payload'[q] = payload[q] /\ phase'[q] = phase[q]
  /\ outcome'[q] = outcome[q] /\ pc'[q] = pc[q] /\ handled'[q] = handled[q]
  /\ exitCode'[q] = exitCode[q] /\ (q \in disturbed' <=> q \in disturbed)
  /\ (q \in stuck' <=> q \in stuck)
  /\ (q \in workspace' <=> q \in workspace) /\ (q \in jobDir' <=> q \in jobDir)

OthersSame(r) == \A q \in Run \ {r} : Same(q)

LEMMA SameKeeps ==
  ASSUME NEW q, ProcessOK(q), Same(q)
  PROVE  ProcessOK(q)'
<1> USE DEF Same, ProcessOK
<1>1. CallOK(q)' /\ WorkspaceOK(q)'
  BY DEF CallOK, WorkspaceOK, Leaks, Excepting, Active
<1>2. FileOK(q)'
  BY DEF FileOK, RecordOf, Own
<1>3. CodeOK(q)'
  BY DEF CodeOK, Record, IsJudged, Code
<1> QED
  BY <1>1, <1>2, <1>3

\* What a step of process r has to show, besides the store's part.
Fine(r) == MainTypes' /\ OthersSame(r) /\ ProcessOK(r)'

\* Steps of main that leave the store alone.
LEMMA QuietSteps ==
  ASSUME ProcessInv, NEW r \in Run, UNCHANGED storeVars
  PROVE  /\ RefuseInputs(r) /\ UNCHANGED historyVars => Fine(r)
         /\ MakeWorkspace(r) /\ UNCHANGED historyVars => Fine(r)
         /\ BindWorkspace(r) /\ UNCHANGED historyVars => Fine(r)
         /\ JudgeRaises(r) /\ UNCHANGED historyVars => Fine(r)
         /\ FinishReturned(r) /\ UNCHANGED historyVars => Fine(r)
         /\ FinishRaised(r) /\ UNCHANGED historyVars => Fine(r)
         /\ ExitJudged(r) /\ UNCHANGED historyVars => Fine(r)
         /\ ReportDone(r) /\ UNCHANGED historyVars => Fine(r)
         /\ ExitReported(r) /\ UNCHANGED historyVars => Fine(r)
         /\ Cleanup(r) /\ UNCHANGED historyVars => Fine(r)
<1>1. MainTypes /\ ProcessOK(r)
  BY DEF ProcessInv
<1>2. \A fate \in Status : Own(r, fate) \in Record /\ Own(r, fate).status = fate
  BY OwnFacts
<1>3. RecordOf(r) \subseteq Record /\ \A rec \in RecordOf(r) : rec.status \in Status
  BY DEF RecordOf, Record
<1> USE <1>1 DEF storeVars, historyVars, MainTypes, Fine, OthersSame, Same, Goto, Catch, Leave,
            Point, Status, Code
<1>4. RefuseInputs(r) /\ UNCHANGED historyVars => Fine(r)
  BY DEF RefuseInputs, ProcessOK, CallOK, FileOK, CodeOK, WorkspaceOK, Leaks, Active, Fresh, Calling,
     Excepting
<1>5. MakeWorkspace(r) /\ UNCHANGED historyVars => Fine(r)
  BY DEF MakeWorkspace, ProcessOK, CallOK, FileOK, CodeOK, WorkspaceOK, Leaks, Active, Fresh, Calling,
     Excepting
<1>6. BindWorkspace(r) /\ UNCHANGED historyVars => Fine(r)
  BY DEF BindWorkspace, ProcessOK, CallOK, FileOK, CodeOK, WorkspaceOK, Leaks, Active, Fresh, Calling,
     Excepting
<1>7. JudgeRaises(r) /\ UNCHANGED historyVars => Fine(r)
  BY DEF JudgeRaises, ProcessOK, CallOK, FileOK, CodeOK, WorkspaceOK, Leaks, Active, Fresh, Calling,
     Excepting
<1>8. FinishReturned(r) /\ UNCHANGED historyVars => Fine(r)
  BY DEF FinishReturned, ProcessOK, CallOK, FileOK, CodeOK, WorkspaceOK, Leaks, Active, Fresh, Calling,
     Excepting
<1>9. FinishRaised(r) /\ UNCHANGED historyVars => Fine(r)
  BY DEF FinishRaised, ProcessOK, CallOK, FileOK, CodeOK, WorkspaceOK, Leaks, Active, Fresh, Calling,
     Excepting
<1>10. ExitJudged(r) /\ UNCHANGED historyVars => Fine(r)
  <2> SUFFICES ASSUME ExitJudged(r), UNCHANGED historyVars
               PROVE  Fine(r)
    OBVIOUS
  <2>1. /\ attempts[r] = payload[r] /\ payload[r] \in Record /\ payload[r].status \in Status
        /\ pc[r] = "returning"
    BY <1>3 DEF ExitJudged, ProcessOK, FileOK
  <2>2. /\ pc' = [pc EXCEPT ![r] = "cleanup"] /\ UNCHANGED <<handled, workspace, jobDir>>
        /\ exitCode' = [exitCode EXCEPT ![r] = Code(attempts[r].status)]
    BY <2>1 DEF ExitJudged
  <2>3. /\ Code(attempts[r].status) \in {0, 2, 3}
        /\ Code(attempts[r].status) = 0 => IsJudged(attempts[r])
    BY <2>1, CodeFacts DEF IsJudged
  <2>4. CodeOK(r)'
    BY <2>1, <2>2, <2>3 DEF CodeOK, IsJudged
  <2> HIDE DEF Code
  <2> QED
    BY <2>1, <2>2, <2>3, <2>4
    DEF ProcessOK, CallOK, FileOK, WorkspaceOK, Leaks, Active, Fresh, Calling, Excepting
<1>11. ReportDone(r) /\ UNCHANGED historyVars => Fine(r)
  BY DEF ReportDone, ProcessOK, CallOK, FileOK, CodeOK, WorkspaceOK, Leaks, Active, Fresh, Calling,
     Excepting
<1>12. ExitReported(r) /\ UNCHANGED historyVars => Fine(r)
  BY <1>2, CodeFacts DEF ExitReported, ProcessOK, CallOK, FileOK, CodeOK, WorkspaceOK, Leaks, Active, Fresh, Calling,
     Excepting,
     IsJudged, JudgedStatus
<1>13. Cleanup(r) /\ UNCHANGED historyVars => Fine(r)
  BY DEF Cleanup, Removes, ProcessOK, CallOK, FileOK, CodeOK, WorkspaceOK, Leaks, Active, Fresh, Calling,
     Excepting
<1> QED
  BY <1>4, <1>5, <1>6, <1>7, <1>8, <1>9, <1>10, <1>11, <1>12, <1>13

\* Steps of main that begin or continue a call of the store.
LEMMA CallSteps ==
  ASSUME ProcessInv, NEW r \in Run, UNCHANGED historyVars, Finish(r) \/ Report(r) \/ RunStore(r)
  PROVE  Fine(r)
<1>1. MainTypes /\ ProcessOK(r) /\ StoreInv
  BY DEF ProcessInv
<1> USE DEF historyVars, MainTypes, Fine, OthersSame, Same, OthersKept, Goto
<1>2. CASE Finish(r)
  <2>1. PICK fate \in {"accepted", "rejected", "error"} : Call(r, fate)
    BY <1>2 DEF Finish
  <2>2. /\ OthersKept(r) /\ UNCHANGED attempts /\ payload'[r] = Own(r, fate)
        /\ phase'[r] = "create" /\ outcome'[r] = "none" /\ Own(r, fate) \in RecordOf(r)
    BY <1>1, <2>1, CallEffect, OwnFacts DEF Status
  <2>3. /\ pc' = [pc EXCEPT ![r] = "finishing"] /\ UNCHANGED <<handled, exitCode, workspace, jobDir>>
        /\ pc[r] = "judging"
    BY <1>2 DEF Finish
  <2>4. payload'[r] \in RecordOf(r)
    BY <2>2
  <2> QED
    BY <1>1, <2>2, <2>3, <2>4 DEF Point, ProcessOK, CallOK, FileOK, CodeOK, WorkspaceOK, Leaks, Active, Fresh, Calling,
     Excepting
<1>3. CASE Report(r)
  <2>1. /\ Call(r, handled[r]) /\ pc[r] = "caught" /\ handled[r] \in Status
        /\ pc' = [pc EXCEPT ![r] = "storing"] /\ UNCHANGED <<handled, exitCode, workspace, jobDir>>
    BY <1>1, <1>3 DEF Report, ProcessOK, FileOK, Excepting
  <2>2. /\ OthersKept(r) /\ UNCHANGED attempts /\ payload'[r] = Own(r, handled[r])
        /\ phase'[r] = "create" /\ outcome'[r] = "none" /\ Own(r, handled[r]) \in RecordOf(r)
    BY <1>1, <2>1, CallEffect, OwnFacts
  <2>3. payload'[r] \in RecordOf(r) /\ payload'[r] = Own(r, handled'[r])
    BY <2>1, <2>2
  <2> QED
    BY <1>1, <2>1, <2>2, <2>3 DEF Point, ProcessOK, CallOK, FileOK, CodeOK, WorkspaceOK, Leaks, Active, Fresh, Calling,
     Excepting
<1>4. CASE RunStore(r)
  <2>1. /\ pc[r] \in Calling /\ UNCHANGED <<pc, handled, exitCode, workspace, jobDir>>
        /\ Advance(r)
    BY <1>4 DEF RunStore, mainVars, Calling
  <2>2. /\ OthersKept(r) /\ Active(r)
        /\ payload'[r] = payload[r] /\ attempts'[r] \in {attempts[r], payload[r]}
        /\ \/ phase'[r] \notin {"idle", "dead"} /\ outcome'[r] = outcome[r]
           \/ /\ phase'[r] = "idle" /\ outcome'[r] \in {"returned", "raised"}
              /\ attempts'[r] = payload[r]
    BY <1>1, <2>1, AdvanceEffect
  <2>3. /\ pc[r] = "storing" => payload[r] = Own(r, handled[r])
        /\ payload[r] \in RecordOf(r) /\ outcome[r] = "none"
    BY <1>1, <2>1, <2>2 DEF ProcessOK, CallOK, FileOK
  <2>4. CallOK(r)'
    BY <2>1, <2>2, <2>3 DEF CallOK, Active
  <2>5. FileOK(r)'
    BY <1>1, <2>1, <2>2, <2>3 DEF ProcessOK, FileOK, Calling, Fresh, Excepting, RecordOf, Own
  <2>6. CodeOK(r)' /\ WorkspaceOK(r)'
    BY <1>1, <2>1 DEF ProcessOK, CodeOK, WorkspaceOK, Leaks, Calling, Excepting
  <2> QED
    BY <1>1, <2>1, <2>2, <2>4, <2>5, <2>6 DEF ProcessOK
<1> QED
  BY <1>2, <1>3, <1>4

\* Signals, failing system calls and kills.
LEMMA FaultSteps ==
  ASSUME ProcessInv, NEW r \in Run,
         \/ (Signal(r) \/ OSFailure(r)) /\ disturbed' = disturbed \cup {r} /\ UNCHANGED stuck
         \/ CleanupFails(r) /\ disturbed' = disturbed \cup {r} /\ stuck' = stuck \cup {r}
         \/ Killed(r) /\ UNCHANGED historyVars
  PROVE  Fine(r)
<1>1. MainTypes /\ ProcessOK(r) /\ StoreInv
  BY DEF ProcessInv
<1> USE DEF historyVars, MainTypes, Fine, OthersSame, Same, OthersKept, Goto, Catch, Leave, Point,
            Status
<1>2. CASE Killed(r) /\ UNCHANGED historyVars
  <2>1. /\ OthersKept(r) /\ UNCHANGED <<attempts, payload, outcome>> /\ phase'[r] = "dead"
    BY <1>1, <1>2, KillEffect DEF Killed
  <2> QED
    BY <1>1, <1>2, <2>1 DEF Killed, ProcessOK, CallOK, FileOK, CodeOK, WorkspaceOK, Leaks, Active, Fresh, Calling,
     Excepting
<1>3. ASSUME disturbed' = disturbed \cup {r}, UNCHANGED stuck,
             SignalInBody(r) \/ SignalInClause(r) \/ SignalInFinally(r)
      PROVE  Fine(r)
  BY <1>1, <1>3 DEF SignalInBody, SignalInClause, SignalInFinally, storeVars, ProcessOK, CallOK, FileOK, CodeOK, WorkspaceOK, Leaks, Active, Fresh, Calling,
     Excepting
<1>4. ASSUME disturbed' = disturbed \cup {r}, UNCHANGED stuck, Raise(r), pc[r] \in Calling,
             UNCHANGED mainVars \/ (pc[r] = "finishing" /\ Catch(r, "retry"))
      PROVE  Fine(r)
  <2>1. /\ OthersKept(r) /\ Active(r) /\ UNCHANGED <<attempts, payload>>
        /\ phase'[r] = "idle" /\ outcome'[r] = "raised"
    BY <1>1, <1>4, RaiseEffect
  <2>2. r \in disturbed'
    BY <1>4
  <2>3. CASE UNCHANGED mainVars
    BY <1>1, <1>4, <2>1, <2>2, <2>3 DEF mainVars, Own, RecordOf, ProcessOK, CallOK, FileOK, CodeOK, WorkspaceOK, Leaks, Active, Fresh, Calling,
     Excepting
  <2>4. CASE pc[r] = "finishing" /\ Catch(r, "retry")
    BY <1>1, <1>4, <2>1, <2>2, <2>4 DEF ProcessOK, CallOK, FileOK, CodeOK, WorkspaceOK, Leaks, Active, Fresh, Calling,
     Excepting
  <2> QED
    BY <1>4, <2>3, <2>4
<1>5. ASSUME disturbed' = disturbed \cup {r}, UNCHANGED stuck, Signal(r) \/ OSFailure(r)
      PROVE  Fine(r)
  BY <1>3, <1>4, <1>5 DEF Signal, SignalInFinish, SignalInReport, OSFailure, Calling
<1>6. ASSUME disturbed' = disturbed \cup {r}, stuck' = stuck \cup {r}, CleanupFails(r)
      PROVE  Fine(r)
  BY <1>1, <1>6 DEF CleanupFails, storeVars, ProcessOK, CallOK, FileOK, CodeOK, WorkspaceOK, Leaks,
     Active, Fresh, Calling, Excepting
<1> QED
  BY <1>2, <1>5, <1>6

-----------------------------------------------------------------------------
\* main takes only steps of the store.
LEMMA StepOfStore == ProcessInv /\ [Next]_vars => [StoreNext]_(storeVars)
<1> SUFFICES ASSUME ProcessInv, [Next]_vars
             PROVE  StoreNext \/ UNCHANGED storeVars
  BY DEF storeVars
<1>1. CASE UNCHANGED vars
  BY <1>1 DEF vars
<1>2. ASSUME NEW r \in Run, Step(r)
      PROVE  StoreNext \/ UNCHANGED storeVars
  <2>1. CASE Finish(r)
    BY <2>1 DEF Finish, StoreNext, Status
  <2>2. CASE Report(r)
    <3>1. Call(r, handled[r]) /\ handled[r] \in Status
      BY <2>2 DEF Report, ProcessInv, ProcessOK, FileOK, Excepting, Status, Status
    <3> QED
      BY <3>1 DEF StoreNext
  <2>3. CASE RunStore(r)
    BY <2>3 DEF RunStore, StoreNext
  <2>4. CASE ~(Finish(r) \/ Report(r) \/ RunStore(r))
    BY <1>2, <2>4 DEF Step, RefuseInputs, MakeWorkspace, BindWorkspace, JudgeRaises, FinishReturned,
                      FinishRaised, ExitJudged, ReportDone, ExitReported, Cleanup
  <2> QED
    BY <2>1, <2>2, <2>3, <2>4
<1>3. ASSUME NEW r \in Run, Signal(r) \/ OSFailure(r) \/ CleanupFails(r) \/ Killed(r)
      PROVE  StoreNext \/ UNCHANGED storeVars
  BY <1>3 DEF Signal, SignalInBody, SignalInFinish, SignalInReport, SignalInClause,
              SignalInFinally, OSFailure, CleanupFails, Killed, StoreNext
<1> QED
  BY <1>1, <1>2, <1>3 DEF Next

LEMMA ProcessInit == Init => ProcessInv
<1> SUFFICES ASSUME Init
             PROVE  ProcessInv
  OBVIOUS
<1>1. StoreInv
  BY StoreInvInit DEF Init
<1>2. \A r \in Run : attempts[r] = NoRecord /\ phase[r] = "idle" /\ pc[r] = "checking"
  BY DEF Init, StoreInit
<1>3. MainTypes /\ workspace = {} /\ stuck = {}
  BY DEF Init, MainTypes, Point
<1> QED
  BY <1>1, <1>2, <1>3 DEF ProcessInv, ProcessOK, CallOK, FileOK, CodeOK, WorkspaceOK, Leaks, Active, Fresh, Calling,
     Excepting

LEMMA StepIsFine ==
  ASSUME ProcessInv, NEW r \in Run, Step(r), UNCHANGED historyVars
  PROVE  Fine(r)
<1>1. CASE Finish(r) \/ Report(r) \/ RunStore(r)
  BY <1>1, CallSteps
<1>2. CASE ~(Finish(r) \/ Report(r) \/ RunStore(r))
  <2>1. UNCHANGED storeVars
    BY <1>2 DEF Step, RefuseInputs, MakeWorkspace, BindWorkspace, JudgeRaises, FinishReturned,
                FinishRaised, ExitJudged, ReportDone, ExitReported, Cleanup
  <2> QED
    BY <1>2, <2>1, QuietSteps DEF Step
<1> QED
  BY <1>1, <1>2

LEMMA ProcessStep == ProcessInv /\ [Next]_vars => ProcessInv'
<1> SUFFICES ASSUME ProcessInv, [Next]_vars
             PROVE  ProcessInv'
  OBVIOUS
<1>1. StoreInv'
  BY StepOfStore, StoreInvStep DEF ProcessInv
<1>2. ASSUME NEW r \in Run, Fine(r)
      PROVE  ProcessInv'
  <2>1. \A q \in Run \ {r} : ProcessOK(q)'
    BY <1>2, SameKeeps DEF Fine, OthersSame, ProcessInv
  <2> QED
    BY <1>1, <1>2, <2>1 DEF Fine, ProcessInv
<1>3. CASE UNCHANGED vars
  <2>1. \A q \in Run : Same(q)
    BY <1>3 DEF Same, vars, storeVars, mainVars, historyVars
  <2>2. \A q \in Run : ProcessOK(q)'
    BY <2>1, SameKeeps DEF ProcessInv
  <2>3. MainTypes'
    BY <1>3 DEF MainTypes, ProcessInv, vars, mainVars
  <2> QED
    BY <1>1, <2>2, <2>3 DEF ProcessInv
<1> QED
  BY <1>2, <1>3, StepIsFine, FaultSteps DEF Next

\* Nothing of a process changes once it has ended.
LEMMA EndedStays ==
  ASSUME ProcessInv, [Next]_vars, NEW r \in Run, Ended(r)
  PROVE  Same(r)
<1>1. CASE UNCHANGED vars
  BY <1>1 DEF Same, vars, storeVars, mainVars, historyVars
<1>2. ASSUME NEW q \in Run, Fine(q), q # r
      PROVE  Same(r)
  BY <1>2 DEF Fine, OthersSame
<1>3. ASSUME NEW q \in Run,
             Step(q) \/ Killed(q) \/ Signal(q) \/ OSFailure(q) \/ CleanupFails(q)
      PROVE  q # r
  BY <1>3 DEF Ended, Step, RefuseInputs, MakeWorkspace, BindWorkspace, Finish, JudgeRaises, RunStore,
              FinishReturned, FinishRaised, ExitJudged, Report, ReportDone, ExitReported, Cleanup,
              Killed, Signal, SignalInBody, SignalInFinish, SignalInReport, SignalInClause,
              SignalInFinally, OSFailure, CleanupFails
<1> QED
  BY <1>1, <1>2, <1>3, StepIsFine, FaultSteps DEF Next

\* A current verdict of one of these processes is one it has archived.
ArchivedInv ==
  \A r \in Run : current \in Record /\ current.run = r => attempts[r] # NoRecord

LEMMA ArchivedStep ==
  ASSUME ProcessInv, ArchivedInv, [Next]_vars
  PROVE  ArchivedInv'
<1>1. [StoreNext]_(storeVars) /\ StoreInv
  BY StepOfStore DEF ProcessInv
<1>2. CASE UNCHANGED storeVars
  BY <1>2 DEF storeVars, ArchivedInv, Record, Status
<1>3. ASSUME NEW r \in Run, ReplaceAttempt(r)
      PROVE  ArchivedInv'
  <2>1. temp[r] # NoRecord
    BY <1>1, <1>3 DEF ReplaceAttempt, StoreInv, CarriesItsRecord, Active
  <2> QED
    BY <1>1, <1>3, <2>1
    DEF ReplaceAttempt, StoreInv, StoreTypeOK, ArchivedInv, Record, Status
<1>4. ASSUME NEW r \in Run, ReplaceCurrent(r)
      PROVE  ArchivedInv'
  <2>1. current' = attempts[r] /\ attempts[r] \in RecordOf(r) /\ UNCHANGED attempts
    BY <1>1, <1>4
    DEF ReplaceCurrent, StoreInv, CarriesItsRecord, PromotionStillRight,
        Critical, Active
  <2>2. attempts[r].run = r /\ attempts[r] # NoRecord
    BY <2>1, VerdictConstants DEF RecordOf, Record, Status
  <2> QED
    BY <2>1, <2>2 DEF ArchivedInv
<1>5. ASSUME NEW r \in Run,
             \/ \E fate : Call(r, fate)
             \/ CreateTemp(r) \/ DumpRecord(r) \/ AcquireLock(r)
             \/ Decide(r) \/ Return(r) \/ Unwind(r) \/ Kill(r)
      PROVE  ArchivedInv'
  <2>1. UNCHANGED <<attempts, current>>
    BY <1>5 DEF Call, CreateTemp, DumpRecord, AcquireLock, Decide,
                Return, Unwind, Kill
  <2> QED
    BY <2>1 DEF ArchivedInv, Record, Status
<1> QED
  BY <1>1, <1>2, <1>3, <1>4, <1>5
  DEF StoreNext, Advance, Raise, LockTimeout

\* The store's invariant, and what each process has archived by each point.
THEOREM ProcessInvariant == Spec => []ProcessInv
BY ProcessInit, ProcessStep, PTL DEF Spec

\* Any number of judge processes, with their signals, failing calls and kills,
\* together implement the store: what is proved of it holds of them.
THEOREM ProcessesImplementStore == Spec => KeepsStoreProtocol
<1>1. Init => StoreInit
  BY DEF Init
<1> QED
  BY <1>1, StepOfStore, ProcessInvariant, PTL DEF Spec, StoreSpec, KeepsStoreProtocol

\* An undisturbed process ends with the exit code its own record announces and
\* without its workspace, whatever happened to the others.
THEOREM UndisturbedProcessesReport == Spec => []UndisturbedContract
<1>1. ProcessInv => UndisturbedContract
  BY DEF ProcessInv, ProcessOK, CodeOK, WorkspaceOK, UndisturbedContract, ExitMatches, Leaks
<1> QED
  BY <1>1, ProcessInvariant, PTL

\* Wherever signals interrupt it, even in `finally`, a run leaves its workspace
\* behind only if it asks to be requeued or ends with a traceback.
THEOREM LeaksAreVisible == Spec => []LeakIsVisible
<1>1. ProcessInv => LeakIsVisible
  BY DEF ProcessInv, ProcessOK, WorkspaceOK, Leaks, Excepting, LeakIsVisible
<1> QED
  BY <1>1, ProcessInvariant, PTL

\* Exit code 0 never goes with an error or retry record.
THEOREM ExitZeroIsJudged == Spec => []ExitZeroIsNeverRequeueable
<1>1. ProcessInv => ExitZeroIsNeverRequeueable
  BY DEF ProcessInv, ProcessOK, CodeOK, ExitZeroIsNeverRequeueable
<1> QED
  BY <1>1, ProcessInvariant, PTL

-----------------------------------------------------------------------------
(* The wrapper *)

\* A wrapper that has collected its container has a judge that ended; while it
\* holds status 0 that judge exited with 0.
WrapperOK(r) ==
  /\ step[r] # "waiting" => pc[r] \in {"exited", "killed"}
  /\ step[r] \in {"current", "attempt"} /\ status[r] = 0 => pc[r] = "exited" /\ exitCode[r] = 0
  /\ step[r] = "done" /\ status[r] = 0 => IsJudged(attempts[r])
  /\ step[r] # "waiting" /\ pc[r] = "exited" /\ exitCode[r] = 0 /\ IsJudged(attempts[r]) =>
       status[r] \in {0, 2}

WrapperInv ==
  /\ ProcessInv /\ ArchivedInv
  /\ step \in [Run -> {"waiting", "current", "attempt", "done"}]
  /\ status \in [Run -> {NoStatus, 0, 1, 2, 3, 137}]
  /\ \A r \in Run : WrapperOK(r)

\* What is known of a judge process.
LEMMA JudgeFacts ==
  ASSUME ProcessInv, ArchivedInv, NEW r \in Run
  PROVE  /\ attempts[r] \in RecordOf(r) \cup {NoRecord}
         /\ exitCode[r] \in {-1, 0, 1, 2, 3}
         /\ pc[r] = "exited" /\ exitCode[r] = 0 => attempts[r] = NoRecord \/ IsJudged(attempts[r])
         /\ current \in Record /\ current.run = r => attempts[r] # NoRecord
<1>1. attempts[r] \in RecordOf(r) \cup {NoRecord}
  BY DEF ProcessInv, StoreInv, CarriesItsRecord, RecordOf, RecordOf,
         Status, Status
<1>2. exitCode[r] \in {-1, 0, 1, 2, 3}
  BY DEF ProcessInv, MainTypes, NoCode
<1>3. pc[r] = "exited" /\ exitCode[r] = 0 => attempts[r] = NoRecord \/ IsJudged(attempts[r])
  BY DEF ProcessInv, ProcessOK, CodeOK
<1>4. current \in Record /\ current.run = r => attempts[r] # NoRecord
  BY DEF ArchivedInv
<1> QED
  BY <1>1, <1>2, <1>3, <1>4

LEMMA WrapperStart == WrapperInit => WrapperInv
<1> SUFFICES ASSUME WrapperInit
             PROVE  WrapperInv
  OBVIOUS
<1>1. ProcessInv
  BY ProcessInit DEF WrapperInit
<1>2. current \notin Record \/ current.run \notin Run
  <2>1. current \in RecordOf(Earlier) \cup {NoRecord, Unreadable}
    BY DEF WrapperInit, Init, StoreInit, RecordOf, RecordOf, Status,
           Status
  <2> QED
    BY <2>1, VerdictConstants DEF RecordOf, Record, Status
<1>3. ArchivedInv
  BY <1>2 DEF ArchivedInv
<1> QED
  BY <1>1, <1>3 DEF WrapperInit, WrapperInv, WrapperOK

\* An ended judge stays as it is, so what a wrapper has seen stays true.
LEMMA JudgeMoves ==
  ASSUME WrapperInv, [Next]_vars, UNCHANGED <<step, status>>
  PROVE  WrapperInv'
<1>2. ProcessInv' /\ ArchivedInv'
  BY ProcessStep, ArchivedStep DEF WrapperInv
<1>3. ASSUME NEW r \in Run
      PROVE  WrapperOK(r)'
  <2>1. WrapperOK(r)
    BY DEF WrapperInv
  <2>2. CASE step[r] = "waiting"
    BY <2>2 DEF WrapperOK
  <2>3. CASE step[r] # "waiting"
    <3>1. pc[r] \in {"exited", "killed"}
      BY <2>1, <2>3 DEF WrapperOK
    <3>2. Same(r)
      BY <3>1, EndedStays DEF WrapperInv, Ended
    <3>3. pc'[r] = pc[r] /\ exitCode'[r] = exitCode[r] /\ attempts'[r] = attempts[r]
      BY <3>2 DEF Same
    <3> QED
      BY <2>1, <3>3 DEF WrapperOK, IsJudged, Record
  <2> QED
    BY <2>2, <2>3
<1> QED
  BY <1>2, <1>3 DEF WrapperInv

LEMMA WrapperMoves ==
  ASSUME WrapperInv, NEW r \in Run, UNCHANGED vars, Collect(r) \/ CheckCurrent(r) \/ CheckAttempt(r)
  PROVE  WrapperInv'
<1>1. [Next]_vars
  OBVIOUS
<1>2. ProcessInv' /\ ArchivedInv'
  BY <1>1, ProcessStep, ArchivedStep DEF WrapperInv
<1>3. /\ attempts[r] \in RecordOf(r) \cup {NoRecord}
      /\ exitCode[r] \in {-1, 0, 1, 2, 3}
      /\ pc[r] = "exited" /\ exitCode[r] = 0 => attempts[r] = NoRecord \/ IsJudged(attempts[r])
      /\ current \in Record /\ current.run = r => attempts[r] # NoRecord
  BY JudgeFacts DEF WrapperInv
<1>4. /\ step \in [Run -> {"waiting", "current", "attempt", "done"}]
      /\ status \in [Run -> {NoStatus, 0, 1, 2, 3, 137}] /\ WrapperOK(r)
      /\ UNCHANGED <<attempts, current, pc, exitCode>>
  BY DEF WrapperInv, vars, storeVars, mainVars
<1>5. ASSUME step' \in [Run -> {"waiting", "current", "attempt", "done"}],
             status' \in [Run -> {NoStatus, 0, 1, 2, 3, 137}],
             \A q \in Run \ {r} : step'[q] = step[q] /\ status'[q] = status[q],
             WrapperOK(r)'
      PROVE  WrapperInv'
  <2>1. \A q \in Run \ {r} : WrapperOK(q)'
    BY <1>4, <1>5 DEF WrapperInv, WrapperOK, IsJudged, Record
  <2> QED
    BY <1>2, <1>5, <2>1 DEF WrapperInv
<1>6. CASE Collect(r)
  <2>1. PICK fed \in BOOLEAN :
          status' = [status EXCEPT ![r] =
                       IF ~fed /\ ContainerStatus(r) = 0 THEN 2 ELSE ContainerStatus(r)]
    BY <1>6 DEF Collect
  <2>2. /\ step' = [step EXCEPT ![r] = "current"] /\ pc[r] \in {"exited", "killed"}
    BY <1>6 DEF Collect, Ended
  <2>3. ContainerStatus(r) = IF pc[r] = "killed" THEN 137 ELSE exitCode[r]
    BY DEF ContainerStatus
  <2>4. ContainerStatus(r) \in {NoStatus, 0, 1, 2, 3, 137}
    BY <1>3, <2>3 DEF NoStatus
  <2>5. WrapperOK(r)'
    BY <1>4, <2>1, <2>2, <2>3 DEF WrapperOK
  <2> QED
    BY <1>4, <1>5, <2>1, <2>2, <2>4, <2>5
<1>7. CASE CheckCurrent(r)
  <2>1. /\ step[r] = "current" /\ UNCHANGED status
        /\ step' = [step EXCEPT ![r] = IF Matches(r, current) THEN "done" ELSE "attempt"]
    BY <1>7 DEF CheckCurrent
  <2>2. Matches(r, current) => current \in Record /\ current.run = r
    BY DEF Matches
  <2>3. WrapperOK(r)'
    BY <1>3, <1>4, <2>1, <2>2 DEF WrapperOK, IsJudged, Record
  <2> QED
    BY <1>4, <1>5, <2>1, <2>3
<1>8. CASE CheckAttempt(r)
  <2>1. /\ step[r] = "attempt" /\ step' = [step EXCEPT ![r] = "done"]
        /\ status' = [status EXCEPT ![r] =
                        IF ~Matches(r, attempts[r]) /\ status[r] = 0 THEN 1 ELSE status[r]]
    BY <1>8 DEF CheckAttempt
  <2>2. status[r] = 0 => (Matches(r, attempts[r]) <=> IsJudged(attempts[r]))
    <3> SUFFICES ASSUME status[r] = 0
                 PROVE  Matches(r, attempts[r]) <=> IsJudged(attempts[r])
      OBVIOUS
    <3>1. Allowed(status[r]) = JudgedStatus
      BY DEF Allowed
    <3>2. attempts[r] \in Record => attempts[r].run = r
      BY <1>3, VerdictConstants DEF RecordOf, Record, Status
    <3> QED
      BY <3>1, <3>2 DEF Matches, IsJudged
  <2>3. WrapperOK(r)'
    BY <1>4, <2>1, <2>2 DEF WrapperOK, IsJudged, Record
  <2> QED
    BY <1>4, <1>5, <2>1, <2>3
<1> QED
  BY <1>6, <1>7, <1>8

-----------------------------------------------------------------------------
\* The judges' invariant, and what each wrapper knows at each of its steps.
THEOREM WrapperInvariant == WrapperSpec => []WrapperInv
<1>1. WrapperInv /\ [WrapperNext]_wrapperVars => WrapperInv'
  <2> SUFFICES ASSUME WrapperInv, [WrapperNext]_wrapperVars
               PROVE  WrapperInv'
    OBVIOUS
  <2>1. CASE JudgeStep \/ UNCHANGED wrapperVars
    BY <2>1, JudgeMoves DEF JudgeStep, wrapperVars
  <2>2. ASSUME NEW r \in Wrapped, Collect(r) \/ CheckCurrent(r) \/ CheckAttempt(r)
        PROVE  WrapperInv'
    BY <2>2, WrapperMoves, WrappedAssumption DEF Collect, CheckCurrent, CheckAttempt
  <2> QED
    BY <2>1, <2>2 DEF WrapperNext
<1> QED
  BY <1>1, WrapperStart, PTL DEF WrapperSpec

\* A wrapper takes no step of a judge, so what is proved of the judge
\* processes holds beside any number of wrappers.
THEOREM WrappersLeaveJudgesAlone == WrapperSpec => Spec
<1>1. WrapperInit => Init
  BY DEF WrapperInit
<1>2. [WrapperNext]_wrapperVars => [Next]_vars
  BY DEF WrapperNext, wrapperVars, JudgeStep, Collect, CheckCurrent, CheckAttempt
<1> QED
  BY <1>1, <1>2, PTL DEF WrapperSpec, Spec

\* Exit status 0 of the script is backed by a judged record of its own run,
\* for any number of concurrent runs of the submission.
THEOREM SuccessIsBacked == WrapperSpec => []SuccessIsOwnJudgement
<1>1. WrapperInv => SuccessIsOwnJudgement
  BY DEF WrapperInv, WrapperOK, SuccessIsOwnJudgement
<1> QED
  BY <1>1, WrapperInvariant, PTL

\* A judged run whose container exited with 0 is not reported as a failure.
THEOREM JudgementsAreReported == WrapperSpec => []JudgementIsReported
<1>1. WrapperInv => JudgementIsReported
  BY DEF WrapperInv, WrapperOK, JudgementIsReported
<1> QED
  BY <1>1, WrapperInvariant, PTL

=============================================================================
