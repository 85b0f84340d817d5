---------------------------- MODULE VerdictStore ----------------------------
(***************************************************************************)
(* _store_verdict and _atomic_json of evaluation/judge/judge.py: concurrent *)
(* judge processes persist the verdict of one (problem, submission).  A    *)
(* call writes the attempt record of its run, takes the flock of the       *)
(* submission, decides whether the record becomes the current verdict, and *)
(* writes that.  Each JSON file is written to a temporary and renamed over *)
(* its target.  A call may raise at any point (a signal, an OSError, the   *)
(* lock deadline) and its process may be killed at any point; the kernel   *)
(* then releases the flock.                                                *)
(*                                                                         *)
(* Two processes never share a run_id, so attempts[r] is written by r only. *)
(***************************************************************************)
EXTENDS Verdicts

CONSTANTS
  Free,       \* the flock is not held
  Diligent    \* the runs the operating system keeps scheduling

ASSUME StoreConstants == Free \notin Run /\ Diligent \subseteq Run

VARIABLES
  attempts,   \* attempts/<name>__<run_id>.json of each run
  current,    \* <name>.json, the verdict every reader looks at
  lock,       \* holder of .locks/<name>.lock
  phase,      \* where each run is in _store_verdict
  payload,    \* the record a run is storing
  target,     \* the file _atomic_json is replacing
  temp,       \* the *.json.tmp file of a run
  outcome     \* how the last call of a run ended

storeVars == <<attempts, current, lock, phase, payload, target, temp, outcome>>

Phase == {"idle", "create", "dump", "replace", "acquire", "decide", "release", "dead"}

Active(r) == phase[r] \notin {"idle", "dead"}

(* Between the flock and the end of its `with` block. *)
Critical(r) ==
  \/ phase[r] \in {"decide", "release"}
  \/ phase[r] \in {"create", "dump", "replace"} /\ target[r] = "current"

StoreTypeOK ==
  /\ attempts \in [Run -> RecordFile]
  /\ current \in RecordFile
  /\ lock \in Run \cup {Free}
  /\ phase \in [Run -> Phase]
  /\ payload \in [Run -> Record \cup {NoRecord}]
  /\ target \in [Run -> {"attempt", "current"}]
  /\ temp \in [Run -> RecordFile]
  /\ outcome \in [Run -> {"none", "returned", "raised"}]

StoreInit ==
  /\ attempts = [r \in Run |-> NoRecord]
  /\ current \in RecordOf(Earlier) \cup {NoRecord, Unreadable}
  /\ lock = Free
  /\ phase = [r \in Run |-> "idle"]
  /\ payload = [r \in Run |-> NoRecord]
  /\ target = [r \in Run |-> "attempt"]
  /\ temp = [r \in Run |-> NoRecord]
  /\ outcome = [r \in Run |-> "none"]

-----------------------------------------------------------------------------
Proceed(r, p) == phase' = [phase EXCEPT ![r] = p]

(* `_store_verdict(problem, sub_name, payload, promote)`; both callers pass  *)
(* promote = status in ("accepted", "rejected").                             *)
Call(r, status) ==
  /\ phase[r] = "idle"
  /\ payload' = [payload EXCEPT ![r] = [run |-> r, status |-> status]]
  /\ target' = [target EXCEPT ![r] = "attempt"]
  /\ outcome' = [outcome EXCEPT ![r] = "none"]
  /\ Proceed(r, "create")
  /\ UNCHANGED <<attempts, current, lock, temp>>

(* Mutant of CreateTemp: the file is put in place before it is written.      *)
CreateTemp_InPlace(r) ==
  /\ phase[r] = "create"
  /\ temp' = [temp EXCEPT ![r] = Unreadable]
  /\ Proceed(r, "replace")
  /\ UNCHANGED <<attempts, current, lock, payload, target, outcome>>

(* _atomic_json: mkstemp leaves an empty temporary in the target's directory. *)
CreateTemp(r) ==
  /\ phase[r] = "create"
  /\ temp' = [temp EXCEPT ![r] = Unreadable]
  /\ Proceed(r, "dump")
  /\ UNCHANGED <<attempts, current, lock, payload, target, outcome>>

(* _atomic_json: json.dump and the close that flushes it. *)
DumpRecord(r) ==
  /\ phase[r] = "dump"
  /\ temp' = [temp EXCEPT ![r] = payload[r]]
  /\ Proceed(r, "replace")
  /\ UNCHANGED <<attempts, current, lock, payload, target, outcome>>

(* _atomic_json: os.replace over the attempt file. *)
ReplaceAttempt(r) ==
  /\ phase[r] = "replace" /\ target[r] = "attempt"
  /\ attempts' = [attempts EXCEPT ![r] = temp[r]]
  /\ temp' = [temp EXCEPT ![r] = NoRecord]
  /\ Proceed(r, "acquire")
  /\ UNCHANGED <<current, lock, payload, target, outcome>>

(* Mutant of AcquireLock: the lock is shared.                                *)
AcquireLock_Shared(r) ==
  /\ phase[r] = "acquire"
  /\ lock' = r
  /\ Proceed(r, "decide")
  /\ UNCHANGED <<attempts, current, payload, target, temp, outcome>>

(* flock(LOCK_EX | LOCK_NB) succeeds. *)
AcquireLock(r) ==
  /\ phase[r] = "acquire"
  /\ lock = Free
  /\ lock' = r
  /\ Proceed(r, "decide")
  /\ UNCHANGED <<attempts, current, payload, target, temp, outcome>>

(* Mutants of ShouldPromote: always, and only judged records.                *)
ShouldPromote_Always(rec, previous) == TRUE
ShouldPromote_OnlyJudged(rec, previous) == IsJudged(rec)

(* should_promote: the record is judged, or there is no current verdict, or  *)
(* the current one is neither accepted nor rejected or cannot be read.       *)
ShouldPromote(rec, previous) == IsJudged(rec) \/ ~IsJudged(previous)

Decide(r) ==
  /\ phase[r] = "decide"
  /\ IF ShouldPromote(payload[r], current)
       THEN /\ target' = [target EXCEPT ![r] = "current"]
            /\ Proceed(r, "create")
       ELSE /\ Proceed(r, "release")
            /\ UNCHANGED target
  /\ UNCHANGED <<attempts, current, lock, payload, temp, outcome>>

(* _atomic_json: os.replace over the current verdict. *)
ReplaceCurrent(r) ==
  /\ phase[r] = "replace" /\ target[r] = "current"
  /\ current' = temp[r]
  /\ temp' = [temp EXCEPT ![r] = NoRecord]
  /\ Proceed(r, "release")
  /\ UNCHANGED <<attempts, lock, payload, target, outcome>>

Unlocked(r) == IF lock = r THEN Free ELSE lock

(* The `with` block closes the lock file and the call returns. *)
Return(r) ==
  /\ phase[r] = "release"
  /\ lock' = Unlocked(r)
  /\ outcome' = [outcome EXCEPT ![r] = "returned"]
  /\ Proceed(r, "idle")
  /\ UNCHANGED <<attempts, current, payload, target, temp>>

(* An exception leaves the call: `finally` unlinks the temporary and `with`  *)
(* closes the lock file.                                                     *)
Unwind(r) ==
  /\ lock' = Unlocked(r)
  /\ temp' = [temp EXCEPT ![r] = NoRecord]
  /\ outcome' = [outcome EXCEPT ![r] = "raised"]
  /\ Proceed(r, "idle")
  /\ UNCHANGED <<attempts, current, payload, target>>

(* A signal handler or a failing system call raises inside the call. *)
Raise(r) == Active(r) /\ Unwind(r)

(* Mutant of LockTimeout: wait for the flock for ever.                       *)
LockTimeout_Never(r) == FALSE

(* Five seconds of polling found the flock held: InfraError. *)
LockTimeout(r) ==
  /\ phase[r] = "acquire"
  /\ lock # Free
  /\ Unwind(r)

(* SIGKILL: no `finally` runs, the temporary stays, the kernel drops the flock. *)
Kill(r) ==
  /\ phase[r] # "dead"
  /\ lock' = Unlocked(r)
  /\ Proceed(r, "dead")
  /\ UNCHANGED <<attempts, current, payload, target, temp, outcome>>

-----------------------------------------------------------------------------
(* What a scheduled process does next inside the call. *)
Advance(r) ==
  \/ CreateTemp(r)
  \/ DumpRecord(r)
  \/ ReplaceAttempt(r)
  \/ AcquireLock(r)
  \/ LockTimeout(r)
  \/ Decide(r)
  \/ ReplaceCurrent(r)
  \/ Return(r)

StoreNext ==
  \E r \in Run :
    \/ \E status \in Status : Call(r, status)
    \/ Advance(r)
    \/ Raise(r)
    \/ Kill(r)

(* A scheduled process keeps executing; nothing is assumed of the others,    *)
(* which may stop anywhere, inside the flock included.                       *)
StoreFairness == \A r \in Diligent : WF_storeVars(Advance(r))

StoreSpec == StoreInit /\ [][StoreNext]_storeVars

FairStoreSpec == StoreSpec /\ StoreFairness

-----------------------------------------------------------------------------
(* The flock is held exactly by the run inside the read/decide/write section *)
(* of _store_verdict, so two runs are never in it together and a run that    *)
(* raised or died never leaves it locked (the comment "Serialize the         *)
(* current-verdict read/decision/write across judge processes").             *)
LockDiscipline == \A r \in Run : Critical(r) <=> lock = r

(* A record a run is about to make current was archived, complete, first,    *)
(* and its decision to promote is still right when it writes.                *)
PromotionStillRight ==
  \A r \in Run :
    /\ Critical(r) => attempts[r] = payload[r]
    /\ (Critical(r) /\ phase[r] # "release" /\ target[r] = "current")
         => ShouldPromote(payload[r], current)

(* `_store_verdict` returning means the submission has a readable current    *)
(* verdict, and a judged one if the stored record was judged: no concurrent  *)
(* run may have undone it since.                                             *)
ReturnLeavesVerdict ==
  \A r \in Run : outcome[r] = "returned" =>
    /\ current \in Record
    /\ IsJudged(payload[r]) => IsJudged(current)

(* The inductive strengthening: what a run carries through the phases, and   *)
(* what holds of the current verdict just before the call returns.           *)
CarriesItsRecord ==
  \A r \in Run :
    /\ attempts[r] \in RecordOf(r) \cup {NoRecord}
    /\ payload[r] \in RecordOf(r) \cup {NoRecord}
    /\ Active(r) => payload[r] # NoRecord
    /\ phase[r] = "replace" => temp[r] = payload[r]
    /\ phase[r] = "acquire" => attempts[r] = payload[r]
    /\ phase[r] \in {"acquire", "decide"} => target[r] = "attempt"
    /\ phase[r] = "release" =>
         /\ current \in Record
         /\ IsJudged(payload[r]) => IsJudged(current)

StoreInv ==
  /\ StoreTypeOK
  /\ LockDiscipline
  /\ CarriesItsRecord
  /\ PromotionStillRight
  /\ ReturnLeavesVerdict

(* "A retry/error never replaces an existing accepted or rejected result":   *)
(* no step of any run turns a judged current verdict into anything else.     *)
JudgedNeverDemoted == [][IsJudged(current) => IsJudged(current')]_current

(* The store implements the board: readers only ever see complete records    *)
(* that their run had archived, published by the board's rule.               *)
Board == INSTANCE VerdictBoard WITH archive <- attempts, board <- current
BoardSpec == Board!Spec

(* The polling lock with its deadline: a scheduled run always gets out of    *)
(* _store_verdict, even when another run stops while it holds the flock.     *)
StoreEnds == \A r \in Diligent : Active(r) ~> ~Active(r)
=============================================================================
