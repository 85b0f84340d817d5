---------------------------- MODULE RemoteTiming ----------------------------
(***************************************************************************)
(* _time_remote of evaluation/judge/judge.py and its caller time_export:   *)
(* the replays of one submission on remote KTP/3 executors.  Executors are *)
(* numbered in active-standby order.  Each replay walks the list up to     *)
(* three times until one answers with a valid response; the first that     *)
(* does is pinned for the rest of the submission.                          *)
(*                                                                         *)
(* Executors are external: a request meets no usable answer, a broken HTTP *)
(* reply, or a valid response, and an executor may be redeployed between   *)
(* any two requests.  The first replay is the correctness replay and has   *)
(* no deadline; those of a legacy schedule's cases share one.              *)
(***************************************************************************)
EXTENDS Integers

CONSTANTS
  Urls,        \* the number of executor URLs
  Identity,    \* what an executor may report as its name and version
  Replays,     \* replays of one submission: the correctness one and the cases
  NoIdentity

ASSUME RemoteAssumption ==
  /\ Urls \in Nat \ {0}
  /\ Replays \in Nat \ {0}
  /\ NoIdentity \notin Identity

Url == 1 .. Urls
NoUrl == 0
Attempts == 3   \* the entries of _EXECUTOR_ATTEMPT_SLEEPS

(* What a valid response says of the replay. *)
Answer == {"ok", "timeout", "resource-limit", "failed"}

VARIABLES
  healthy,         \* the executors that stay up and are not redeployed
  serving,         \* the identity each executor reports now
  limited,         \* the cases share a legacy deadline
  late,            \* that deadline has passed
  replay,          \* the replay under way
  phase,           \* where _time_remote is
  attempt,         \* its walk over the URLs
  base,            \* the URL it is at
  sent,            \* this replay has sent a request
  answer,          \* the last valid response to this replay
  pinned,          \* _PINNED_EXECUTOR
  pinnedIdentity,  \* _PINNED_EXECUTOR_IDENTITY
  recorded,        \* stages.timing_executor in the verdict
  measured,        \* who served the responses that became results
  result           \* how the replay, or with it judge(), ended

clientVars == <<replay, phase, attempt, base, sent, answer,
                pinned, pinnedIdentity, recorded, measured, result>>
vars == <<healthy, serving, limited, late, clientVars>>

Result == {"none", "budget-exhausted", "retry", "error"} \cup Answer

TypeOK ==
  /\ healthy \subseteq Url
  /\ serving \in [Url -> Identity]
  /\ limited \in BOOLEAN /\ late \in BOOLEAN
  /\ replay \in 1 .. Replays
  /\ phase \in {"start", "dispatch", "waiting", "backoff", "returned", "ended"}
  /\ attempt \in 1 .. Attempts
  /\ base \in Url
  /\ sent \in BOOLEAN
  /\ answer \in Answer \cup {"none"}
  /\ pinned \in Url \cup {NoUrl}
  /\ pinnedIdentity \in Identity \cup {NoIdentity}
  /\ recorded \in Identity \cup {NoIdentity}
  /\ measured \subseteq [url : Url, identity : Identity]
  /\ result \in Result

Init ==
  /\ healthy \in SUBSET Url
  /\ serving \in [Url -> Identity]
  /\ limited \in BOOLEAN /\ late = FALSE
  /\ replay = 1 /\ phase = "start"
  /\ attempt = 1 /\ base = 1
  /\ sent = FALSE /\ answer = "none"
  /\ pinned = NoUrl /\ pinnedIdentity = NoIdentity
  /\ recorded = NoIdentity
  /\ measured = {}
  /\ result = "none"

-----------------------------------------------------------------------------
HasDeadline == limited /\ replay > 1
PastDeadline == HasDeadline /\ late

(* Mutant of LastUrl: only the active executor is tried.                     *)
LastUrl_Active == IF pinned # NoUrl THEN pinned ELSE 1

FirstUrl == IF pinned # NoUrl THEN pinned ELSE 1
LastUrl == IF pinned # NoUrl THEN pinned ELSE Urls

Pins == <<pinned, pinnedIdentity, recorded, measured>>

Return(outcome) == phase' = "returned" /\ result' = outcome /\ UNCHANGED <<attempt, base>>
Raise(outcome) == phase' = "ended" /\ result' = outcome /\ UNCHANGED <<attempt, base>>

(* The deadline is looked at twice before anything is sent. *)
Start ==
  /\ phase = "start"
  /\ IF PastDeadline
       THEN Return("budget-exhausted")
       ELSE phase' = "dispatch" /\ attempt' = 1 /\ base' = FirstUrl /\ UNCHANGED result
  /\ UNCHANGED <<replay, sent, answer, Pins>>

(* Mutant of Dispatch: an outage is charged to the case.                     *)
Dispatch_Exhausts ==
  /\ phase = "dispatch"
  /\ IF PastDeadline
       THEN Return("budget-exhausted") /\ UNCHANGED sent
       ELSE phase' = "waiting" /\ sent' = TRUE /\ UNCHANGED <<attempt, base, result>>
  /\ UNCHANGED <<replay, answer, Pins>>

Dispatch ==
  /\ phase = "dispatch"
  /\ IF PastDeadline
       THEN Raise("retry") /\ UNCHANGED sent
       ELSE phase' = "waiting" /\ sent' = TRUE /\ UNCHANGED <<attempt, base, result>>
  /\ UNCHANGED <<replay, answer, Pins>>

(* Mutant of NextUrl: walk the list again for ever.                          *)
NextUrl_Forever ==
  /\ phase' = "dispatch" /\ base' = IF base < LastUrl THEN base + 1 ELSE FirstUrl
  /\ UNCHANGED <<attempt, result>>

(* `continue`, or the end of an `except`: the next URL, the next walk after  *)
(* a pause, or TimingRetry.                                                  *)
NextUrl ==
  \/ /\ base < LastUrl
     /\ phase' = "dispatch" /\ base' = base + 1
     /\ UNCHANGED <<attempt, result>>
  \/ /\ base = LastUrl /\ attempt < Attempts
     /\ phase' = "backoff"
     /\ UNCHANGED <<attempt, base, result>>
  \/ /\ base = LastUrl /\ attempt = Attempts
     /\ Raise("retry")

(* The pause between two walks, unless it would reach the deadline. *)
Backoff ==
  /\ phase = "backoff"
  /\ \/ HasDeadline /\ Raise("retry")
     \/ /\ ~PastDeadline
        /\ phase' = "dispatch" /\ attempt' = attempt + 1 /\ base' = FirstUrl
        /\ UNCHANGED result
  /\ UNCHANGED <<replay, sent, answer, Pins>>

(* No connection, a timeout, an HTTP error, or a response without the        *)
(* contract, boundary, target, limit, identity or samples that were asked for. *)
NoUsableAnswer ==
  /\ phase = "waiting" /\ base \notin healthy
  /\ NextUrl
  /\ UNCHANGED <<replay, sent, answer, Pins>>

(* A status line or a body cut short raises http.client.HTTPException, which *)
(* neither _time_remote nor time_export catches.                             *)
BrokenReply ==
  /\ phase = "waiting" /\ base \notin healthy
  /\ Raise("error")
  /\ UNCHANGED <<replay, sent, answer, Pins>>

(* Mutant of Accepts: the pinned identity is not compared.                   *)
Accepts_Any(identity) == TRUE

Accepts(identity) == pinnedIdentity \in {NoIdentity, identity}

(* _time_remote pins the executor, time_export records the first one. *)
Pin(identity) ==
  /\ pinned' = base
  /\ pinnedIdentity' = identity
  /\ recorded' = IF recorded = NoIdentity THEN identity ELSE recorded
  /\ measured' = measured \cup {[url |-> base, identity |-> identity]}

ValidAnswer(status) ==
  LET identity == serving[base] IN
  /\ phase = "waiting"
  /\ IF ~Accepts(identity) THEN NextUrl /\ UNCHANGED <<answer, Pins>>
     ELSE /\ answer' = status
          /\ IF status # "failed" /\ PastDeadline
               THEN Return("budget-exhausted") /\ UNCHANGED Pins
               ELSE Return(status) /\ Pin(identity)
  /\ UNCHANGED <<replay, sent>>

(* A refused export is an error, an incomplete correctness replay ends the   *)
(* run; otherwise the next case follows.                                     *)
Continues == result # "failed" /\ (replay = 1 => result = "ok")

NextReplay ==
  /\ phase = "returned" /\ Continues /\ replay < Replays
  /\ replay' = replay + 1
  /\ phase' = "start"
  /\ sent' = FALSE /\ answer' = "none" /\ result' = "none"
  /\ UNCHANGED <<attempt, base, Pins>>

-----------------------------------------------------------------------------
Client ==
  \/ Start
  \/ Dispatch
  \/ NoUsableAnswer
  \/ BrokenReply
  \/ \E status \in Answer : ValidAnswer(status)
  \/ Backoff
  \/ NextReplay

(* An executor is redeployed: it keeps its URL and reports a new identity. *)
Redeploy(u) ==
  /\ u \notin healthy
  /\ \E identity \in Identity : serving' = [serving EXCEPT ![u] = identity]
  /\ UNCHANGED <<healthy, limited, late, clientVars>>

Expire ==
  /\ HasDeadline
  /\ late' = TRUE
  /\ UNCHANGED <<healthy, serving, limited, clientVars>>

Next ==
  \/ Client /\ UNCHANGED <<healthy, serving, limited, late>>
  \/ \E u \in Url : Redeploy(u)
  \/ Expire

(* Every request has a timeout, so the client always gets on. *)
Spec ==
  /\ Init /\ [][Next]_vars
  /\ WF_vars(Client /\ UNCHANGED <<healthy, serving, limited, late>>)

-----------------------------------------------------------------------------
(* "A mid-curve failover cannot mix PMU data from different machines under   *)
(* one label": everything measured for a submission came from one URL        *)
(* running one version, the one the verdict names; and only an executor that *)
(* delivered a result is pinned.                                             *)
OneExecutor ==
  measured = IF pinned = NoUrl THEN {} ELSE {[url |-> pinned, identity |-> recorded]}

(* The pinned identity is the recorded one: the two halves of a pin and the  *)
(* label in the verdict are set together.                                    *)
PinsAgree ==
  /\ (pinned = NoUrl) <=> (pinnedIdentity = NoIdentity)
  /\ recorded = pinnedIdentity


(* "Once dispatch starts, failure to obtain a valid executor response ...    *)
(* must remain retryable": a case is charged with an exhausted budget only   *)
(* if nothing was sent or a valid response arrived late, and never if that   *)
(* response was the kernel's refusal.                                        *)
ExhaustionIsEarned ==
  result = "budget-exhausted" =>
    /\ PastDeadline
    /\ sent => answer \in Answer \ {"failed"}

(* Active-standby: while an executor stays up, and the submission is not     *)
(* pinned to another one, no outage of the others delays it.                 *)
StandbyServes ==
  result = "retry" /\ ~limited /\ healthy # {} => pinned \notin healthy \cup {NoUrl}

(* The inductive strengthening: where a walk is, and who it has passed.      *)
Walking == phase \in {"dispatch", "waiting", "backoff"}

WalkInv ==
  /\ phase = "start" => ~sent /\ answer = "none"
  /\ phase = "start" \/ Walking => result = "none"
  /\ Walking => answer = "none"
  /\ Walking /\ pinned # NoUrl => base = pinned
  /\ phase = "backoff" => attempt < Attempts

HealthyAhead ==
  /\ pinned \in healthy => serving[pinned] = pinnedIdentity
  /\ phase \in {"dispatch", "waiting"} /\ pinned = NoUrl => \A u \in healthy : base <= u
  /\ phase = "backoff" => healthy = {} \/ pinned \notin healthy \cup {NoUrl}

RemoteInv ==
  /\ TypeOK
  /\ PinsAgree
  /\ OneExecutor
  /\ WalkInv
  /\ ExhaustionIsEarned
  /\ HealthyAhead
  /\ StandbyServes

(* A submission keeps the executor that served it first.                     *)
PinIsFinal == [][pinned # NoUrl => pinned' = pinned]_pinned

(* The attempts are bounded: every replay returns or gives up.               *)
ReplayEnds == [](phase = "start" => <>(phase \in {"returned", "ended"}))

(* "An executor outage can only delay a score": anything but the kernel's    *)
(* own refusal ends in a retry, never in an error verdict.                   *)
OutageOnlyDelays == result # "error"
=============================================================================
