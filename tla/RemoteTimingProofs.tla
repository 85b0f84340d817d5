------------------------- MODULE RemoteTimingProofs -------------------------
(***************************************************************************)
(* Proofs about RemoteTiming for any number of executors, identities and   *)
(* replays.  RemoteInv is inductive: the walk over the URLs of a pinned    *)
(* submission is at the pinned URL (WalkInv), so only that executor's      *)
(* answers, under the pinned identity, are measured.                       *)
(***************************************************************************)
EXTENDS RemoteTiming, TLAPS

(* Initially nothing is pinned and nothing measured.                         *)
LEMMA RemoteInit == Init => RemoteInv
<1> SUFFICES ASSUME Init PROVE RemoteInv
  OBVIOUS
<1> USE RemoteAssumption DEF RemoteAssumption, Init, Url, NoUrl
<1>1. TypeOK
  <2>1. replay \in 1 .. Replays /\ base \in Url /\ attempt \in 1 .. Attempts
    BY DEF Attempts
  <2>2. measured \subseteq [url : Url, identity : Identity]
    OBVIOUS
  <2>3. healthy \subseteq Url /\ serving \in [Url -> Identity]
    OBVIOUS
  <2> QED
    BY <2>1, <2>2, <2>3 DEF TypeOK, Answer, Result
<1>2. PinsAgree /\ OneExecutor
  BY DEF PinsAgree, OneExecutor
<1>3. WalkInv /\ HealthyAhead
  BY DEF WalkInv, Walking, HealthyAhead
<1>4. ExhaustionIsEarned /\ StandbyServes
  BY DEF ExhaustionIsEarned, StandbyServes
<1> QED
  BY <1>1, <1>2, <1>3, <1>4 DEF RemoteInv

(* The types of the walk, of the pins and of the executors' side are kept    *)
(* separately: every step but ValidAnswer leaves the pins alone.             *)
WalkTypes ==
  /\ replay \in 1 .. Replays
  /\ phase \in {"start", "dispatch", "waiting", "backoff", "returned", "ended"}
  /\ attempt \in 1 .. Attempts /\ base \in Url
  /\ sent \in BOOLEAN /\ answer \in Answer \cup {"none"} /\ result \in Result

PinTypes ==
  /\ pinned \in Url \cup {NoUrl} /\ pinnedIdentity \in Identity \cup {NoIdentity}
  /\ recorded \in Identity \cup {NoIdentity}
  /\ measured \subseteq [url : Url, identity : Identity]

OthersTypes ==
  /\ healthy \subseteq Url /\ serving \in [Url -> Identity]
  /\ limited \in BOOLEAN /\ late \in BOOLEAN

(* TypeOK is the conjunction of its parts.                                   *)
LEMMA TypeParts == TypeOK <=> WalkTypes /\ PinTypes /\ OthersTypes
BY DEF TypeOK, WalkTypes, PinTypes, OthersTypes

(* Going on to the next URL or the next walk stays within the list and the   *)
(* attempts.                                                                 *)
LEMMA NextUrlTypes ==
  ASSUME WalkTypes, PinTypes, NextUrl
  PROVE  /\ attempt' \in 1 .. Attempts /\ base' \in Url /\ result' \in Result
         /\ phase' \in {"dispatch", "backoff", "ended"}
<1> USE RemoteAssumption DEF RemoteAssumption, WalkTypes, PinTypes, NextUrl, Raise, Result
<1>1. base < LastUrl => base + 1 \in Url
  BY DEF LastUrl, Url, NoUrl
<1> QED
  BY <1>1

(* No step of the client leaves the range of its walk.                       *)
LEMMA WalkTypeStep ==
  ASSUME RemoteInv, [Next]_vars
  PROVE  WalkTypes'
<1> SUFFICES ASSUME WalkTypes, PinTypes PROVE WalkTypes'
  BY TypeParts DEF RemoteInv
<1>0. FirstUrl \in Url
  BY RemoteAssumption DEF RemoteAssumption, FirstUrl, PinTypes, Url, NoUrl
<1>1. ASSUME Client PROVE WalkTypes'
  <2> USE DEF WalkTypes, Return, Raise, Result
  <2>1. CASE Start
    BY <2>1, <1>0 DEF Start, Attempts
  <2>2. CASE Dispatch
    BY <2>2 DEF Dispatch
  <2>3. CASE NoUsableAnswer
    BY <2>3, NextUrlTypes DEF NoUsableAnswer
  <2>4. CASE BrokenReply
    BY <2>4 DEF BrokenReply
  <2>5. ASSUME NEW status \in Answer, ValidAnswer(status) PROVE WalkTypes'
    BY <2>5, NextUrlTypes DEF ValidAnswer
  <2>6. CASE Backoff
    BY <2>6, <1>0 DEF Backoff, Attempts, RemoteInv, WalkInv
  <2>7. CASE NextReplay
    <3>1. replay' \in 1 .. Replays
      BY <2>7, RemoteAssumption DEF NextReplay, RemoteAssumption
    <3> QED
      BY <2>7, <3>1 DEF NextReplay
  <2> QED
    BY <1>1, <2>1, <2>2, <2>3, <2>4, <2>5, <2>6, <2>7 DEF Client
<1>2. CASE UNCHANGED clientVars
  BY <1>2 DEF clientVars, WalkTypes
<1> QED
  BY <1>1, <1>2 DEF Next, Redeploy, Expire, vars

(* Every step preserves the type invariant.                                  *)
LEMMA TypeStep ==
  ASSUME RemoteInv, [Next]_vars
  PROVE  TypeOK'
<1>1. WalkTypes /\ PinTypes /\ OthersTypes
  BY TypeParts DEF RemoteInv
<1>2. PinTypes'
  <2>1. CASE UNCHANGED Pins
    BY <1>1, <2>1 DEF PinTypes, Pins
  <2>2. ASSUME NEW identity \in Identity, Pin(identity) PROVE PinTypes'
    BY <1>1, <2>2 DEF PinTypes, Pin, WalkTypes
  <2>3. serving[base] \in Identity
    BY <1>1 DEF WalkTypes, OthersTypes
  <2> QED
    BY <2>1, <2>2, <2>3
    DEF Next, Client, Start, Dispatch, NoUsableAnswer, BrokenReply, ValidAnswer, Backoff,
        NextReplay, Redeploy, Expire, vars, clientVars, Pins
<1>3. OthersTypes'
  BY <1>1 DEF OthersTypes, Next, Redeploy, Expire, vars
<1> QED
  BY <1>2, <1>3, WalkTypeStep DEF TypeOK, WalkTypes, PinTypes, OthersTypes

(* A walk under a pin stays at the pinned URL, and an answer means the       *)
(* replay is over.                                                           *)
LEMMA WalkStep ==
  ASSUME RemoteInv, [Next]_vars
  PROVE  WalkInv'
<1> USE RemoteAssumption
    DEF RemoteAssumption, RemoteInv, TypeOK, WalkInv, Walking, Url, NoUrl, Attempts, Pins,
        Return, Raise, FirstUrl, LastUrl
<1>1. CASE Client /\ UNCHANGED <<healthy, serving, limited, late>>
  <2>1. CASE Start
    BY <1>1, <2>1 DEF Start
  <2>2. CASE Dispatch
    BY <1>1, <2>2 DEF Dispatch
  <2>3. CASE NoUsableAnswer
    BY <1>1, <2>3 DEF NoUsableAnswer, NextUrl
  <2>4. CASE BrokenReply
    BY <1>1, <2>4 DEF BrokenReply
  <2>5. ASSUME NEW status \in Answer, ValidAnswer(status) PROVE WalkInv'
    BY <1>1, <2>5 DEF ValidAnswer, Pin, NextUrl
  <2>6. CASE Backoff
    BY <1>1, <2>6 DEF Backoff
  <2>7. CASE NextReplay
    BY <1>1, <2>7 DEF NextReplay
  <2> QED
    BY <1>1, <2>1, <2>2, <2>3, <2>4, <2>5, <2>6, <2>7 DEF Client
<1>2. ASSUME NEW u \in Url, Redeploy(u) PROVE WalkInv'
  BY <1>2 DEF Redeploy, clientVars
<1>3. CASE Expire
  BY <1>3 DEF Expire, clientVars
<1>4. CASE UNCHANGED vars
  BY <1>4 DEF vars, clientVars
<1> QED
  BY <1>1, <1>2, <1>3, <1>4 DEF Next

(* A measurement extends the pin or makes it: an accepted identity is the    *)
(* pinned one, and the URL is the pinned one because the walk stayed there.  *)
LEMMA MeasuredByPin ==
  ASSUME RemoteInv, NEW identity \in Identity, phase = "waiting",
         Accepts(identity), Pin(identity)
  PROVE  /\ PinsAgree' /\ OneExecutor'
         /\ pinned # NoUrl => UNCHANGED <<pinned, pinnedIdentity>>
<1> USE RemoteAssumption DEF RemoteAssumption, RemoteInv, PinsAgree, OneExecutor, Accepts, Pin
<1>1. base # NoUrl /\ identity # NoIdentity
  BY DEF TypeOK, Url, NoUrl
<1>2. CASE pinned = NoUrl
  BY <1>1, <1>2
<1>3. CASE pinned # NoUrl
  <2>1. base = pinned /\ identity = pinnedIdentity /\ identity = recorded
    BY <1>3 DEF WalkInv, Walking
  <2>2. measured' = measured
    BY <1>3, <2>1
  <2> QED
    BY <1>1, <1>3, <2>1, <2>2
<1> QED
  BY <1>2, <1>3

(* Only a valid, accepted answer touches the pin.                            *)
LEMMA PinStep ==
  ASSUME RemoteInv, [Next]_vars
  PROVE  /\ PinsAgree' /\ OneExecutor'
         /\ pinned # NoUrl => UNCHANGED <<pinned, pinnedIdentity>>
<1>1. CASE UNCHANGED <<pinned, pinnedIdentity, recorded, measured>>
  BY <1>1 DEF RemoteInv, PinsAgree, OneExecutor
<1>2. ASSUME NEW status \in Answer, ValidAnswer(status)
      PROVE  \/ UNCHANGED Pins
             \/ phase = "waiting" /\ Accepts(serving[base]) /\ Pin(serving[base])
  BY <1>2 DEF ValidAnswer
<1>3. serving[base] \in Identity
  BY DEF RemoteInv, TypeOK
<1> QED
  BY <1>1, <1>2, <1>3, MeasuredByPin
  DEF Next, Client, Start, Dispatch, NoUsableAnswer, BrokenReply, Backoff, NextReplay, Redeploy,
      Expire, vars, clientVars, Pins

(* The deadline never comes back, and a charged case had no refusal.         *)
LEMMA ExhaustionStep ==
  ASSUME RemoteInv, [Next]_vars
  PROVE  ExhaustionIsEarned'
<1> USE DEF RemoteInv, ExhaustionIsEarned, PastDeadline, HasDeadline, Pins, Return, Raise
<1>1. CASE Client /\ UNCHANGED <<healthy, serving, limited, late>>
  <2>1. CASE Start
    BY <1>1, <2>1 DEF Start, WalkInv
  <2>2. CASE Dispatch
    BY <1>1, <2>2 DEF Dispatch, WalkInv, Walking
  <2>3. CASE NoUsableAnswer
    BY <1>1, <2>3 DEF NoUsableAnswer, NextUrl, WalkInv, Walking
  <2>4. CASE BrokenReply
    BY <1>1, <2>4 DEF BrokenReply
  <2>5. ASSUME NEW status \in Answer, ValidAnswer(status) PROVE ExhaustionIsEarned'
    BY <1>1, <2>5 DEF ValidAnswer, Pin, NextUrl, WalkInv, Walking, Answer
  <2>6. CASE Backoff
    BY <1>1, <2>6 DEF Backoff, WalkInv, Walking
  <2>7. CASE NextReplay
    BY <1>1, <2>7 DEF NextReplay
  <2> QED
    BY <1>1, <2>1, <2>2, <2>3, <2>4, <2>5, <2>6, <2>7 DEF Client
<1>2. ASSUME NEW u \in Url, Redeploy(u) PROVE ExhaustionIsEarned'
  BY <1>2 DEF Redeploy, clientVars
<1>3. CASE Expire
  BY <1>3 DEF Expire, clientVars
<1>4. CASE UNCHANGED vars
  BY <1>4 DEF vars, clientVars
<1> QED
  BY <1>1, <1>2, <1>3, <1>4 DEF Next

(* A healthy executor answers, and is accepted unless the submission is      *)
(* pinned to another one: a walk never goes past it.                         *)
LEMMA StandbyStep ==
  ASSUME RemoteInv, [Next]_vars
  PROVE  HealthyAhead' /\ StandbyServes'
<1> USE RemoteAssumption
    DEF RemoteAssumption, RemoteInv, HealthyAhead, StandbyServes, HasDeadline, PastDeadline,
        Pins, Return, Raise, Url, NoUrl
<1>1. ASSUME phase = "waiting", base \notin healthy \/ ~Accepts(serving[base]), NextUrl,
             UNCHANGED <<healthy, serving, limited, Pins>>
      PROVE  HealthyAhead' /\ StandbyServes'
  <2>1. pinned \in healthy => base = pinned /\ Accepts(serving[base])
    BY <1>1 DEF WalkInv, Walking, Accepts, TypeOK
  <2>2. pinned \notin healthy
    BY <1>1, <2>1
  <2>3. CASE pinned = NoUrl
    <3>1. base \notin healthy
      BY <1>1, <2>3 DEF PinsAgree, Accepts
    <3>2. \A u \in healthy : base + 1 <= u
      BY <1>1, <2>3, <3>1 DEF TypeOK
    <3>3. base = LastUrl => healthy = {}
      BY <2>3, <3>2 DEF LastUrl, TypeOK
    <3> QED
      BY <1>1, <2>2, <2>3, <3>2, <3>3 DEF NextUrl
  <2>4. CASE pinned # NoUrl
    BY <1>1, <2>2, <2>4 DEF NextUrl
  <2> QED
    BY <2>3, <2>4
<1>2. CASE Client /\ UNCHANGED <<healthy, serving, limited, late>>
  <2>1. CASE Start
    BY <1>2, <2>1 DEF Start, FirstUrl, TypeOK
  <2>2. CASE Dispatch
    BY <1>2, <2>2 DEF Dispatch
  <2>3. CASE NoUsableAnswer
    BY <1>1, <1>2, <2>3 DEF NoUsableAnswer
  <2>4. CASE BrokenReply
    BY <1>2, <2>4 DEF BrokenReply
  <2>5. ASSUME NEW status \in Answer, ValidAnswer(status)
        PROVE  HealthyAhead' /\ StandbyServes'
    <3>1. CASE ~Accepts(serving[base])
      BY <1>1, <1>2, <2>5, <3>1 DEF ValidAnswer
    <3>2. CASE Accepts(serving[base])
      <4>1. phase' = "returned" /\ result' # "retry"
        BY <2>5, <3>2 DEF ValidAnswer, Answer
      <4>2. pinned' \in healthy' => serving'[pinned'] = pinnedIdentity'
        BY <1>2, <2>5, <3>2 DEF ValidAnswer, Pin
      <4> QED
        BY <4>1, <4>2
    <3> QED
      BY <3>1, <3>2
  <2>6. CASE Backoff
    BY <1>2, <2>6 DEF Backoff, FirstUrl, TypeOK
  <2>7. CASE NextReplay
    BY <1>2, <2>7 DEF NextReplay
  <2> QED
    BY <1>2, <2>1, <2>2, <2>3, <2>4, <2>5, <2>6, <2>7 DEF Client
<1>3. ASSUME NEW u \in Url, Redeploy(u) PROVE HealthyAhead' /\ StandbyServes'
  BY <1>3 DEF Redeploy, clientVars, TypeOK
<1>4. CASE Expire
  BY <1>4 DEF Expire, clientVars
<1>5. CASE UNCHANGED vars
  BY <1>5 DEF vars, clientVars
<1> QED
  BY <1>2, <1>3, <1>4, <1>5 DEF Next

(* RemoteInv is inductive.                                                   *)
LEMMA RemoteStep == RemoteInv /\ [Next]_vars => RemoteInv'
<1> SUFFICES ASSUME RemoteInv, [Next]_vars PROVE RemoteInv'
  OBVIOUS
<1> QED
  BY TypeStep, WalkStep, PinStep, ExhaustionStep, StandbyStep DEF RemoteInv

-----------------------------------------------------------------------------
(* The inductive invariant of the remote client.                             *)
THEOREM RemoteInvariant == Spec => []RemoteInv
BY RemoteInit, RemoteStep, PTL DEF Spec

(* Everything measured for a submission was measured by one executor running *)
(* one version, whatever executors fail, answer or are redeployed.           *)
THEOREM SingleExecutor == Spec => []OneExecutor
<1>1. RemoteInv => OneExecutor
  BY DEF RemoteInv
<1> QED
  BY <1>1, RemoteInvariant, PTL

(* An outage never charges a case with an exhausted budget.                  *)
THEOREM OutagesAreNotCharged == Spec => []ExhaustionIsEarned
<1>1. RemoteInv => ExhaustionIsEarned
  BY DEF RemoteInv
<1> QED
  BY <1>1, RemoteInvariant, PTL

(* An executor that stays up is found, unless another one is pinned or a     *)
(* deadline passes.                                                          *)
THEOREM StandbyIsFound == Spec => []StandbyServes
<1>1. RemoteInv => StandbyServes
  BY DEF RemoteInv
<1> QED
  BY <1>1, RemoteInvariant, PTL

(* A submission keeps the executor that served it first.                     *)
THEOREM PinStays == Spec => PinIsFinal
<1>1. RemoteInv /\ [Next]_vars => [pinned # NoUrl => pinned' = pinned]_pinned
  BY PinStep
<1> QED
  BY <1>1, RemoteInvariant, PTL DEF Spec, PinIsFinal
=============================================================================
