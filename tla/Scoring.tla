------------------------------ MODULE Scoring -------------------------------
(***************************************************************************)
(* What the canonical scorer makes of one verdict: whether it may be       *)
(* scored at all (_score_row, _measurement_contract_error) and the key it  *)
(* is ranked by (_apply_grouped_scoring, _placement_key).                  *)
(*                                                                         *)
(* A verdict holds its slots in plan order.  Hashes, identities and the    *)
(* retained repetitions are abstracted to whether they agree (`sealed`,    *)
(* `measured`, `sound`); costs are naturals; the fit and every rendering   *)
(* are left out.                                                           *)
(***************************************************************************)
EXTENDS Integers, Sequences, FiniteSets, FiniteSetsExt, Functions

CONSTANTS
  Retired,     \* problems that may not be scored any more
  Infinity     \* math.inf: the cost of an incomplete full plan

Contracts == {"legacy", "group-points-v1", "full-plan-v1", "computation-total-v1"}
FullPlanContracts == {"full-plan-v1", "computation-total-v1"}

Results == {"ok", "timeout", "value-eval-timeout", "value-eval-error", "build-timeout",
            "axiom-audit-timeout", "resource-limit", "budget-exhausted", "not-run"}

Slots(v) == DOMAIN v.cohort.plan
Groups(policy) == DOMAIN policy.groups

-----------------------------------------------------------------------------
(* Sealed policies *)

Milestone == [passed : Nat, points : Nat]
LastMilestone(table) == table[Len(table)]
PlannedIn(policy, g) == {s \in DOMAIN policy.plan : policy.plan[s].group = g}

\* From no points for no passed case upwards.
ValidTable(table) ==
  /\ table \in Seq(Milestone) /\ table # <<>>
  /\ table[1] = [passed |-> 0, points |-> 0]
  /\ \A i, j \in DOMAIN table : i < j =>
       table[i].passed < table[j].passed /\ table[i].points < table[j].points

\* What the shape of a policy has to be before a verdict under it is scored.
\* An official plan holds every case a group can be awarded for; a development
\* plan (PERF_COUNT) may hold the first ones only.
ValidPolicy(policy) ==
  /\ policy.contract \in Contracts
  /\ policy.plan \in Seq([group : Nat, cap : Nat])
  /\ policy.groups \in Seq([table : Seq(Milestone), requires : SUBSET Nat])
  /\ policy.contract = "group-points-v1" =>
       /\ \A s \in DOMAIN policy.plan : policy.plan[s].group \in Groups(policy)
       /\ \A g \in Groups(policy) :
            /\ ValidTable(policy.groups[g].table)
            /\ policy.groups[g].requires \subseteq Groups(policy)
            /\ policy.mode = "official" =>
                 LastMilestone(policy.groups[g].table).passed = Cardinality(PlannedIn(policy, g))

-----------------------------------------------------------------------------
(* Which verdicts can be scored *)

\* Mutant of MeasurementContractHolds: a policy sealed for another mode counts.
MeasurementContractHolds_AnyMode(v) ==
  /\ v.sealed /\ v.cohort.local = v.local
  /\ v.cohort.problem = v.problem /\ v.cohort.metric = v.metric
  /\ v.cohort.plan = v.planned
  /\ v.measured

\* The sealed policy is intact, is this run's, and the replays were measured
\* under the current contract.
MeasurementContractHolds(v) ==
  /\ v.sealed
  /\ v.cohort.mode = v.mode /\ v.cohort.local = v.local
  /\ v.cohort.problem = v.problem /\ v.cohort.metric = v.metric
  /\ v.cohort.plan = v.planned
  /\ v.measured

\* An incomplete grouped curve needs another evaluation, and under a full plan
\* no failure of the judge's own reference values may be held against a run.
SampleValid(v, s) ==
  LET sample == v.samples[s]
  IN  /\ sample.result \in Results
      /\ v.cohort.contract # "legacy" => sample.result \notin {"budget-exhausted", "not-run"}
      /\ v.cohort.contract \in FullPlanContracts =>
           sample.result \notin {"value-eval-timeout", "value-eval-error"} /\ ~sample.oracle
      /\ sample.result \in {"ok", "timeout", "resource-limit"} => sample.sound
      /\ sample.result = "ok" => sample.value > 0

\* Within the group's instruction limit, if the metric is instructions.
WithinLimit(v, s) ==
  \/ v.cohort.contract = "legacy" \/ v.metric # "perf_instructions"
  \/ v.cohort.plan[s].cap = 0
  \/ v.samples[s].value <= v.cohort.plan[s].cap

Passed(v) == {s \in Slots(v) : v.samples[s].result = "ok" /\ WithinLimit(v, s)}

Complete(v) == Passed(v) = Slots(v)

CurveWork(v) == SumFunctionOnSet([s \in Slots(v) |-> v.samples[s].value], Passed(v))
TotalWork(v) == v.correctness + CurveWork(v)

Scoreable(v) ==
  /\ v.problem \notin Retired /\ v.status = "accepted"
  /\ MeasurementContractHolds(v)
  /\ v.correctness > 0
  /\ DOMAIN v.samples = Slots(v)
  /\ \A s \in Slots(v) : SampleValid(v, s)
  /\ v.cohort.contract = "legacy" => Passed(v) # {}

-----------------------------------------------------------------------------
(* Points of a milestone policy *)

GroupSlots(v, g) == PlannedIn(v.cohort, g)
PassedIn(v, g) == Cardinality(Passed(v) \intersect GroupSlots(v, g))
MaximumPassed(v, g) == LastMilestone(v.cohort.groups[g].table).passed

MilestonePoints(table, passed) ==
  table[Max({k \in DOMAIN table : table[k].passed <= passed})].points

\* A group counts once all groups it requires are passed in full.
EligibleGroup(v, g) ==
  \A r \in v.cohort.groups[g].requires : PassedIn(v, r) >= MaximumPassed(v, r)

GroupPoints(v, g) ==
  IF EligibleGroup(v, g) THEN MilestonePoints(v.cohort.groups[g].table, PassedIn(v, g)) ELSE 0

Points(v) ==
  IF v.cohort.contract = "full-plan-v1" THEN IF Complete(v) THEN 100 ELSE 0
  ELSE SumFunction([g \in Groups(v.cohort) |-> GroupPoints(v, g)])

Descending(n) == [i \in 1 .. n |-> n + 1 - i]

\* Profiles put the hardest group, and in it the last case, first.  Better is
\* smaller, as everywhere in a key.
PointsProfile(v) ==
  [i \in 1 .. Len(v.cohort.groups) |-> -GroupPoints(v, Descending(Len(v.cohort.groups))[i])]

\* Exchangeable cases are counted; cases of known difficulty are told apart.
CaseProfile(v) ==
  IF v.cohort.profile = "hardest_group_then_count"
  THEN [i \in 1 .. Len(v.cohort.groups) |->
          LET g == Descending(Len(v.cohort.groups))[i]
          IN  IF EligibleGroup(v, g) THEN -PassedIn(v, g) ELSE 0]
  ELSE [i \in 1 .. Len(v.cohort.plan) |->
          LET s == Descending(Len(v.cohort.plan))[i]
          IN  IF s \in Passed(v) /\ EligibleGroup(v, v.cohort.plan[s].group) THEN -1 ELSE 0]

\* Mutant of WorkTiebreakActive: work breaks ties once a case has passed.
WorkTiebreakActive_Any(v) ==
  \/ v.cohort.profile = "hardest_group_then_slot"
  \/ Passed(v) # {}

WorkTiebreakActive(v) ==
  \/ v.cohort.profile = "hardest_group_then_slot"
  \/ Complete(v)

\* Mutant of RankingWork: an incomplete plan costs what its passed cases cost.
RankingWork_OfPassed(v) == IF v.cohort.work = "total" THEN TotalWork(v) ELSE CurveWork(v)

RankingWork(v) ==
  IF v.cohort.contract = "full-plan-v1" /\ ~Complete(v) THEN Infinity
  ELSE IF v.cohort.work = "total" THEN TotalWork(v) ELSE CurveWork(v)

-----------------------------------------------------------------------------
(* Placement *)

Unplaced == <<>>

LegacyKey(v) ==
  <<-Cardinality(Passed(v))>>
    \o [i \in 1 .. Len(v.cohort.plan) |->
          IF Descending(Len(v.cohort.plan))[i] \in Passed(v) THEN -1 ELSE 0]
    \o <<TotalWork(v)>>

MilestoneKey(v) ==
  <<-Points(v)>> \o PointsProfile(v) \o CaseProfile(v)
    \o (IF WorkTiebreakActive(v) THEN <<RankingWork(v)>> ELSE <<>>)
    \o (IF WorkTiebreakActive(v) /\ v.cohort.proof = "last_tiebreak"
        THEN <<v.correctness>> ELSE <<>>)

\* The values a verdict is ranked by; smaller is better, names do not count.
PlacementKey(v) ==
  IF ~Scoreable(v) THEN Unplaced
  ELSE CASE v.cohort.contract = "computation-total-v1" ->
              IF Complete(v) THEN <<RankingWork(v)>> ELSE Unplaced
         [] v.cohort.contract = "full-plan-v1" -> <<-Points(v), RankingWork(v)>>
         [] v.cohort.contract = "group-points-v1" -> MilestoneKey(v)
         [] OTHER -> LegacyKey(v)

Placed(v) == PlacementKey(v) # Unplaced

\* Tuple order: the first difference decides, a proper prefix comes first.
KeyLess(a, b) ==
  \/ \E i \in DOMAIN a \intersect DOMAIN b :
       a[i] < b[i] /\ \A j \in 1 .. i - 1 : a[j] = b[j]
  \/ Len(a) < Len(b) /\ \A j \in DOMAIN a : a[j] = b[j]

=============================================================================
