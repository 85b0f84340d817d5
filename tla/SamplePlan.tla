----------------------------- MODULE SamplePlan -----------------------------
(***************************************************************************)
(* How the judge turns a problem's evaluation policy into the flat list of *)
(* performance cases (performance_plan, perf_inputs), and how the          *)
(* canonical scorer checks the policy and the list before any submission   *)
(* is judged (_validated_performance_plan).                                *)
(*                                                                         *)
(* A sampled value is a choice: the HMAC, the jitter and the rounding can  *)
(* yield any target, and the code projects or redraws it.  A redraw leaves *)
(* the state as it is, so it is no step.  Names, labels and the published  *)
(* axis are left out.                                                      *)
(***************************************************************************)
EXTENDS Integers, Sequences

CONSTANTS
  Policies,    \* the evaluation policies a problem may carry
  GroupIds,    \* the group names _GROUP_ID accepts
  SeedSpace,   \* the number of packed seeds (2^32 in the code)
  Ceiling,     \* judge.timing_timeout_seconds of the checked-in config
  PerfCounts,  \* the values PERF_COUNT may have
  Unset,       \* PERF_COUNT absent or empty
  Malformed    \* PERF_COUNT not a number

ASSUME SizesAssumption == SeedSpace \in Nat \ {0} /\ Ceiling \in Nat \ {0}
ASSUME PerfCountAssumption ==
  /\ PerfCounts \subseteq Int \union {Unset, Malformed}
  /\ Unset # Malformed

VARIABLES
  policy,      \* the problem's configuration
  env,         \* how the judge process was started
  phase,       \* the statement performance_plan is at
  drawn,       \* the values of the group being sampled
  schedule,    \* history: the full samples of the groups done
  plan,        \* the rows of the plan
  reason       \* why the policy was refused

vars == <<policy, env, phase, drawn, schedule, plan, reason>>

RangeKinds == {"geometric_range", "linear_range", "range", "perf"}
Kinds == RangeKinds \union {"uniform_int", "packed", "fixed"}
Interchangeable == {"packed", "uniform_int"}

\* One group of a policy; 0 stands for an absent count, limit or award, and
\* `canonical` says that its numbers are integers and its field set is the
\* scorer's: the judge also reads integers in strings and ignores other fields.
Group == [id : STRING, order : Int, kind : STRING, lo : Int, hi : Int,
          count : Int, jitter : {"absent", "zero", "positive", "invalid"},
          scale : Int, values : Seq(Int), timeout : Int, award : Nat,
          requires : SUBSET STRING, canonical : BOOLEAN]

Policy == [grouped : BOOLEAN, groups : Seq(Group), memory : {"absent", "valid", "invalid"},
           contract : STRING, work : STRING, proof : STRING, profile : STRING]

Environment == [official : BOOLEAN, instructions : BOOLEAN, seeded : BOOLEAN,
                perfCount : PerfCounts]

ASSUME PoliciesAssumption == Policies \subseteq Policy

Row == [slot : Nat, group : STRING, case : Nat, n : Int, timeout : Int, scale : Int]

Image(s) == {s[i] : i \in DOMAIN s}
Distinct(s) == \A i, j \in DOMAIN s : s[i] = s[j] => i = j
Increasing(s) == \A i, j \in DOMAIN s : i < j => s[i] < s[j]

-----------------------------------------------------------------------------
\* _official_eval: the rules of an official run also bind instruction counting.
Strict == env.official \/ env.instructions

GroupIndex == Len(schedule) + 1
Here == policy.groups[GroupIndex]

NumberGiven == env.perfCount \notin {Unset, Malformed}

\* PERF_COUNT replaces a legacy count and caps the cases of a group.
Wanted(grp) ==
  IF grp.kind = "fixed" THEN Len(grp.values)
  ELSE IF NumberGiven /\ ~policy.grouped THEN env.perfCount ELSE grp.count

HasCap == policy.grouped /\ ~env.official /\ NumberGiven /\ env.perfCount > 0

\* Mutant of Capped: a quick plan takes the last cases.
Capped_Last(values) ==
  IF HasCap /\ env.perfCount < Len(values)
  THEN SubSeq(values, Len(values) - env.perfCount + 1, Len(values)) ELSE values

Capped(values) ==
  IF HasCap /\ env.perfCount < Len(values) THEN SubSeq(values, 1, env.perfCount) ELSE values

\* Mutant of Intervals: the count may exceed the range.
Intervals_NoCapacity(grp, count) == 0 <= grp.lo /\ grp.lo <= grp.hi /\ 1 <= count

Intervals(grp, count) ==
  /\ 0 <= grp.lo /\ grp.lo <= grp.hi
  /\ 1 <= count /\ count <= grp.hi - grp.lo + 1

JitterValid(grp, strict) ==
  /\ grp.jitter # "invalid"
  /\ grp.jitter = "absent" => grp.kind = "perf"
  /\ grp.jitter = "zero" => ~strict

\* What both the judge and the scorer demand of a sampler.
SamplerValid(grp, count, strict) ==
  /\ grp.kind \in Kinds
  /\ grp.kind \in RangeKinds => Intervals(grp, count) /\ JitterValid(grp, strict)
  /\ grp.kind = "uniform_int" => Intervals(grp, count)
  /\ grp.kind = "packed" => grp.scale >= 0 /\ 1 <= count /\ count <= SeedSpace
  /\ grp.kind = "fixed" => /\ grp.values # <<>> /\ Distinct(grp.values)
                           /\ \A n \in Image(grp.values) : n >= 0
                           /\ grp.count \in {0, Len(grp.values)}

\* The inputs a group may sample from.
Space(grp) ==
  IF grp.kind = "fixed" THEN Image(grp.values)
  ELSE IF grp.kind = "packed"
       THEN (grp.scale * SeedSpace) .. (grp.scale * SeedSpace + SeedSpace - 1)
       ELSE grp.lo .. grp.hi

-----------------------------------------------------------------------------
Init ==
  /\ policy \in Policies
  /\ env \in Environment
  /\ phase = "start"
  /\ drawn = <<>> /\ schedule = <<>> /\ plan = <<>>
  /\ reason = "none"

Refuse(why) ==
  /\ phase' = "refused" /\ reason' = why
  /\ UNCHANGED <<policy, env, drawn, schedule, plan>>

Goto(place) == phase' = place /\ UNCHANGED <<policy, env, reason>>

\* Official runs take grouped policies only and no PERF_COUNT at all.
StartRefused ==
  \/ ~policy.grouped /\ env.official
  \/ policy.groups = <<>>
  \/ Strict /\ ~env.seeded
  \/ policy.grouped /\ env.official /\ env.perfCount # Unset

Start ==
  /\ phase = "start"
  /\ \/ StartRefused /\ Refuse("start")
     \/ ~StartRefused /\ Goto("group") /\ UNCHANGED <<drawn, schedule, plan>>

\* The judge reads the groups in the order of the file.
GroupRefused ==
  \/ /\ policy.grouped
     /\ \/ Here.id \notin GroupIds
        \/ Here.order < 0
        \/ \E h \in 1 .. Len(schedule) : policy.groups[h].id = Here.id
        \/ GroupIndex > 1 /\ Here.order <= policy.groups[GroupIndex - 1].order
        \/ Here.kind = "perf"
  \/ ~policy.grouped /\ Here.kind # "perf"
  \/ ~SamplerValid(Here, Wanted(Here), Strict)

EnterGroup ==
  /\ phase = "group"
  /\ \/ GroupRefused /\ Refuse("group")
     \/ /\ ~GroupRefused /\ Goto("draw")
        /\ drawn' = <<>> /\ UNCHANGED <<schedule, plan>>

\* A range slot: any target, moved between what the slots before it have
\* used up and what the slots after it still need.
Lower(case) ==
  IF case = 0 \/ Here.lo + case > drawn[case] + 1 THEN Here.lo + case ELSE drawn[case] + 1
\* Mutant of Upper: no room is kept for later slots.
Upper_Greedy(case) == Here.hi

Upper(case) == Here.hi - (Wanted(Here) - 1 - case)

Project(target, lower, upper) ==
  LET raised == IF target < lower THEN lower ELSE target
  IN  IF upper < raised THEN upper ELSE raised

\* jitter stays in [lo, hi]; the exponentials may round one beyond
Targets == (Here.lo - 1) .. (Here.hi + 1)

DrawRange ==
  /\ Here.kind \in RangeKinds
  /\ \E target \in Targets :
       drawn' = Append(drawn, Project(target, Lower(Len(drawn)), Upper(Len(drawn))))

\* Mutant of DrawUniform: a repeated draw is kept.
DrawUniform_Repeats ==
  /\ Here.kind = "uniform_int"
  /\ \E n \in Here.lo .. Here.hi : drawn' = Append(drawn, n)

\* Draws that repeat a value are thrown away.
DrawUniform ==
  /\ Here.kind = "uniform_int"
  /\ \E n \in (Here.lo .. Here.hi) \ Image(drawn) : drawn' = Append(drawn, n)

DrawPacked ==
  /\ Here.kind = "packed"
  /\ \E seed \in 0 .. SeedSpace - 1 :
       /\ Here.scale * SeedSpace + seed \notin Image(drawn)
       /\ drawn' = Append(drawn, Here.scale * SeedSpace + seed)

TakeFixed ==
  /\ Here.kind = "fixed"
  /\ drawn' = Here.values

Draw ==
  /\ phase = "draw" /\ Len(drawn) < Wanted(Here)
  /\ DrawRange \/ DrawUniform \/ DrawPacked \/ TakeFixed
  /\ UNCHANGED <<policy, env, phase, schedule, plan, reason>>

\* A watchdog above the evaluator's ceiling would be clipped silently.
LimitRefused == Here.timeout < 0 \/ Here.timeout > Ceiling

Planned == {plan[i].n : i \in DOMAIN plan}

\* Mutant of Rows: slots are numbered within the group.
Rows_SlotsPerGroup(values) ==
  [i \in 1 .. Len(values) |->
     [slot |-> i - 1, group |-> Here.id, case |-> i - 1, n |-> values[i],
      timeout |-> Here.timeout, scale |-> Here.scale]]

Rows(values) ==
  [i \in 1 .. Len(values) |->
     [slot |-> Len(plan) + i - 1, group |-> Here.id, case |-> i - 1, n |-> values[i],
      timeout |-> Here.timeout, scale |-> Here.scale]]

\* An input that another row, of this or of another group, already has.
Repeats(values) == ~Distinct(values) \/ Image(values) \intersect Planned # {}

CloseRefused ==
  \/ Here.kind \in RangeKinds /\ ~Increasing(drawn)
  \/ LimitRefused
  \/ Repeats(Capped(drawn))

WhyClosed ==
  IF Here.kind \in RangeKinds /\ ~Increasing(drawn) THEN "slots"
  ELSE IF LimitRefused THEN "limits" ELSE "duplicate"

CloseGroup ==
  /\ phase = "draw" /\ Len(drawn) = Wanted(Here)
  /\ \/ CloseRefused /\ Refuse(WhyClosed)
     \/ /\ ~CloseRefused
        /\ plan' = plan \o Rows(Capped(drawn))
        /\ schedule' = Append(schedule, drawn)
        /\ drawn' = <<>>
        /\ Goto(IF GroupIndex < Len(policy.groups) THEN "group"
                ELSE IF policy.grouped THEN "check" ELSE "accepted")

-----------------------------------------------------------------------------
(* The scorer's view: what the published policy alone must satisfy.        *)

FullPlan == policy.contract \in {"full-plan-v1", "computation-total-v1"}

RankingValid ==
  /\ policy.contract \in {"group-points-v1", "full-plan-v1", "computation-total-v1"}
  /\ <<policy.work, policy.proof>> \in
       {<<"total", "include">>, <<"curve", "gate">>, <<"curve", "last_tiebreak">>}
  /\ policy.contract = "computation-total-v1" => policy.work = "curve" /\ policy.proof = "gate"
  /\ FullPlan => policy.proof # "last_tiebreak"
  /\ ~FullPlan => policy.profile \in {"hardest_group_then_slot", "hardest_group_then_count"}

\* A missing limit is an old cohort's fixed one.
MemoryValid ==
  \/ policy.memory = "valid"
  \/ policy.memory = "absent" /\ (~env.official \/ policy.contract = "group-points-v1")

ProfileFits ==
  LET kinds == {policy.groups[h].kind : h \in DOMAIN policy.groups}
  IN  /\ policy.profile = "hardest_group_then_count" => kinds \subseteq Interchangeable
      /\ policy.profile = "hardest_group_then_slot" => kinds \intersect Interchangeable = {}

GroupShape(grp) ==
  /\ grp.canonical /\ grp.id # "" /\ grp.order >= 0 /\ grp.timeout > 0
  /\ grp.kind # "perf" /\ SamplerValid(grp, Wanted(grp), env.official)
  /\ FullPlan => grp.award = 0 /\ grp.requires = {}
  /\ ~FullPlan => grp.award = Wanted(grp)
  /\ \A id \in grp.requires :
       \E h \in DOMAIN policy.groups :
         policy.groups[h].id = id /\ policy.groups[h].order < grp.order

\* A reference to the last milestone belongs to the policy, so it is here.
PolicyShape ==
  /\ RankingValid /\ MemoryValid
  /\ policy.groups # <<>>
  /\ \A h \in DOMAIN policy.groups : GroupShape(policy.groups[h])
  /\ \A h, k \in DOMAIN policy.groups :
       h < k => /\ policy.groups[h].id # policy.groups[k].id
                /\ policy.groups[h].order < policy.groups[k].order
  /\ policy.contract = "group-points-v1" => ProfileFits

(* The scorer's view: what the resolved plan must satisfy under a policy.  *)

OfGroup(row) == {h \in DOMAIN policy.groups : policy.groups[h].id = row.group}

RowShape(row, grp) ==
  /\ row.case >= 0 /\ row.n >= 0
  /\ row.timeout = grp.timeout
  /\ grp.kind = "packed" => /\ row.scale = grp.scale
                            /\ row.n \div SeedSpace = row.scale
  /\ grp.kind = "fixed" => row.case < Len(grp.values) /\ row.n = grp.values[row.case + 1]
  /\ grp.kind \in RangeKinds \union {"uniform_int"} => grp.lo <= row.n /\ row.n <= grp.hi
  /\ row.case < Wanted(grp)

\* Rows sorted by group and case; with CasesCountUp, each group's cases are
\* 0, 1, 2 ... (`plan_cases[group_id] != list(range(count))`).
RowsInOrder ==
  \A i, j \in DOMAIN plan : i < j =>
    \A h \in OfGroup(plan[i]), k \in OfGroup(plan[j]) :
      h < k \/ (h = k /\ plan[i].case < plan[j].case)

CasesCountUp ==
  \A i \in DOMAIN plan :
    plan[i].case # 0 => /\ i > 1 /\ plan[i - 1].group = plan[i].group
                        /\ plan[i - 1].case + 1 = plan[i].case

GroupCovered(h) ==
  \E i \in DOMAIN plan :
    /\ plan[i].group = policy.groups[h].id
    /\ env.official => plan[i].case = Wanted(policy.groups[h]) - 1

RangeCasesIncrease ==
  \A i, j \in DOMAIN plan : \A h \in OfGroup(plan[i]) :
    i < j /\ plan[j].group = plan[i].group /\ policy.groups[h].kind \in RangeKinds
      => plan[i].n < plan[j].n

PlanShape ==
  /\ plan # <<>>
  /\ \A i \in DOMAIN plan :
       /\ plan[i].slot = i - 1
       /\ OfGroup(plan[i]) # {}
       /\ \A h \in OfGroup(plan[i]) : RowShape(plan[i], policy.groups[h])
  /\ RowsInOrder /\ CasesCountUp
  /\ \A h \in DOMAIN policy.groups : GroupCovered(h)
  /\ RangeCasesIncrease

Validate ==
  /\ phase = "check"
  /\ \/ ~PolicyShape /\ Refuse("policy")
     \/ PolicyShape /\ ~PlanShape /\ Refuse("plan")
     \/ /\ PolicyShape /\ PlanShape
        /\ Goto("accepted") /\ UNCHANGED <<drawn, schedule, plan>>

Next == Start \/ EnterGroup \/ Draw \/ CloseGroup \/ Validate

Spec == Init /\ [][Next]_vars

\* Every step is a bounded computation, except that a redraw ends only with
\* probability one; that it has a value to find is what PlanEnds needs.
FairSpec == Spec /\ WF_vars(Next)

-----------------------------------------------------------------------------
\* The state of one resolution: a phase, values, rows and at most one refusal.
TypeOK ==
  /\ policy \in Policies /\ env \in Environment
  /\ phase \in {"start", "group", "draw", "check", "accepted", "refused"}
  /\ drawn \in Seq(Int) /\ schedule \in Seq(Seq(Int)) /\ plan \in Seq(Row)
  /\ reason \in {"none", "start", "group", "slots", "limits", "duplicate", "policy", "plan"}
  /\ (reason = "none") = (phase # "refused")

\* Whatever the jitter, a value of a range leaves room for all later ones, so
\* exactly `count` strictly increasing inputs come out and the re-check at the
\* end of the sampler ("could not construct distinct ordered range samples")
\* never fires.
SlotsHaveRoom ==
  /\ phase = "draw" /\ Here.kind \in RangeKinds =>
       /\ Increasing(drawn)
       /\ \A k \in DOMAIN drawn :
            /\ Here.lo + k - 1 <= drawn[k]
            /\ drawn[k] <= Here.hi - (Wanted(Here) - k)
  /\ reason # "slots"

\* The judge and the scorer state one contract: a policy whose published shape
\* the scorer accepts is never refused because of the plan the judge derived.
PlanFitsPolicy == reason # "plan" /\ (phase = "check" /\ PolicyShape => PlanShape)

\* Whether a policy is refused for a repeated input does not hang on the secret
\* seed alone: two of its groups sample from spaces that overlap.
OnlyOverlapsCollide ==
  reason = "duplicate" =>
    \E h, k \in DOMAIN policy.groups :
      h < k /\ Space(policy.groups[h]) \intersect Space(policy.groups[k]) # {}

\* A quick plan is a prefix of the full one, group by group; without a cap it
\* is the full one; and no input occurs twice.
PlanIsSchedule ==
  /\ \A i, j \in DOMAIN plan : plan[i].n = plan[j].n => i = j
  /\ \A i \in DOMAIN plan :
       \E h \in DOMAIN schedule :
         /\ policy.groups[h].id = plan[i].group
         /\ plan[i].case + 1 \in DOMAIN Capped(schedule[h])
         /\ plan[i].n = schedule[h][plan[i].case + 1]
  /\ \A h \in DOMAIN schedule : \A c \in DOMAIN Capped(schedule[h]) :
       \E i \in DOMAIN plan :
         plan[i].group = policy.groups[h].id /\ plan[i].case = c - 1

\* Sampling never waits for a value that does not exist: each resolution ends.
PlanEnds == <>(phase \in {"accepted", "refused"})

=============================================================================
