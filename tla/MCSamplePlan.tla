---------------------------- MODULE MCSamplePlan ----------------------------
EXTENDS SamplePlan, FiniteSets

Base == [id |-> "A", order |-> 1, kind |-> "geometric_range", lo |-> 0, hi |-> 3, count |-> 3,
         jitter |-> "positive", scale |-> 0, values |-> <<>>, timeout |-> 1, award |-> 0,
         requires |-> {}, canonical |-> TRUE]
Later == [Base EXCEPT !.id = "B", !.order = 2]

Uniform == [Base EXCEPT !.kind = "uniform_int", !.jitter = "absent", !.hi = 2, !.count = 2]
Fixed == [Base EXCEPT !.kind = "fixed", !.values = <<5, 4>>, !.count = 0]

\* First groups: every sampler, and each way the judge or the scorer refuses one.
FirstGroups ==
  {Base, [Base EXCEPT !.lo = 1, !.hi = 1, !.count = 1], [Base EXCEPT !.kind = "range"],
   Uniform, [Uniform EXCEPT !.count = 3], Fixed, [Fixed EXCEPT !.count = 2],
   [Base EXCEPT !.kind = "packed", !.scale = 0, !.count = 2],
   [Base EXCEPT !.canonical = FALSE], [Base EXCEPT !.jitter = "zero"],
   [Base EXCEPT !.timeout = 0], [Base EXCEPT !.timeout = 3]}

\* Sampled spaces that meet the first group's, and that do not.
SecondGroups ==
  {[Later EXCEPT !.kind = "linear_range", !.lo = 4, !.hi = 6, !.count = 2],
   [Later EXCEPT !.kind = "linear_range", !.lo = 2, !.hi = 4, !.count = 2],
   [Later EXCEPT !.kind = "uniform_int", !.lo = 2, !.hi = 4, !.count = 2],
   [Later EXCEPT !.kind = "packed", !.scale = 2, !.count = 2],
   [Later EXCEPT !.kind = "fixed", !.values = <<4>>, !.count = 1],
   [Later EXCEPT !.order = 1], [Later EXCEPT !.id = "A"]}

\* More values than the range or the seeds have, and a malformed sampler.
BadGroups ==
  {[Base EXCEPT !.count = 5], [Uniform EXCEPT !.count = 4], [Base EXCEPT !.lo = -1],
   [Base EXCEPT !.kind = "packed", !.count = 5], [Fixed EXCEPT !.values = <<4, 4>>],
   [Base EXCEPT !.kind = "other"], [Base EXCEPT !.jitter = "absent"],
   [Base EXCEPT !.id = ""]}

Full(groups) ==
  [grouped |-> TRUE, groups |-> groups, memory |-> "valid", contract |-> "computation-total-v1",
   work |-> "curve", proof |-> "gate", profile |-> "none"]

\* An old cohort's policy: awards, a prerequisite, a profile, no memory limit.
Awarded(g, n) == [g EXCEPT !.award = n]
Points(groups, profile) ==
  [Full(groups) EXCEPT !.contract = "group-points-v1", !.profile = profile, !.memory = "absent"]

Legacy(g) == [Full(<<[g EXCEPT !.kind = "perf", !.id = "perf"]>>) EXCEPT !.grouped = FALSE]

MCPerfCounts == {Unset, Malformed, 0, 2}

MCPolicies ==
  {Full(<<>>)}
  \union {Full(<<a>>) : a \in FirstGroups \union BadGroups}
  \union {Full(<<a, b>>) : a \in FirstGroups, b \in SecondGroups}
  \union {Points(<<Awarded(Base, 3),
                   Awarded([Later EXCEPT !.lo = 4, !.hi = 5, !.count = 2, !.requires = {"A"}], 2)>>, p) :
            p \in {"hardest_group_then_slot", "hardest_group_then_count"}}
  \union {Points(<<Awarded(Base, 2)>>, "hardest_group_then_slot")}
  \union {Legacy(Base), Legacy([Base EXCEPT !.jitter = "absent", !.hi = 5]),
          Legacy([Base EXCEPT !.kind = "perf", !.count = 9])}
=============================================================================
