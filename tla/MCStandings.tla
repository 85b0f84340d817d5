---------------------------- MODULE MCStandings -----------------------------
EXTENDS Standings, TLC

Slot(g, cap) == [group |-> g, cap |-> cap]
Row(p, q) == [passed |-> p, points |-> q]

\* Three cases: two of an easy group, one of a harder one with a limit.
Plan == <<Slot(1, 0), Slot(1, 0), Slot(2, 2)>>
Group1 == [table |-> <<Row(0, 0), Row(2, 5)>>, requires |-> {}]
Group2 == [table |-> <<Row(0, 0), Row(1, 3)>>, requires |-> {}]

Base == [id |-> "c1", hash |-> "h1", round |-> "r1", mode |-> "official", local |-> TRUE,
         problem |-> "fib", metric |-> "perf_instructions", contract |-> "computation-total-v1",
         work |-> "curve", proof |-> "gate", profile |-> "none", plan |-> Plan,
         groups |-> <<Group1, Group2>>]

FullPlan == [Base EXCEPT !.contract = "full-plan-v1", !.work = "total", !.proof = "include"]
BySlot == [Base EXCEPT !.contract = "group-points-v1", !.profile = "hardest_group_then_slot",
                       !.proof = "last_tiebreak"]
ByCount == [Base EXCEPT !.contract = "group-points-v1", !.profile = "hardest_group_then_count"]
Requires(policy) == [policy EXCEPT !.groups = <<Group1, [Group2 EXCEPT !.requires = {1}]>>]
Development == [Base EXCEPT !.mode = "development", !.id = "c3", !.hash = "h3"]
Legacy(policy) == [policy EXCEPT !.contract = "legacy", !.id = "c0", !.hash = "h0"]

\* PERF_COUNT=1: one case of each group, too few for the easy group's milestone.
Short == [Requires(ByCount) EXCEPT !.mode = "development", !.id = "c4", !.hash = "h4",
                                   !.plan = <<Slot(1, 0), Slot(2, 2)>>]
Next2(policy) == [policy EXCEPT !.id = "c2", !.hash = "h2"]

Ok(n) == [result |-> "ok", value |-> n, sound |-> TRUE, oracle |-> FALSE]
Fail(result) == [Ok(1) EXCEPT !.result = result]

Curves == {<<a, b, c>> : a, b \in {Ok(1), Ok(2), Fail("timeout")},
                         c \in {Ok(1), Ok(3)}}

Verdict(policy, curve, work) ==
  [problem |-> "fib", dir |-> "fib", status |-> "accepted", metric |-> policy.metric,
   mode |-> policy.mode, local |-> policy.local, cohort |-> policy, planned |-> policy.plan,
   sealed |-> TRUE, measured |-> TRUE, correctness |-> work, samples |-> curve]

\* Records that some rule keeps off the board, or that belong elsewhere.
Good == <<Ok(1), Ok(2), Ok(1)>>
Odd(policy) ==
  LET v == Verdict(policy, Good, 1)
  IN  {[v EXCEPT !.status = "rejected"], [v EXCEPT !.sealed = FALSE], [v EXCEPT !.correctness = 0],
       [v EXCEPT !.planned = <<Slot(1, 0)>>], [v EXCEPT !.mode = "development"],
       [v EXCEPT !.local = FALSE], [v EXCEPT !.measured = FALSE],
       [v EXCEPT !.samples = <<Ok(1), Ok(1)>>],
       [v EXCEPT !.samples = <<Ok(1), Fail("value-eval-timeout"), Ok(1)>>],
       [v EXCEPT !.samples = <<Fail("budget-exhausted"), Fail("not-run"), Ok(1)>>],
       [v EXCEPT !.samples = <<Ok(1), [Fail("resource-limit") EXCEPT !.sound = FALSE], Ok(1)>>],
       [v EXCEPT !.cohort = Legacy(policy)],
       Verdict(Next2(policy), Good, 1),
       Verdict([Next2(policy) EXCEPT !.round = "r2"], <<Ok(1), Ok(1), Fail("timeout")>>, 2)}

Few == {Good, <<Ok(2), Fail("timeout"), Ok(1)>>, <<Fail("timeout"), Fail("timeout"), Fail("timeout")>>}

\* Two arbitrary verdicts of one cohort; three with ties; one beside an odd one.
FilesOf(policy) ==
  {"a" :> Verdict(policy, x, m) @@ "b" :> Verdict(policy, y, 1) :
     x, y \in Curves, m \in {1, 2}}
  \union {"a" :> Verdict(policy, x, 1) @@ "b" :> Verdict(policy, y, 1) @@ "c" :> Verdict(policy, z, 1) :
     x, y \in Few, z \in Few}
  \union {"a" :> v @@ "b" :> Verdict(policy, y, 1) : v \in Odd(policy), y \in Few}

MCFileSets ==
  UNION {FilesOf(p) : p \in {Base, FullPlan, BySlot, ByCount, Requires(ByCount)}}
  \union {"a" :> Verdict(Development, x, 1) @@ "b" :> Verdict(Development, y, 1) : x, y \in Few}
  \union {"a" :> Verdict(Short, <<Ok(1), x>>, 1) @@ "b" :> Verdict(Short, <<Ok(1), y>>, 1) :
            x, y \in {Ok(1), Ok(2), Fail("timeout")}}

=============================================================================
