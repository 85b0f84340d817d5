\* Policies of one and two groups, every sampler and every way to refuse one; four packed seeds.
\* CHECK_DEADLOCK is off because a resolution ends.
SPECIFICATION FairSpec
CONSTANTS
  Policies <- MCPolicies
  GroupIds = {"A", "B"}
  SeedSpace = 4
  Ceiling = 2
  PerfCounts <- MCPerfCounts
  Unset = Unset
  Malformed = Malformed
INVARIANTS
  SlotsHaveRoom
  PlanFitsPolicy
  OnlyOverlapsCollide
  PlanIsSchedule
PROPERTIES
  PlanEnds
CHECK_DEADLOCK FALSE
