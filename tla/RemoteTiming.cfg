\* Three executors, two identities, a correctness replay and two cases.
\* CHECK_DEADLOCK is off because the last replay ends the submission.
SPECIFICATION Spec
CONSTANTS
  v1 = v1
  v2 = v2
  Urls = 3
  Identity <- TwoVersions
  Replays = 3
  NoIdentity = NoIdentity
INVARIANTS
  OneExecutor
  ExhaustionIsEarned
  StandbyServes
PROPERTIES
  ReplayEnds
CHECK_DEADLOCK FALSE
