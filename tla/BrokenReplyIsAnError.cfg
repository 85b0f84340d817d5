\* Two executors: can trouble with an executor end in an error verdict?
SPECIFICATION Spec
CONSTANTS
  v1 = v1
  v2 = v2
  Urls = 2
  Identity <- TwoVersions
  Replays = 2
  NoIdentity = NoIdentity
INVARIANT OutageOnlyDelays
CHECK_DEADLOCK FALSE
