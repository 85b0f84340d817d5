\* Three performance cases in every mode; every file may change at any stage.
\* CHECK_DEADLOCK is off because judge() ends.
SPECIFICATION FairSpec
CONSTANT Cases = 3
INVARIANTS
  RejectionIsEarned
  AcceptedIsVerified
  RowsMeasureWhatWasPinned
  FailuresNeverSuppressLaterCases
PROPERTIES
  JudgeEnds
CHECK_DEADLOCK FALSE
