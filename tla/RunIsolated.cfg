\* A wrapped run and a bare one of the same submission; either may be signalled or
\* killed at any point. A second wrapper would only read.
SPECIFICATION MCSpec
CONSTANTS
  r1 = r1
  r2 = r2
  Run <- TwoRuns
  Diligent = {}
  Wrapped <- OnlyFirst
  Faults = {"signal", "kill"}
  Kept = {}
  Earlier = Earlier
  NoRecord = NoRecord
  Unreadable = Unreadable
  Free = Free
INVARIANTS
  SuccessIsOwnJudgement
  JudgementIsReported
CHECK_DEADLOCK FALSE
