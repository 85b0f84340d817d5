\* Only r1 is sure to be scheduled; r2 may stop anywhere, the flock included.
\* Two concurrent runs of one submission, any statuses, raises and kills anywhere.
SPECIFICATION FairStoreSpec
CONSTANTS
  r1 = r1
  r2 = r2
  Run <- TwoRuns
  Diligent <- OnlyFirst
  Earlier = Earlier
  NoRecord = NoRecord
  Unreadable = Unreadable
  Free = Free
INVARIANTS
  PromotionStillRight
  ReturnLeavesVerdict
PROPERTIES
  JudgedNeverDemoted
  BoardSpec
  StoreEnds
CHECK_DEADLOCK FALSE
