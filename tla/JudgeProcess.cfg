\* Two processes, signals and failing system calls; only r1 is sure to be scheduled, r2 may stop
\* while it holds the flock.
SPECIFICATION FairSpec
CONSTANTS
  r1 = r1
  r2 = r2
  Run <- TwoRuns
  Diligent <- OnlyFirst
  Faults = {"signal", "os"}
  Kept = {r2}
  Earlier = Earlier
  NoRecord = NoRecord
  Unreadable = Unreadable
  Free = Free
INVARIANTS
  LeakIsVisible
  ExitZeroIsNeverRequeueable
  UndisturbedContract
PROPERTIES
  KeepsStoreProtocol
  ProcessEnds
CHECK_DEADLOCK FALSE
