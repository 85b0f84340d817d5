\* One process, signals: is there always a verdict that matches the exit code?
SPECIFICATION Spec
CONSTANTS
  r1 = r1
  r2 = r2
  Run <- OneRun
  Diligent = {}
  Faults = {"signal"}
  Kept = {}
  Earlier = Earlier
  NoRecord = NoRecord
  Unreadable = Unreadable
  Free = Free
INVARIANT ExitMatchesRecord
CHECK_DEADLOCK FALSE
