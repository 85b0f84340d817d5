\* Two preparations, one job, two revisions, two import lists, one edit.
\* CHECK_DEADLOCK is off because preparations and jobs end.
SPECIFICATION Spec
CONSTANTS
  r1 = r1
  r2 = r2
  i1 = i1
  i2 = i2
  p1 = p1
  p2 = p2
  j1 = j1
  Revisions = {r1, r2}
  Imports = {i1, i2}
  Artifacts = {"A", "Ax", "B"}
  Contents = {"one", "two"}
  Olean <- MCOlean
  Closure <- MCClosure
  Preparers = {p1, p2}
  Jobs = {j1}
  NoLock = NoLock
  BadLock = BadLock
  Nothing = Nothing
  MaxEdits = 1
SYMMETRY Symmetry
INVARIANTS
  StagedIsOneClosure
  LockHoldsItsClosure
  RepairedIsUsable
PROPERTIES
  UsableBundleSurvives
CHECK_DEADLOCK FALSE
