\* Two commands on one descriptor number, a tail of two bytes, an OOM kill anywhere.
\* CHECK_DEADLOCK is off because the last command ends the run.
SPECIFICATION FairSpec
CONSTANTS
  Commands = 2
  Fds = {1}
  Limit = 2
  ChunkSize = 2
  MaxBytes <- MCMaxBytes
  MaxKills <- MCMaxKills
  Families <- MCFamilies
  Isolations <- MCIsolations
  CounterReadable = TRUE
INVARIANTS
  EvidenceIsCurrent
  OutputIsOwn
  OutputIsTail
PROPERTIES
  RunReturns
CHECK_DEADLOCK FALSE
