\* Two or three verdicts of one problem under each contract, and one that does not belong.
\* CHECK_DEADLOCK is off because both tools end.
SPECIFICATION Spec
CONSTANTS
  Retired = {"retired"}
  Infinity = 1000000
  FileSets <- MCFileSets
  Stage1 = {"fib"}
INVARIANTS
  RanksAreCompetitionRanks
  ExtraPassNeverHurts
  KeysAreComparable
  BoardsAgree
CHECK_DEADLOCK FALSE
