CONSTANTS
  a = a
  b = b
  c = c
  N = 3
  Names = {a, b, c}
  Namings <- AllNamings
  WaitMayFail = TRUE
SPECIFICATION FairSpec
INVARIANTS SkipsSpread PlannedIffWellFormed
PROPERTIES GraphFollowed RunShortens RunEnds
CHECK_DEADLOCK FALSE
