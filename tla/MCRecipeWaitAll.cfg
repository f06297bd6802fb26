CONSTANTS
  a = a
  b = b
  c = c
  N = 3
  Names = {a, b, c}
  Namings <- OneNameEach
  WaitMayFail = FALSE
SPECIFICATION Spec
INVARIANT WaitedForAll
CHECK_DEADLOCK FALSE
