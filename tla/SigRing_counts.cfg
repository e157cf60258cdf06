CONSTANTS
  m = 4
  n = 2
  b = 2
SPECIFICATION Spec
INVARIANTS
  TypeOK
  CountsBounded
  LostWasOverwritten
CHECK_DEADLOCK FALSE
