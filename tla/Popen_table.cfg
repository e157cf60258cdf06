CONSTANTS
  MAX_POPEN = 2
  MaxOpens = 4
SPECIFICATION FairSpec
INVARIANTS
  TableExact
  OnlyOwnEnd
PROPERTY CallsReturn
CHECK_DEADLOCK FALSE
