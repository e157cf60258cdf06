CONSTANTS
  Byte <- MCByte
  Input <- MCInput
  BufSize = 2
  IntMax = 4
  MaxRuns = 1
  Faulty = TRUE
  Mortal = TRUE
SPECIFICATION FairSpec
INVARIANTS
  TypeOK
  ReportedTotals
  ExclusiveBuffer
  SizedBeforeUse
PROPERTIES
  CopySpec
  SessionFinishes
CHECK_DEADLOCK FALSE
