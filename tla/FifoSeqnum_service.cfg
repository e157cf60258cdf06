CONSTANTS
  Server = Server
  Good = {g1, g2}
  Bad = {b1}
  Args <- MCArgs
  IntMax = 3
  Mortal = {g1, g2, b1, Server}
SPECIFICATION FairSpec
INVARIANTS
  ServiceInv
  PrintedRangesDisjoint
PROPERTIES
  AllocSpec
  ServiceGoesOn
CHECK_DEADLOCK FALSE
