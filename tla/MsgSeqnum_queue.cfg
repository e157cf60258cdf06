CONSTANTS
  Request = Request
  Clients = {c1, c2, c3}
  SeqLens = {1, 3}
  IntMax = 3
  QMax = 2
  MaxStarts = 2
  Mortal = {c1, c2, c3}
SPECIFICATION FairSpec
INVARIANTS
  QueueInv
  PrintedRangesDisjoint
PROPERTIES
  AllocSpec
  ReplyUnlessStuck
CHECK_DEADLOCK FALSE
