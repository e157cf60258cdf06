CONSTANTS
  hit = hit
  miss = miss
  def = def
  XXXX = XXXX
  Torn = Torn
  Empty = Empty
  Server = Server
  Words = {hit, miss}
  Dict <- MCDict
  Clients = {c1, c2, c3}
  SEMVMX = 3
  MaxStarts = 1
  Mortal = {c1, c2, c3, Server}
  QuietExit = FALSE
SPECIFICATION Spec
SYMMETRY ClientSymmetry
INVARIANT MutualExclusion
CHECK_DEADLOCK FALSE
