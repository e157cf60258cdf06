CONSTANTS
  hit = hit
  miss = miss
  def = def
  XXXX = XXXX
  Torn = Torn
  Empty = Empty
  Server = Server
  Words = {hit, miss}
  Dict <- MCDict
  Clients = {c1, c2}
  SEMVMX = 7
  MaxStarts = 1
  Mortal = {}
  QuietExit = TRUE
SPECIFICATION Spec
INVARIANT ReturnedAnswer
CHECK_DEADLOCK FALSE
