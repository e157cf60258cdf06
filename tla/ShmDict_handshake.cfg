CONSTANTS
  hit = hit
  miss = miss
  def = def
  XXXX = XXXX
  Torn = Torn
  Empty = Empty
  Server = Server
  Words = {hit, miss}
  Dict <- MCDict
  Clients = {c1, c2, c3}
  SEMVMX = 5
  MaxStarts = 1
  Mortal = {}
  QuietExit = TRUE
SPECIFICATION FairSpec
INVARIANTS
  TypeOK
  ServerWorksForAwaiter
  AwaitedAnswer
  ServerLifetime
PROPERTIES
  LookupEnds
CHECK_DEADLOCK FALSE
