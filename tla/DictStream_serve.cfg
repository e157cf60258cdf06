CONSTANTS
  hit = hit
  miss = miss
  def = def
  XXXX = XXXX
  Garbage = Garbage
  Nobody = Nobody
  Words = {hit, miss}
  Dict <- MCDict
  Clients = {c1, c2}
  Backlog = 1
  Kills = {"server", "child", "client"}
SPECIFICATION FairSpec
INVARIANTS
  TypeOK
  AnswerWhileConnected
  OpenIsServed
PROPERTIES
  EveryoneNotices
CHECK_DEADLOCK FALSE
