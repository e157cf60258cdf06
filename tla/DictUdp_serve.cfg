CONSTANTS
  Servers = {s1, s2}
  Clients = {c1, c2}
  Ports = {p1, p2}
  Words = {"ant", "zzz"}
  Dict <- MCDict
  Unset = "unset"
  NotFound = "XXXX"
  QMax = 2
  MaxQueries = 3
  Mortal = {s2, c1}
SPECIFICATION FairSpec
INVARIANT AnswersRight
PROPERTY QueryAnswered
