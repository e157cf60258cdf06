CONSTANTS
  c1 = c1
  c2 = c2
  c3 = c3
  c4 = c4
  Clients = {c1, c2, c3, c4}
  Pid <- MCPid
  Nobody = Nobody
  Files = {"long", "binary", "missing"}
  Content <- MCContent
  Missing = "missing"
  MqMax = 2
  Mortal = {c1}
  Residues = {1}
SPECIFICATION FairSpec
INVARIANTS
  CountsFile
  BytesFile
  StuckCause
PROPERTY ServedUnlessStuck
CHECK_DEADLOCK FALSE
