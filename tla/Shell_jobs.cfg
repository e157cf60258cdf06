CONSTANTS
  Editions = {"HW3", "HW5"}
  Scripts <- MCScripts
  LONGLINE = 13
  Pids = {1, 2, 3, 4, 5}
  Programs = {"ls", "cat", "yes"}
  Filters = {"cat"}
  Endless = {"yes"}
  Tight = {"nx"}
  Dirs = {"/"}
  Readable = {"f"}
  Writable = {"f"}
SPECIFICATION FairSpec
INVARIANTS
  
  OwnChildReaped
  Wired
PROPERTY Drains
CHECK_DEADLOCK FALSE
