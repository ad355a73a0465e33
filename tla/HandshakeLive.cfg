CONSTANTS
  c1 = c1
  c2 = c2
  Client = {c1, c2}
  Backlog = 1
  ServerTalks = {}
  MaxCloses = 0
  Dup = FALSE
SPECIFICATION FairSpec
PROPERTIES
  ConnectReturnsAtLast
  WriterIsAccepted
CHECK_DEADLOCK FALSE
