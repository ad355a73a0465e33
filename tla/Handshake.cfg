CONSTANTS
  c1 = c1
  c2 = c2
  Client = {c1, c2}
  Backlog = 1
  ServerTalks = {c1}
  MaxCloses = 1
  Dup = TRUE
SPECIFICATION Spec
INVARIANTS
  TypeOK
  OneHomeEach
  FirstBytesKept
  AcceptedIsEstablished
  ConnectedIsKnown
CHECK_DEADLOCK FALSE
