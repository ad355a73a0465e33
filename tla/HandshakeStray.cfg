CONSTANTS
  c1 = c1
  c2 = c2
  Client = {c1}
  Backlog = 1
  ServerTalks = {}
  MaxCloses = 1
  Dup = FALSE
SPECIFICATION Spec
INVARIANTS
  ListenerSeesNewcomers
CHECK_DEADLOCK FALSE
