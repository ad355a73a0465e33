CONSTANTS
  p1 = p1
  p2 = p2
  c1 = c1
  c2 = c2
  Port = {p1, p2}
  Bindable = {p1}
  Peer = {c1, c2}
  NoPort = NoPort
  NoPeer = NoPeer
  Remains <- MCRemains
  Limit = 2
  Backlog = 1
SYMMETRY Symmetry
SPECIFICATION Spec
INVARIANTS
  TypeOK
  ConnectionsAreDistinct
  SegmentsFindTheirSocket
  PortsAreThoseInUse
