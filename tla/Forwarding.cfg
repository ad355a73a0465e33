CONSTANTS
  Wires <- Triangle
  Host = {1, 2, 3}
  Device <- DevicesOfWires
  HostOf <- HostOfPair
  Links <- LinksOfWires
  Dest <- OneTwo
  Source <- ThreeOne
  None = None
  MaxFaults = 0
  TTL = 2
SPECIFICATION FFairSpec
INVARIANTS
  FTypeOK
  OnlyFloodsMultiply
PROPERTIES
  PacketArrives
CHECK_DEADLOCK FALSE
