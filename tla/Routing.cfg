CONSTANTS
  Wires <- Triangle
  Host = {1, 2, 3}
  Device <- DevicesOfWires
  HostOf <- HostOfPair
  Links <- LinksOfWires
  Dest <- OneTwo
  None = None
  MaxFaults = 1
SPECIFICATION FairSpec
INVARIANTS
  TypeOK
  RoutesLead
  NeverTooNear
PROPERTIES
  NoRouteLost
  Converges
CHECK_DEADLOCK FALSE
