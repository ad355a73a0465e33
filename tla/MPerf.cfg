SPECIFICATION FairSpec
CONSTANTS
  MaxForks = 3
  MaxRequests = 3
CHECK_DEADLOCK FALSE
INVARIANTS
  TypeOK
  ConfiguredAsAsked
  ReadyForTests
  OneServer
PROPERTIES
  NoStaleTest
  ControllerReturns
