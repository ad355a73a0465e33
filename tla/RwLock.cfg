CONSTANTS
  app = app
  device = device
  routing = routing
  Thread = {app, device, routing}
  Senders = {app, device}
  Forwarders = {device, routing}
  Updaters = {device, routing}
  MaxCalls = 2
SPECIFICATION FairSpec
INVARIANTS
  TypeOK
PROPERTIES
  IsTableLock
  CallsFinish
CHECK_DEADLOCK FALSE
