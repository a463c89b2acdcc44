SPECIFICATION Spec
CONSTANTS
  Requests <- NoRequests
  Elapsing <- KeepAlive
  TimerSlots = 2
  MaxPublish = 2
  MaxWire = 1
INVARIANT TypeOK
INVARIANT PubackHasPacket
INVARIANT ConnectNotQueued
INVARIANT KeepAliveArmed
INVARIANT LinkSupervised
PROPERTY ImplementsPublishChannel
CHECK_DEADLOCK FALSE
