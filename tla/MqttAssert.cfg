SPECIFICATION Spec
CONSTANTS
  Requests <- NoRequests
  Elapsing <- NoTimeouts
  TimerSlots = 2
  MaxPublish = 1
  MaxWire = 1
INVARIANT AssertHolds
CHECK_DEADLOCK FALSE
