SPECIFICATION Spec
CONSTANTS
  Requests <- AllRequests
  Elapsing <- RequestTimeouts
  TimerSlots = 2
  MaxPublish = 0
  MaxWire = 1
INVARIANT OneRequestAtATime
INVARIANT WaitsAreTimed
CHECK_DEADLOCK FALSE
