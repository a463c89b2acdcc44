SPECIFICATION CloudSpec
CONSTRAINT Calm
CONSTANTS
  Requests <- OnlySubscribe
  Elapsing <- NoTimeouts
  TimerSlots = 0
  MaxPublish = 1
  MaxWire = 1
  Failures <- FailureKinds
  MaxFailures = 2
INVARIANT CloudTypeOK
INVARIANT ResetScheduled
INVARIANT ResetOnClosedSocket
INVARIANT SocketHasAddress
INVARIANT SessionReported
PROPERTY ImplementsEngine
CHECK_DEADLOCK FALSE
