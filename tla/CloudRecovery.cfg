SPECIFICATION FairCloudSpec
CONSTANTS
  Requests <- OnlySubscribe
  Elapsing <- OnlySuback
  TimerSlots = 1
  MaxPublish = 0
  MaxWire = 0
  Failures <- Networks
  MaxFailures = 1
PROPERTY Recovers
CHECK_DEADLOCK FALSE
