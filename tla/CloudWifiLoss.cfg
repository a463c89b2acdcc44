SPECIFICATION FairCloudSpec
CONSTANTS
  Requests <- OnlySubscribe
  Elapsing <- NoTimeouts
  TimerSlots = 0
  MaxPublish = 0
  MaxWire = 0
  Failures <- OnlyAp
  MaxFailures = 1
PROPERTY WifiLossResets
CHECK_DEADLOCK FALSE
