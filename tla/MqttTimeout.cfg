SPECIFICATION Spec
CONSTANTS
  Requests <- Subscribe
  Elapsing <- RequestTimeouts
  TimerSlots = 2
  MaxPublish = 0
  MaxWire = 1
INVARIANT TimeoutMeansUnanswered
CHECK_DEADLOCK FALSE
