SPECIFICATION Spec
CONSTANTS
  RetryTicks = 6
  MaxLost = 3
INVARIANT OnlyStraysRetryEarly
INVARIANT OnlyLostSessionsLeave
CHECK_DEADLOCK FALSE
