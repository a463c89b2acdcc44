SPECIFICATION Spec
CONSTANTS
  NumTimers = 2
  Period = 11
  Kinds <- Types
  Margin = 3
  Times <- ShortAndLong
  ReadTime = 1
  WriteTime = 1
  Latency = 1
  IsrTime = 1
  Reloads = TRUE
  SinceMax = 12
INVARIANT ListSound
INVARIANT ArmedInTime
PROPERTY ImplementsService
PROPERTY CallbackDelayHangs
