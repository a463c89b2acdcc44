SPECIFICATION MCSpec
CONSTANTS
  Bytes = {b0, b1}
  Size = 3
  MaxLength = 4
  Words = {"a", "b"}
  FilterWords = 4
  TopicWords = 6
  NextBytes = {0, 255}
INVARIANT BufferTypeOK
PROPERTY WriteStopsWhenFull
PROPERTY ImplementsFifo
INVARIANT LengthSurvives
INVARIANT MatchingCorrect
INVARIANT MessageDispatched
