SPECIFICATION FairSpec
ACTION_CONSTRAINT FirstFit
CONSTANTS
  Nodes = {1, 2, 3}
  Null = 0
  Publishers = {"telemetry", "button", "cli"}
  Lengths = {1, 2}
  MaxPublish = 3
INVARIANT PublishersTypeOK
INVARIANT HeapSound
INVARIANT OnlyRacedLost
INVARIANT OnlyRacedStranded
INVARIANT SentOwn
PROPERTY Drains
CHECK_DEADLOCK FALSE
