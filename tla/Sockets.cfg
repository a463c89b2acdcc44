SPECIFICATION FairSpec
CONSTANTS
  TcpSlots = 2
  SessionRange = 4
  NullByte = 0
  MaxLate = 1
  Refusable <- Requests
  MaxRefusals = 1
  MaxSockets = 4
  MaxData = 2
  MaxSends = 1
INVARIANT TypeOK
INVARIANT SocketOwned
INVARIANT ConnectedIsReal
INVARIANT RecvServed
INVARIANT SpareUnused
PROPERTY ImplementsLink
PROPERTY LossNoticed
