SPECIFICATION FairSpec
CONSTANTS
  Configs <- AllKinds
  MaxQueuedSendBytes = 2  MaxQueuedReceivedBytes = 2
  MaxSends = 3  MaxReceives = 2
INVARIANTS TypeOK BufferAccounting HandshakeFirst StreamIntact ReceiveIntact
PROPERTIES ClosedForGood QueuedIsSent
CHECK_DEADLOCK FALSE
