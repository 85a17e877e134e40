SPECIFICATION Spec
CONSTANTS
  Configs <- OnlyNegotiated
  MaxQueuedSendBytes = 3  MaxQueuedReceivedBytes = 2
  MaxSends = 2  MaxReceives = 0
INVARIANT QueuedPacketsOwned
CHECK_DEADLOCK FALSE
