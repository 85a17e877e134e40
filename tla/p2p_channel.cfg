SPECIFICATION FairSpec
CONSTANTS
  p = p  q = q  None = None
  Paths = {p, q}  Good = {q}  Natted = {q}
  Priority <- Preferences  PrflxPriority <- PrflxPreferences  Network <- OneNetwork
  Role = "controlling"  MaxBacklog = 2  MaxRevivals = 1
INVARIANTS TypeOK NoDanglingPointer ChannelStateCurrent
PROPERTIES Recovers
CHECK_DEADLOCK FALSE
