SPECIFICATION FairSpec
CONSTANTS
  A = A  B = B
  Connectors = {A}  Senders = {A}  Closers = {A}
  CtlLen = 1  MssTable <- TwoSizes  PathMax = 1  Advices = {1}
  RcvCap = 2  SndCap = 3  UseNagling = TRUE  DelayAcks = TRUE
  CongestionWindows = {2}
  XmitLimit = 2  SynXmitLimit = 2  DupAckModulus = 5  MaxProbes = 1
  MaxUnits = 3  MaxNet = 1  MaxAdvices = 1  MaxRepeats = 0
PROPERTIES Delivered CloseCompletes
CHECK_DEADLOCK FALSE
