SPECIFICATION Spec
CONSTANTS
  A = A  B = B
  Connectors = {A}  Senders = {A}  Closers = {}
  CtlLen = 1  MssTable <- FarSizes  PathMax = 3  Advices = {2}
  RcvCap = 3  SndCap = 3  UseNagling = TRUE  DelayAcks = TRUE
  CongestionWindows = {3}
  XmitLimit = 2  SynXmitLimit = 2  DupAckModulus = 5  MaxProbes = 1
  MaxUnits = 3  MaxNet = 2  MaxAdvices = 1  MaxRepeats = 1
INVARIANTS ListenerIntact SegmentsTile WindowFits ReaderTold
CHECK_DEADLOCK FALSE
