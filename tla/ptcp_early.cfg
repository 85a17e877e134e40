SPECIFICATION Spec
CONSTANTS
  A = A  B = B
  Connectors = {A}  Senders = {B}  Closers = {}
  CtlLen = 1  MssTable <- TwoSizes  PathMax = 1  Advices = {1}
  RcvCap = 4  SndCap = 5  UseNagling = FALSE  DelayAcks = TRUE
  CongestionWindows = {4}
  XmitLimit = 2  SynXmitLimit = 2  DupAckModulus = 5  MaxProbes = 1
  MaxUnits = 2  MaxNet = 2  MaxAdvices = 0  MaxRepeats = 1
INVARIANT StreamIntact
CHECK_DEADLOCK FALSE
