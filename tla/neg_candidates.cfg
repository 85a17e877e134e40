SPECIFICATION Spec
CONSTANTS
  IdentityModes = {"none"}  Candidates = {"c1"}  Failures = {}
  MayClose = FALSE  MaxRequests = 1  MaxRemote = 1
INVARIANT CandidatesReachTransport
CHECK_DEADLOCK FALSE
