SPECIFICATION FairSpec
CONSTANTS
  IdentityModes <- AllModes  Candidates = {"c1"}  Failures <- AllFailures
  MayClose = TRUE  MaxRequests = 2  MaxRemote = 2
INVARIANTS TypeOK ResultsInOrder DescriptionsFollowState AnswerIsToAnOffer RestartIsAnswered CandidatesKept
PROPERTIES RequestsAnswered
CHECK_DEADLOCK FALSE
