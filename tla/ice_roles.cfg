SPECIFICATION FairSpec
CONSTANTS
  A = A  B = B  None = None
  Tiebreaker <- Tiebreakers  Calls <- UsualCalls
INVARIANTS TypeOK OneYields
PROPERTIES RolesSettle
