SPECIFICATION FairSpec
CONSTANTS
  A = A  B = B
  Threads = {A, B}
  MaySend <- MutualSends  MayPost <- SomePosts
  Quitters = {B}  MaxSends = 3  MaxPosts = 2
INVARIANTS TypeOK ReadyPointerValid NoLostWakeup
PROPERTY SendReturns
CHECK_DEADLOCK FALSE
