SPECIFICATION FairSpec
CONSTANTS
  m1 = m1  m2 = m2  m3 = m3  h1 = h1  h2 = h2  p1 = p1  p2 = p2
  Msgs <- MCTwoMsgs  Handlers <- MCHandlers  Posters <- MCPosters
  Handler <- MCTwoHandler  Owner <- MCOwner  Disposals = {}
  Offsets = {1}  Waits <- MCForever
  Modulus = 16  StartTime = 1  MaxTime = 2
  UsePeek = FALSE  WaitMayFail = FALSE  MayQuit = TRUE
PROPERTIES PostedIsServed QuitEndsLoop ImplementsMailbox
CHECK_DEADLOCK FALSE
