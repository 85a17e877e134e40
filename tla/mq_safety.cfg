SPECIFICATION Spec
CONSTANTS
  m1 = m1  m2 = m2  m3 = m3  h1 = h1  h2 = h2  p1 = p1  p2 = p2
  Msgs <- MCMsgs  Handlers <- MCHandlers  Posters <- MCPosters
  Handler <- MCHandler  Owner <- MCOwner  Disposals = {m3}
  Offsets = {0, 1}  Waits <- MCWaits
  Modulus = 16  StartTime = 1  MaxTime = 2
  UsePeek = TRUE  WaitMayFail = TRUE  MayQuit = TRUE
INVARIANTS TypeOK DispatchInArrivalOrder DelayedInTriggerOrder NoOversleep NoLostWakeup HandlerAliveAtDispatch
CHECK_DEADLOCK FALSE
