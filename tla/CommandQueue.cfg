SPECIFICATION FairSpec
CONSTANTS
  Commands = {c1, c2, c3}
  Lanes = {main}
  ProbeLanes = {}
  Limits <- MCLimits
  Priorities = {0, 1}
  Waiters = {w1}
  MaxGeneration = 1
INVARIANTS TypeOK PendingIsQueuedOrInFlight SlotsAreCurrentClosures NoIdleCapacity NoLostWakeup
PROPERTIES StartsRespectLimit StartsInOrder SettlesOnce AcceptedSettles WaitsEnd
CHECK_DEADLOCK FALSE
