CONSTANTS
  d1 = d1
  d2 = d2
  startup = startup
  NoDelivery = NoDelivery
  channel = channel
  Deliveries = {d1}
  PartsOf <- MCOnePart
  BestEffort = {}
  Required = {d1}
  Reconciling = {d1}
  Drainers = {startup, channel}
  Startup = startup
  Periodic = {channel}
  Matching <- MCMatching
  MAX_RETRIES = 2
  LostAnswers = FALSE
  AbortErrors = TRUE
  StorageErrors = FALSE
  MaxCopies = 2
  MaxCrashes = 1
SPECIFICATION Spec
INVARIANT NoDuplicates
CHECK_DEADLOCK FALSE
