CONSTANTS
  d1 = d1
  d2 = d2
  startup = startup
  NoDelivery = NoDelivery
  channel = channel
  Deliveries = {d1}
  PartsOf <- MCTwoParts
  BestEffort = {}
  Required = {d1}
  Reconciling = {d1}
  Drainers = {startup, channel}
  Startup = startup
  Periodic = {channel}
  Matching <- MCMatching
  MAX_RETRIES = 2
  LostAnswers = TRUE
  AbortErrors = FALSE
  StorageErrors = TRUE
  MaxCopies = 2
  MaxCrashes = 2
SPECIFICATION FairSpec
INVARIANT MarkedSendsOnce
PROPERTIES RowsSettle ImplementsDurableSend
CHECK_DEADLOCK FALSE
