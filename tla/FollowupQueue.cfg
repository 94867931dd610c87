SPECIFICATION FairSpec
CONSTANTS
  Messages = {1, 2, 3, 4}
  SettingsOf <- mcSettingsOf
  RouteOf <- mcRouteOf
  AuthOf <- mcAuthOf
  Bypassing = {1, 2, 3, 4}
  MaxFaults = 1
INVARIANTS TypeOK SlotHeldByLiveOperation QueuedAccountedFor OneRunEach RunsInOrder
PROPERTIES LeftByPlainEndOnly MessagesSettle
CHECK_DEADLOCK FALSE
