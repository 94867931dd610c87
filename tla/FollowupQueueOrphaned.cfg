SPECIFICATION Spec
CONSTANTS
  Messages = {1, 2, 3, 4}
  SettingsOf <- mcSettingsOf
  RouteOf <- mcRouteOf
  AuthOf <- mcAuthOf
  Bypassing = {1, 2, 3, 4}
  MaxFaults = 1
INVARIANT BacklogHasDrain
CHECK_DEADLOCK FALSE
