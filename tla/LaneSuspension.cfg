CONSTANTS
  r1 = r1
  r2 = r2
  r3 = r3
  main = main
  Runs = {r1, r2, r3}
  Lanes = {main}
  LaneOf <- MCLaneOf
  ConfigLimits = {2}
SPECIFICATION FairSpec
INVARIANT SuspendedLaneHasTimer
PROPERTY RunsSettle
CHECK_DEADLOCK FALSE
