CONSTANTS
  hook = hook
  exec = exec
  main = main
  other = other
  Wakes = {hook, exec}
  Targets = {main, other}
  TargetOf <- MCTargetOf
  Priority <- MCPriority
  CoalesceOf <- MCCoalesceOf
  CoalesceTicks = 1
  RetryTicks = 2
  Slots = {1, 2, 3}
  MaxRegistrations = 2
SPECIFICATION FairSpec
INVARIANTS TypeOK NoWakeLost PendingHasTimer OverlapBounded
PROPERTIES ArmedCooldownKept WakesServed
CHECK_DEADLOCK FALSE
