SPECIFICATION FairSpec
CONSTANTS
  s1 = s1
  Runs = {r1, r2}
  Sessions = {s1}
  SessionOf <- MCSessionOf
  CronRuns = {r2}
  MaxGeneration = 2
INVARIANTS AttemptInsideSession OverlapOnlyAfterGivingUp
PROPERTY RunsSettle
CHECK_DEADLOCK FALSE
