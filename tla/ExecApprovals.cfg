CONSTANTS
  a1 = a1
  o1 = o1
  o2 = o2
  Approvals = {a1}
  Operators = {o1, o2}
  MaxInvokes = 2
SPECIFICATION FairSpec
INVARIANTS TypeOK RecordInStep OperatorsAgree RunsAsRuled AllowOnceRunsOnce
PROPERTY RequestsSettle
CHECK_DEADLOCK FALSE
