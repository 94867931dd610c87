CONSTANTS
  a1 = a1
  o1 = o1
  o2 = o2
  Approvals = {a1}
  Operators = {o1, o2}
  MaxInvokes = 2
SPECIFICATION Spec
CHECK_DEADLOCK FALSE
INVARIANT FallbackHonoured
