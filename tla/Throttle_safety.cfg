SPECIFICATION Spec
CONSTANTS
  r1 = r1
  r2 = r2
  r3 = r3
  r4 = r4
  u = u
  Null = Null
  Requests = {r1, r2, r3, r4}
  Users = {u}
  Limit = 2
  Minute = 2
  Hour = 3
  Latency = 2
  MaxTime = 7
SYMMETRY Symmetry
INVARIANTS
  LimitedWhenSequential
  RefusedOverLimitOnly
CHECK_DEADLOCK FALSE
