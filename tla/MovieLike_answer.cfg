\* The answer the comment above the two routes promises.
CONSTANTS
  r1 = r1
  r2 = r2
  r3 = r3
  m1 = m1
  u1 = u1
  u2 = u2
  Requests = {r1, r2, r3}
  Movies = {m1}
  Users = {u1, u2}
  Registered = {u1}
  MaxFailures = 0
  Null = Null
SPECIFICATION Spec
INVARIANTS AnswerShowsPress
CHECK_DEADLOCK FALSE
