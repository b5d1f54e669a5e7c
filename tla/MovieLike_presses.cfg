\* Three overlapping presses of two buttons, a call MongoDB fails, the
\* process exiting and coming back: a record may be removed while another
\* write to it is still on its way.
CONSTANTS
  r1 = r1
  r2 = r2
  r3 = r3
  m1 = m1
  u1 = u1
  u2 = u2
  Requests = {r1, r2, r3}
  Movies = {m1}
  Users = {u1, u2}
  Registered = {u1, u2}
  MaxFailures = 1
  Null = Null
SPECIFICATION FairSpec
INVARIANTS LikeInv AlonePressAnswered
PROPERTIES AlonePressToggles ExitNeedsRace ImplementsLikeButtons PressSettles
CHECK_DEADLOCK FALSE
