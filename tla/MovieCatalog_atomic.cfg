\* An update that fails after its first write.
CONSTANTS
  t1 = t1
  t2 = t2
  x1 = x1
  x2 = x2
  d1 = d1
  g1 = g1
  r1 = r1
  r2 = r2
  r3 = r3
  Requests = {r1, r2, r3}
  Titles = {t1, t2}
  Texts = {x1, x2}
  Directors = {d1}
  Genres = {g1}
  CreateBodies <- MCCreateBodies
  UpdateBodies <- MCUpdateBodies
  Null = Null
SPECIFICATION Spec
SYMMETRY RequestSymmetry
INVARIANTS FailedUpdateWritesNothing
CHECK_DEADLOCK FALSE
