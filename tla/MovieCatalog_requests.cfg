\* Three requests of any kind, one director and one genre that come and go.
CONSTANTS
  t1 = t1
  t2 = t2
  x1 = x1
  x2 = x2
  d1 = d1
  g1 = g1
  r1 = r1
  r2 = r2
  r3 = r3
  Requests = {r1, r2, r3}
  Titles = {t1, t2}
  Texts = {x1, x2}
  Directors = {d1}
  Genres = {g1}
  CreateBodies <- MCCreateBodies
  UpdateBodies <- MCFewUpdateBodies
  Null = Null
SPECIFICATION FairSpec
INVARIANTS CatalogInv OrphansAreRemovals ReferencesWereReal
PROPERTIES ImplementsShelf RequestsEnd
CHECK_DEADLOCK FALSE
