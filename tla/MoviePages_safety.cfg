\* One walk over up to five movies, in either order, by a user or by nobody.
SPECIFICATION FairSpec
CONSTANTS
  w1 = w1
  MaxId = 5
  Walks = {w1}
  Orders = {"id_DESC", "id_ASC"}
  Takes = {0, 1, 2}
  Liked = {1, 3, 4}
INVARIANTS
  TypeOK
  DefaultWalkIsComplete
  FailsOnRemovalOnly
PROPERTIES
  CursorsFall
  WalkEnds
CHECK_DEADLOCK FALSE
