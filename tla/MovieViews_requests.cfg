\* Three requests of two clients, the movies changing twice.
CONSTANTS
  c1 = c1
  c2 = c2
  Null = Null
  Requests = {1, 2, 3}
  Clients = {c1, c2}
  MaxVersion = 2
  MaxRestarts = 1
SPECIFICATION Spec
INVARIANTS
  ListsGoForward
  NothingOutlivesTheCache
  ViewsAreCounted
CHECK_DEADLOCK FALSE
