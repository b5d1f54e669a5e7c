\* Three requests of any service; the administrator may change a role.
CONSTANTS
  n1 = n1
  n2 = n2
  p1 = p1
  p2 = p2
  none = none
  Null = Null
  Requests = {1, 2, 3}
  Names = {n1, n2}
  Secrets = {p1, p2, none}
  Empty = none
  Roles = {0, 2}
  Asks <- MCAsks
SPECIFICATION Spec
INVARIANTS
  RegistrationAnswersOwn
  ConflictNeedsRace
  LoginIsSnapshot
  UpdateAnswerShowsIt
  RemovedIsGone
CHECK_DEADLOCK FALSE
