SPECIFICATION Spec
CONSTANTS
  r1 = r1
  r2 = r2
  f = f
  a = a
  k = k
  Null = Null
  u1 = u1
  Users = {u1}
  Requests = {r1, r2}
  Tokens = {f, a}
  Foreign = {}
  Roles = {2}
  Routes = {"guarded", "block"}
  OtherKeys = {k}
  CacheMax = 2
  AccessLife = 2
  RefreshLife = 3
  Margin = 1
  MaxTime = 3
SYMMETRY Symmetry
INVARIANTS
  BlockedIdentifiesNobody
  UserIsBearer
PROPERTIES
  GoodTokenOpens
