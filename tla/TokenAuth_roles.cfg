SPECIFICATION Spec
CONSTANTS
  r1 = r1
  r2 = r2
  f = f
  a = a
  n = n
  x = x
  Null = Null
  u1 = u1
  Users = {u1}
  Requests = {r1, r2}
  Tokens = {f, a, n, x}
  Foreign = {x}
  Roles = {0, 2}
  Routes = {"public", "admin", "rotate"}
  OtherKeys = {}
  CacheMax = 2
  AccessLife = 2
  RefreshLife = 3
  Margin = 3
  MaxTime = 3
SYMMETRY Symmetry
INVARIANTS
  AdminNeedsAdminLogin
