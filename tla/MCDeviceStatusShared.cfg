CONSTANTS
  u = u  v = v  d1 = d1  d2 = d2  d3 = d3  l1 = l1  l2 = l2
  None = None
  User = {u, v}
  Device = {d1, d2, d3}
  DevicesOf <- Shared
  Loop = {l1, l2}
  LoginFrom = {d1, d2, d3}
  Ops = {"login", "logout", "register", "delete", "status"}
  StoreFails = TRUE
SPECIFICATION Spec
INVARIANT TypeOK
PROPERTIES LoginDecides LogoutClears DeletedStaysDeleted
