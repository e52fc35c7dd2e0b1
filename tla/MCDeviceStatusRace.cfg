CONSTANTS
  u = u  v = v  d1 = d1  d2 = d2  d3 = d3  l1 = l1  l2 = l2
  None = None
  User = {u}
  Device = {d1, d2, d3}
  DevicesOf <- OfOneUser
  Loop = {l1, l2}
  LoginFrom = {d1, d2}
  Ops = {"login"}
  StoreFails = FALSE
SPECIFICATION Spec
CHECK_DEADLOCK FALSE
PROPERTY LoginsLeaveOneActive
