CONSTANTS
  c1 = c1  c2 = c2  c3 = c3  l1 = l1  l2 = l2
  None = None  d1 = d1  d2 = d2
  Channel = {c1, c2, c3}
  Device = {d1}
  Loop = {l1, l2}
  LoopOf <- TwoLoops
  MaxSessions = 3
  MaxInits <- Once
  MayResize = TRUE
SPECIFICATION Spec
CHECK_DEADLOCK FALSE
SYMMETRY LoopMates
INVARIANTS TypeOK NoDangling DisposedIsDisconnected
PROPERTY RegistrySpec
