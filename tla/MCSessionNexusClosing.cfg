CONSTANTS
  c1 = c1  c2 = c2  c3 = c3  l1 = l1  l2 = l2
  None = None  d1 = d1  d2 = d2
  Channel = {c1, c2}
  Device = {d1, d2}
  Loop = {l1, l2}
  LoopOf <- PairOfLoops
  MaxSessions = 2
  MaxInits <- Again
  MayResize = TRUE
SPECIFICATION HistoryFairSpec
CHECK_DEADLOCK FALSE
PROPERTIES DeviceIndexSpec HandlersFinish ClosedIsForgotten
