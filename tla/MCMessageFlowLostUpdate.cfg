CONSTANTS
  a = a  b = b  c = c  l1 = l1  l2 = l2
  None = None  m1 = m1
  Device = {a, b, c}
  Members <- Trio
  Message = {m1}
  Loop = {l1, l2}
  LoopOf <- TwoLoops
  MaxAcks = 1
  Faults = {}
SPECIFICATION HistorySpec
CHECK_DEADLOCK FALSE
PROPERTY NotifiedMeansChanged
