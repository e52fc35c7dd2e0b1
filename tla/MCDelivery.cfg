CONSTANTS
  a = a  g = g  s1 = s1  s2 = s2  b1 = b1  b2 = b2
  None = None
  Device = {a, g}
  TypeOf <- Types
  Members <- Listed
  Session = {s1, s2}
  Broadcast = {b1, b2}
  IdSpan = 3
  MaxFlips = 1
SYMMETRY Alike
SPECIFICATION Spec
CHECK_DEADLOCK FALSE
INVARIANTS TypeOK FramesAddressed PushBorrowsItsOwn
PROPERTIES HandedToActive HandedTheRightWay
