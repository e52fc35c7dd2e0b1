CONSTANTS
  a = a  b = b  c = c  l1 = l1  l2 = l2
  None = None
  User = {a, b, c}
  Invitees <- Lists
  Loop = {l1}
  MaxUsers = 3
SPECIFICATION Spec
PROPERTY LeaverLeaves
