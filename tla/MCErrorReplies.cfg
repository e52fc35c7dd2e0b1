CONSTANTS
  r1 = r1  r2 = r2
  None = None
  Request = {r1, r2}
  Half = 4
SYMMETRY Clients
SPECIFICATION Spec
CHECK_DEADLOCK FALSE
INVARIANTS TypeOK FailureIsTold AnswerLeadsBack ShownNamesWereRefused
