SPECIFICATION Spec
CHECK_DEADLOCK FALSE
INVARIANTS TypeOK StartedMeansComplete HookFindsManager
PROPERTIES FailedStartEnds SignalEnds GreetsUnlessLost
