SPECIFICATION FairSpec
CONSTANTS
  Loops = {l1, l2}
  None = None
  MaxGen = 2
INVARIANTS TypeOK CloseHitsOldOnly DisconnectedHasEnded
PROPERTIES OneLateUpdate AttemptAnswered ClosedLoopEnds
CHECK_DEADLOCK FALSE
