SPECIFICATION Spec
CONSTANTS
  LastCnt = 2
  None = None
INVARIANT
  LostLockDetected
CHECK_DEADLOCK FALSE
