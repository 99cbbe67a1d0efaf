SPECIFICATION FutexSpec
CONSTANTS
  None = None
  N = 2
  NPi = 3
  Retries = 1
INVARIANTS OneHolder WokenInOrder NoFalseFail PiFailureReported
PROPERTY ProgramEnds
CHECK_DEADLOCK FALSE
