SPECIFICATION Spec
CONSTANTS
  None = None
  Depth = 3
  NumJobs = 2
  NumLoops = 2
  MaxCount = 4
INVARIANTS RacesKnown VerdictRight KilledAsCheckpointed NoFalsePass
PROPERTIES TimedOutWaiting ScriptEnds
CHECK_DEADLOCK FALSE
