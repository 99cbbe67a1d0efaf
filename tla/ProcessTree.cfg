\* Four threads, trees of up to three processes below main(), one iteration of
\* the scripts' loop.  pthread1 may block for good (see Pthread1Lost.cfg).
SPECIFICATION Spec
CONSTANTS
  TESTS = {"pthread1", "pthread2", "pthread3", "ptree1"}
  N = 4
  MaxNodes = 3
  LastCnt = 2
  None = None
INVARIANTS
  VerdictRight
  NobodyLeft
PROPERTIES
  ChainWakesAll
  RestartedExits
CHECK_DEADLOCK FALSE
