\* Three threads, two iterations of the script's loop.
SPECIFICATION Spec
CONSTANTS
  N = 3
  LastCnt = 3
  None = None
  Nobody = Nobody
INVARIANTS
  OneHolder
  NoFalseFail
  ReleasedAtExit
PROPERTY
  RestartedExits
