\* rw.c and its script: seven labels, one alarm.
SPECIFICATION RwSpec
CONSTANTS
  IMAX = 6
  RemoveReady = TRUE
  InFreezer = TRUE
  NoImage = NoImage
INVARIANTS
  NoFalseFail
PROPERTY
  RwTerminates
