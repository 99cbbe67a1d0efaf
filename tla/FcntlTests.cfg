\* Two iterations of the script's loop.  A fault may leave filelock1's or
\* filelease1's parent waiting for a child that will not exit.
SPECIFICATION Spec
CONSTANTS
  LastCnt = 3
  None = None
INVARIANTS
  ImageReady
  HandedOver
  NoFalseFail
PROPERTIES
  LossReported
  FailureReported
  RestartedExits
CHECK_DEADLOCK FALSE
