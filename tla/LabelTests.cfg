\* Eight programs.  Limits of 4, 11 and 12 files with 3 open leave room for 0,
\* 2 and 4 sockets; -s asks for 2, 4 and 12; cycles of two and three sets.
\* A program stops when it has ended, or in a read() whose data was lost.
SPECIFICATION Spec
CONSTANTS
  UIntSize = 65536
  RLimits = {4, 11, 12}
  OpenFds = 3
  Pairs = {1, 2, 6}
  NumEfds = {2, 3}
  None = None
INVARIANTS
  LossSeen
  NoFalseFail
  PassedToTheEnd
PROPERTY
  Ends
CHECK_DEADLOCK FALSE
