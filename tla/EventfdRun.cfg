\* eventfd/run.sh with a program of five labels, checkpointed at each.
SPECIFICATION Spec
CONSTANTS
  IMAX = 4
  RemoveReady = TRUE
  InFreezer = TRUE
  NoImage = NoImage
  CkptOpNum <- MCAllLabels
  CkptLabel <- MCNoLabel
INVARIANTS
  ImageAtLabel
  NoLabelSkipped
  Verdict
  SameLog
PROPERTIES
  ImplementsRendezvous
  Terminates
