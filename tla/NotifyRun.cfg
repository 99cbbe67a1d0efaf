\* fs/notify/run.sh: checkpoint-ready stays, the freezer holds another cgroup,
\* and the program checkpoints itself at its last label only.
SPECIFICATION Spec
CONSTANTS
  IMAX = 3
  RemoveReady = FALSE
  InFreezer = FALSE
  NoImage = NoImage
  CkptOpNum = 3
  CkptLabel <- MCNoLabel
INVARIANT
  ImageAtLabel
