SPECIFICATION Spec
CONSTANTS
  None = None
  NumRecs = 4
  NumTests = 2
INVARIANTS
  CopyComplete
  SnapshotFits
PROPERTY
  ScriptEnds
CHECK_DEADLOCK FALSE
