SPECIFICATION Spec
CONSTANTS
  Absent = Absent
  BackupIds = {b1, b2, b3}
  MaxEdits = 1
  MaxVersions = 1
  MaxFaults = 2
  FaultKinds = {"write", "remove", "fsync", "unlink", "fallback", "crash"}
  EditKinds = {"rewrite", "append", "strip"}
  Overlap = TRUE
SYMMETRY Symmetry
INVARIANTS UserTextKept
CHECK_DEADLOCK FALSE
