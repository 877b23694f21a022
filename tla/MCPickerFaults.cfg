SPECIFICATION Spec
CONSTANTS
  Absent = Absent
  BackupIds = {b1, b2, b3}
  MaxEdits = 2
  MaxVersions = 1
  MaxFaults = 1
  FaultKinds = {"write", "remove", "fsync", "unlink", "fallback", "crash"}
  EditKinds = {"rewrite", "append", "strip"}
  Overlap = FALSE
SYMMETRY Symmetry
INVARIANTS ReceiptValid OwnedBackups
PROPERTIES SyncKeepsMode ImplementsPublication
CHECK_DEADLOCK FALSE
