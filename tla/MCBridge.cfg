SPECIFICATION Spec
CONSTANTS
  Absent = Absent
  BackupIds = {b1, b2, b3}
  MaxInstalls = 2
  MaxEdits = 2
  MaxFaults = 2
  MaxVersions = 1
  FaultKinds = {"write", "remove", "unlink", "launchctl", "check", "crash", "unsynced", "partial", "leftover", "move"}
SYMMETRY BackupSymmetry
INVARIANTS OriginalsKept RuntimeBehindService
PROPERTIES UninstallRestores FailuresUndone ReplacedAsPair
CHECK_DEADLOCK FALSE
