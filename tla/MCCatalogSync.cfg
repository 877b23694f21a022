SPECIFICATION FairSpec
CONSTANTS
  Absent = Absent
  MaxVersion = 2
  BadVersions = {1}
  Period = 2
  MaxAttempts = 3
  RefreshOnStart = TRUE
  MaxRestarts = 1
INVARIANTS WatchDescribesLive
PROPERTIES LiveFollowsDisk InputsReachRouting
