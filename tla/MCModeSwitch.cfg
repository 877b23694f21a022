SPECIFICATION FairSpec
CONSTANTS
  Absent = Absent
  Old = Old
  New = New
  Attempts = 2
  Apps = {a1, a2, a3}
  Servers = {s1, s2}
  MaxFaults = 2
INVARIANTS ServesPublished OutcomeAsReported DesktopReturns
PROPERTIES ChangesQuietly SwitchEnds
CHECK_DEADLOCK FALSE
