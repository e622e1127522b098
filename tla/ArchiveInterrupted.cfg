SPECIFICATION Spec
CONSTANTS
  Launchers = {l1}
  Lanes = 1
  Comparisons = 1
  MaxCrashes = 2
  MaxFaults = 0
  MaxAttempts = 2
INVARIANT ReportsBindEveryArchive
CHECK_DEADLOCK FALSE
