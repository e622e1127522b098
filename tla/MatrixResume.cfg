SPECIFICATION FairSpec
CONSTANTS
  Launchers = {l1, l2}
  Lanes = 2
  Comparisons = 1
  MaxCrashes = 2
  MaxFaults = 1
  MaxAttempts = 3
INVARIANTS
  CheckpointIsResumable
  RunsStartClean
  CompletionIsVerifiable
PROPERTIES
  CheckpointedWorkIsKept
  RestartsCloseTheMatrix
CHECK_DEADLOCK FALSE
