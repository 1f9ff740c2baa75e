CONSTANTS
  Process = {1, 2, 3}
  Starters = {2}
  Successor <- MCSuccessor
  Initial = 1
  Trigger <- MCTrigger
  SnapshotID <- MCSnapshotID
  IdSpace = 4
  Fragile <- MCFragile
  MaxLaps = 1
  MaxStarts = 2
SPECIFICATION Spec
CHECK_DEADLOCK FALSE
INVARIANTS TypeOK LapsInStep NoTokenCountedTwice CompleteMeansStarted StartedOnceCompletes
