CONSTANTS
  Peer = {1, 2, 3}
  LeaderCrash = TRUE
  CrashInRemoval = TRUE
  MaxCrashes = 2
  MaxRepeats = 2
  MaxTasks = 6
SPECIFICATION FairSpec
CHECK_DEADLOCK FALSE
INVARIANTS TypeOK AtMostOneLeader MembersAgree
PROPERTIES CrashedRemoved
