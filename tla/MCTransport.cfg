SPECIFICATION FairSpec
CONSTANTS
  MaxMessages = 2
  MaxDials = 4
  MaxStops = 1
  None = None
INVARIANTS TypeOK FramesWhole EntryIsWatched
PROPERTIES Delivered StopIsFinal
CHECK_DEADLOCK FALSE
