CONSTANTS
  a1 = a1  a2 = a2  a3 = a3
  N = 3
  Pool <- MCPool
  None = None
  OwnName = {1, 2, 3}
  Buffer = 1
  MaxStops <- MCMaxStops
SPECIFICATION FairSpec
INVARIANTS TypeOK ReadyMeansStarted
PROPERTIES EveryoneReady
