CONSTANTS
  r1 = r1  r2 = r2
  None = None  Receiver = Receiver  Runner = Runner
  Requests = {r1, r2}
  Roles = {TRUE, FALSE}
  Capacity = 1
  MaxMessages = 2
SYMMETRY RequestSymmetry
SPECIFICATION Spec
CHECK_DEADLOCK FALSE
INVARIANTS TypeOK ResultFindsRequest
PROPERTIES LeaderKeepsComplete
