CONSTANTS
  r1 = r1  r2 = r2
  None = None  Receiver = Receiver  Runner = Runner
  Requests = {r1}
  Roles = {FALSE}
  Capacity = 3
  MaxMessages = 3
SPECIFICATION FairSpec
CHECK_DEADLOCK FALSE
PROPERTIES PromptReturns
