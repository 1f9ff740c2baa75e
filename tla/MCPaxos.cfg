CONSTANTS
  Proposers = {1, 2}
  a1 = a1  a2 = a2  a3 = a3
  Acceptors = {a1, a2, a3}
  Faulty = {a1}
  None = None
  Value <- MCValue
  AcceptorsFor <- MCAcceptorsFor
  ProposedValue <- MCProposedValue
SPECIFICATION FairSpec
INVARIANTS TypeOK Agreement ChoiceIsStable OneValuePerNumber ChoseLoggedAfterPromise
PROPERTIES Implements HighestChooses
CHECK_DEADLOCK FALSE
