CONSTANTS
  c1 = c1  c2 = c2  p = p  a = a
  Clients = {c1, c2}
  Callers = {c1}
  Prompts = {p}
  Answers = {a}
  Empty = Empty
  None = None
  Values = {0, 1}
  Fee = 1
  Window = 2
  Word = 16
  Heights = {0}
  MaxBlock = 3
  MaxStarts = 1
  MaxBalance = 1
SPECIFICATION FairSpec
CHECK_DEADLOCK FALSE
INVARIANTS TypeOK Solvent NothingSlips ResponseStaysAhead
PROPERTIES ServesRequests RequestAnswered
