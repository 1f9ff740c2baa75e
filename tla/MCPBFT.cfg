CONSTANTS
  n1 = n1  n2 = n2  n3 = n3  n4 = n4  v1 = v1  v2 = v2
  Nodes = {n1, n2, n3, n4}
  Leader = n1
  Silent = {n4}
  Value = {v1, v2}
  Flaky = {n4}
  MaxQueued = 1
  MaxOutages = 1
  Interval = 2
  Word = 16
SYMMETRY FollowerSymmetry
SPECIFICATION Spec
CHECK_DEADLOCK FALSE
INVARIANTS TypeOK ExecutedWasProposed ExecutedMeansPrepared AgreementUntilOutage
ACTION_CONSTRAINT OutageComesFirst
