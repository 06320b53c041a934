SPECIFICATION Spec
CONSTANTS
  c1 = c1
  c2 = c2
  Calls = {c1, c2}
  RulesTried = 2
  MaxRule = 2
SYMMETRY CallSymmetry
INVARIANTS
  TypeOK
  AcknowledgedIsApplied
  OfflineIsNoAnswer
  NothingLeftBehind
CHECK_DEADLOCK FALSE
