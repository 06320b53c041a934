SPECIFICATION Spec
CONSTANTS
  t1 = t1
  t2 = t2
  Tasks = {t1}
  MaxCalls = 2
  MaxNonce = 2
  Faults = {}
  MaxLockouts = 1
INVARIANTS
  SwitchMeansNoDigest
CHECK_DEADLOCK FALSE
