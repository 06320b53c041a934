SPECIFICATION FairSpec
CONSTANTS
  t1 = t1
  t2 = t2
  Tasks = {t1, t2}
  MaxCalls = 3
  MaxNonce = 2
  Faults = {"timeout", "dropped"}
  MaxLockouts = 1
INVARIANTS
  TypeOK
  NegotiationBudget
  ResponsesReleased
  PasswordConfined
  CountNeverAhead
  SerialCallsReuseNonce
PROPERTIES
  KeepsContract
  CallsEnd
CHECK_DEADLOCK FALSE
