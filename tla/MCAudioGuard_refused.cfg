SPECIFICATION Spec
CONSTANTS
  t1 = t1
  t2 = t2
  Tasks = {t1}
  Devices <- LorexDevices
  MaxCalls = 2
  MaxRefused = 3
INVARIANT NeverSentUnforced
CHECK_DEADLOCK FALSE
