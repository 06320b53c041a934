SPECIFICATION FairSpec
CONSTANTS
  t1 = t1
  t2 = t2
  Tasks = {t1, t2}
  Macs = {"m1", "m2"}
  Addresses = {1, 2}
  Calls <- SomeCalls
INVARIANTS
  TypeOK
  ReportsAreFresh
  EveryAnswerReported
PROPERTIES
  OnlyNamedDeviceMoves
  CallsEnd
CHECK_DEADLOCK FALSE
