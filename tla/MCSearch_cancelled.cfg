SPECIFICATION Spec
CONSTANTS
  t1 = t1
  t2 = t2
  Tasks = {t1}
  Kinds = {"recordings"}
  MaxSearches = 1
  Capacity = 1
  Faults = {"cancelled"}
PROPERTY AlwaysCleanedUp
CHECK_DEADLOCK FALSE
