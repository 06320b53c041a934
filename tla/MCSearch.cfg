SPECIFICATION FairSpec
CONSTANTS
  t1 = t1
  t2 = t2
  Tasks = {t1, t2}
  Kinds = {"recordings", "logs"}
  MaxSearches = 2
  Capacity = 1
  Faults = {"timeout", "cancelled"}
INVARIANTS
  TypeOK
  HandlesReturned
PROPERTIES
  KeepsLease
  SearchesEnd
CHECK_DEADLOCK FALSE
