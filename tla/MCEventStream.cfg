SPECIFICATION StreamSpec
CONSTANTS
  t1 = t1
  t2 = t2
  t3 = t3
  s1 = s1
  Tasks = {t1, t2, t3}
  Streams = {s1}
  MaxSessions = 3
  MaxCloses = 3
  Cancels = TRUE
  MaxStreams = 2
  MaxEvents = 2
INVARIANTS
  StreamTypeOK
  SessionsAccountedFor
  ReopensAfterClose
  StreamEndsClean
  EventsInOrder
CHECK_DEADLOCK FALSE
