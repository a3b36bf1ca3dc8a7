SPECIFICATION Spec
CONSTANTS
  th1 = th1  t1 = t1  t2 = t2  w1 = w1  w2 = w2  NoTurn = NoTurn
  Threads = {th1}
  Turns = {t1}
  Workers = {w1, w2}
  ThreadOf <- OneTurn
  Streams = {t1}
  Overlapping = FALSE
  Faults = {"subscribe"}
  MaxSources = 1
PROPERTIES MarkFailedKeepsSettled
CHECK_DEADLOCK FALSE
