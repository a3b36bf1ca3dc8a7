SPECIFICATION Spec
CONSTANTS
  th1 = th1  t1 = t1  t2 = t2  w1 = w1  w2 = w2  NoTurn = NoTurn
  Threads = {th1}
  Turns = {t1}
  Workers = {w1, w2}
  ThreadOf <- OneTurn
  Streams = {t1}
  Overlapping = TRUE
  Faults = {"db", "publish", "broker", "setup", "graph", "crash", "disconnect", "teardown", "subscribe", "ambiguous", "duplicate"}
  MaxSources = 0
SYMMETRY WorkerSymmetry
INVARIANTS TypeOK RelayIsComplete
CHECK_DEADLOCK FALSE
