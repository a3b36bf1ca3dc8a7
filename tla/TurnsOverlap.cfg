SPECIFICATION Spec
CONSTANTS
  th1 = th1  t1 = t1  t2 = t2  w1 = w1  w2 = w2  NoTurn = NoTurn
  Threads = {th1}
  Turns = {t1, t2}
  Workers = {w1, w2}
  ThreadOf <- OneThread
  Streams = {t1}
  Overlapping = TRUE
  Faults = {"graph", "broker", "ambiguous", "subscribe"}
  MaxSources = 0
SYMMETRY WorkerSymmetry
INVARIANTS InFlightHasOwner NothingRelayedAfterTerminal WaitingStreamIsServed
CHECK_DEADLOCK FALSE
