SPECIFICATION Spec
CONSTANTS
  th1 = th1  t1 = t1  t2 = t2  w1 = w1  w2 = w2  NoTurn = NoTurn
  Threads = {th1}
  Turns = {t1, t2}
  Workers = {w1, w2}
  ThreadOf <- OneThread
  Streams = {t1}
  Overlapping = FALSE
  Faults = {"db", "publish", "broker", "setup", "graph", "crash", "disconnect"}
  MaxSources = 1
INVARIANTS RowHeldDuringTurn PublishedOutcomeHolds ReportHasItsSources EachTurnEndsOnce
PROPERTIES LifecycleSpec
CHECK_DEADLOCK FALSE
