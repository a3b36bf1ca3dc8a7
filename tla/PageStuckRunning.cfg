SPECIFICATION Spec
CONSTANTS
  Sessions = {s1}
  Runs = {r1}
  MaxToken = 2
  MaxDeletes = 1
  NoThread = NoThread
INVARIANTS RunningIsServed
CHECK_DEADLOCK FALSE
