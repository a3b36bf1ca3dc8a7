SPECIFICATION FairSpec
CONSTANTS
  Sessions = {s1}
  Runs = {r1}
  MaxToken = 2
  MaxDeletes = 1
  NoThread = NoThread
INVARIANTS TypeOK ScreenShowsFocus SingleDriver CompleteShowsReport
PROPERTIES PollStops
CHECK_DEADLOCK FALSE
