SPECIFICATION AgentsSpec
CONSTANTS
  NoDoc = NoDoc
  Docs = {file, url}
  Files = {file}
  Workers = {w1, w2}
  EarlyDelete = FALSE
  Faults = {"storage", "broker", "setup", "content", "crash", "duplicate"}
  Tools = {"think_tool", "ConductResearch", "ResearchComplete"}
  MaxCalls = 3
  MaxIterations = 3
  MaxConcurrent = 2
  MaxToolRounds = 2
  MayFail = TRUE
INVARIANTS AgentsTypeOK ReadyIsIndexed FilesAreNamed IngestHasOwner IngestedOnce
INVARIANTS SpendingIsCapped EveryCallIsResolved NotesMatchSources
PROPERTIES IngestEnds ResearchEnds
CHECK_DEADLOCK FALSE
