SPECIFICATION ServicesSpec
CONSTANTS
  MaxTurns = 2
  Plans <- ModelPlans
  MinWords = 2
  MaxWords = 3
  MaxSections = 2
  Faults = {"llm", "db", "redis", "broker", "crash"}
  Searches = {s1, s2}
  Tools = {"tavily", "reddit"}
  Pages = {p1, p2}
  MaxItems = 3
  MaxTokens = 3
  MaxResults = 3
  FailMax = 2
  Requests = {r1, r2}
  MaxGenerations = 4
  MaxRenames = 2
  MaxFetches = 2
  MaxToggles = 2
SYMMETRY ServicesSymmetry
INVARIANTS ServicesTypeOK ReportIsWhole FindingsCountedOnce StoresAgree ClarifyCarriesQuestion
INVARIANTS TripShedsLoad OutputMatchesSources HerdIsBounded
PROPERTIES  SearchSendsFreshToken NewestListStays
CHECK_DEADLOCK FALSE
