SPECIFICATION TracesSpec
CONSTANTS
  LastIndex = 1
  MaxEvents = 4
  MaxChunks = 5
  Coordinates <- MCCoordinates
  Requests <- MCRequests
  Watched <- MCWatched
  Events <- MCEvents
  Failures <- MCFailures
  Scripted <- MCScripted
  Interval = 2
  RequestDepth = 2
  Horizons = {0, 1, 4}
  Animation = 1
  LastInstant = 5
  MaxRequests = 3
  Policies <- MCPolicies
  TokenBytes = 4
  Prefix = 5
  Placeholder = 6
  ReplySize = 2
  Batches <- MCBatches
  BudgetTurns = 6
  Machines <- MCMachines
  Trees <- MCTrees
  NewNames = {"helper"}
  Entries <- MCEntries
  SourceTexts <- MCTexts
  MaxEdits = 2
  Files <- MCFiles
  Releases <- MCReleases
  MaxBumps = 3
  HeaderFlaws = {"type", "scope", "subject", "length"}
  ProseRunMax = 2
  MaxLines = 6
  Roots <- TwoRoots
  StartRun <- FirstEvent
  Notes <- SomeNotes
  Results = {"m1"}
  MaxRecords = 4
  SetRecords = 3
  Corpora <- SomeCorpora
  IdOrder <- IdsInOrder
  Kebab = {"a", "b"}
  Names = {"repo", "missing"}
  Fixtures = {"repo"}
  MaxLine = 2
  MaxOutput = 4
  MarkBytes = 1
  MaxMatches = 2
  MaxPreview = 2
  MaxFile = 6
  ReadFill = 2
  MaxEntries = 1
  NoFile = NoFile
  Root = "r"
  Ancestors <- MCAncestors
  Parent <- MCParent
  MaxContext = 7
  Worlds <- MCWorlds
  Unknown = Unknown
CHECK_DEADLOCK FALSE
INVARIANT
  CrashCostsOnlyTheTornLine
