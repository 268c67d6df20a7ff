SPECIFICATION MCSpec
CONSTANTS
  Parts = {"jobs", "inserts", "build", "messages", "listing"}
  j1 = j1
  j2 = j2
  k1 = k1
  u1 = u1
  NoClient = NoClient
  NoKey = NoKey
  Clients = {c1}
  Jobs <- PairJobs
  OrderingKey <- NoKeys
  UniqueKey <- OneUniqueKey
  Priority <- SamePriority
  AttemptChoices = {1, 2}
  Delays = {0, 1}
  TTLs = {0}
  ClientTTL = 1
  LeaseTTL = 1
  Grace = 1
  StuckAfter = 0
  ClaimLimit = 2
  WakeLimit = 1
  MaxNow = 1
  MaxFence = 1
  MaxSeq = 3
  Callers = {"c1", "c2"}
  InsertLists <- SomeLists
  ConfigAttempts = 3
  CopyThreshold = 1
  MaxStored = 3
  StepChoices <- SomeSteps
  MaxSteps = 3
  MaxGroups = 2
  Subs <- TwoSubs
  SubPatterns <- SomePatterns
  Topics <- SomeTopics
  DedupKeys = {"k", "none"}
  NoDedup = "none"
  MaxPublishes = 2
  MaxUpserts = 2
  MaxReplays = 1
  ListIds = {1, 2, 3}
  ListStarts <- SomeStarts
  PageSizes = {1, 2}
  Queries <- SomeQueries
  MaxWalkPages = 2
  MaxListMoves = 1
INVARIANTS UniqueWhileLive StoredAsAsked
CHECK_DEADLOCK FALSE
