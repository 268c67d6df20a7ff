SPECIFICATION MCFairSpec
CONSTANTS
  Parts = {"jobs", "write", "client", "await", "follow", "index", "listen"}
  a1 = a1
  b1 = b1
  j1 = j1
  j2 = j2
  k1 = k1
  u1 = u1
  NoClient = NoClient
  NoKey = NoKey
  Clients = {c1}
  Jobs <- SoloJobs
  OrderingKey <- NoKeys
  UniqueKey <- NoKeys
  Priority <- SamePriority
  AttemptChoices = {2}
  Delays = {0}
  TTLs = {0}
  ClientTTL = 2
  LeaseTTL = 1
  Grace = 1
  StuckAfter = 0
  ClaimLimit = 1
  WakeLimit = 1
  MaxNow = 3
  MaxFence = 2
  MaxSeq = 1
  Attempts = {a1, b1}
  JobOf <- OfTwoJobs
  FenceOf <- FirstFences
  TxWorkers = {}
  WriteResults = {"completed", "retryable"}
  DeleteCompleted = {j2}
  MaxBatch = 2
  MaxWriteFaults = 0
  ClientJobs = {"j1"}
  MaxAttempts = 2
  Returns = {"failed"}
  MaxWorkers = 1
  MaxIDs = 2
  MaxClaims = 1
  Waiters = {"w1", "w2"}
  Signalers = {"finalizer"}
  ReadLimit = 2
  MaxRun = 2
  MaxLength = 4
  Indexers = {"l1"}
  OldPartitions = {1}
  NewPartition = 2
  Revalidates = {FALSE}
  MaxIndexFaults = 1
  MaxMigrations = 1
  Channels = {"a", "b"}
  Listened = {"a"}
  ListenPage = 1
  NoteRetention = 1
  MaxNotes = 2
  MaxNoteTime = 2
  MaxOpens = 2
PROPERTIES LostJobsRecovered HeldDelaysOnlyItself ClientEnds CatchesUp
CHECK_DEADLOCK FALSE
