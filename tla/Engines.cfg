SPECIFICATION MCSpec
CONSTANTS
  Parts = {"jobs", "leases", "workflows", "stream", "history", "index", "sqliteStream", "conn", "listen"}
  LiveAtFirst = {1, 2}
  Inserted = {3}
  UniqueJobs = {1, 3}
  Backends = {"b1", "b2"}
  Callers <- SomeCallers
  MaxRestores = 2
  MaxClock = 5
  LeaseTTL = 3
  Grace = 0
  ClientTTL = 2
  Patience = 1
  Stories = {"race", "restart"}
  Starts = {1, 2, 3}
  MaxFence = 2
  MaxAttempts = 2
  MaxTime = 7
  PgWorkflows <- SomeWorkflows
  PgSessions = {"s1", "s2"}
  PgLeader = "leader"
  Pumpers = {"l1", "l2"}
  PumpLimit = 1
  PageLimit = 2
  MaxXid = 2
  MaxStreamSeq = 3
  MaxSeeks = 1
  MaxPumps = 3
  HistoryJobs = {1}
  HistoryLeaders = {"l1"}
  Day = 2
  Keep = 1
  Ahead = 1
  MaxHour = 6
  MaxPasses = 2
  Indexers = {"l1", "l2"}
  OldPartitions = {1}
  NewPartition = 2
  Revalidates = {FALSE}
  MaxIndexFaults = 0
  MaxMigrations = 1
  StreamLeaders = {"l1", "l2"}
  Topics = {"t", "u"}
  Patterns <- TwoPatterns
  BatchLimit = 2
  ReadPage = 2
  MaxEvents = 3
  MaxMoves = 1
  MaxRounds = 3
  Writers = {"a", "n", "d", "s"}
  Procs = {"p", "q"}
  ProcOf <- SomeProcs
  KindOf <- SomeKinds
  Within <- SomeWithin
  NoWriter = "none"
  MaxWrites = 2
  MaxTries = 1
  Channels = {"a", "b"}
  Listened = {"a"}
  ListenPage = 2
  NoteRetention = 1
  MaxNotes = 3
  MaxNoteTime = 2
  MaxOpens = 2
INVARIANTS EnginesSound SqliteStreamInOrder HeardInOrder
PROPERTIES PgJobsSound LeasesSound HistorySound
CHECK_DEADLOCK FALSE
