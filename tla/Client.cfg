SPECIFICATION MCSpec
CONSTANTS
  Parts = {"client", "await", "stuck", "notifier", "retrier", "queues", "write", "steps", "flow", "log", "follow", "retention"}
  ClientJobs = {"j1"}
  MaxAttempts = 2
  Returns = {"snoozed", "failed"}
  MaxWorkers = 2
  MaxIDs = 2
  MaxClaims = 2
  Waiters = {"w1", "w2", "w3"}
  Signalers = {"finalizer"}
  Names = {"q", "t"}
  Flushers = {"f1", "f2"}
  Timers = {1, 2, 3}
  NoTimer = 0
  Batches = {"x", "y", "z"}
  MaxHeld = 2
  Doublings = 1
  MaxProgress = 3
  Queues = {"a"}
  Configured = {"a"}
  Callers = {"c1"}
  Listener = "l"
  NoQueue = "none"
  MaxChanges = 2
  MaxRenewals = 1
  MaxAdds = 1
  j1 = j1
  a1 = a1
  a2 = a2
  Attempts = {a1, a2}
  JobOf <- OfOneJob
  FenceOf <- Fences
  TxWorkers = {a1}
  WriteResults = {"completed", "discarded", "retryable"}
  DeleteCompleted = {}
  MaxBatch = 2
  MaxWriteFaults = 2
  Kinds <- ThreeKinds
  Items = 2
  StepAttempts = {1, 2, 3}
  FlowJobs = {1, 2, 3}
  PartitionOf <- TwoPartitions
  Claimers = {"c1", "c2"}
  Limits <- SomeLimits
  Engines = {"pg", "sqlite"}
  Part = 2
  MaxTicks = 3
  MaxSets = 1
  LogModes = {"store", "kept"}
  LogLimits = {0, 2, 3}
  Loggers = {"g1", "g2"}
  StorePending = 2
  MaxLines = 5
  ReadLimit = 2
  MaxRun = 2
  MaxLength = 4
  LogJobs = {1, 2}
  Maintainers = {"m1"}
  MaxRuns = 1
  GracePeriod = 1
  Retention = 1
  BatchSize = 1
  MaxFences <- TwoThenOne
  MaxNow = 1
INVARIANTS ClientSound ResultsSound FollowsQueue StepsExact
PROPERTIES StuckSound LimitsHold LogsSound
CHECK_DEADLOCK FALSE
