SPECIFICATION Spec
CONSTANTS
  j1 = j1
  j2 = j2
  k1 = k1
  u1 = u1
  NoClient = NoClient
  NoKey = NoKey
  Clients = {c1}
  Jobs <- PairJobs
  OrderingKey <- OneOrderingKey
  UniqueKey <- OwnUniqueKey
  Priority <- SamePriority
  AttemptChoices = {2}
  Delays = {0, 1}
  TTLs = {0}
  ClientTTL = 1
  LeaseTTL = 1
  Grace = 1
  StuckAfter = 0
  ClaimLimit = 2
  WakeLimit = 1
  MaxNow = 1
  MaxFence = 2
  MaxSeq = 2
INVARIANTS OneRunningPerKey OldestRunsFirst
PROPERTIES WakeHonored
CHECK_DEADLOCK FALSE
SYMMETRY JobClientSymmetry
