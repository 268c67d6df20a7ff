SPECIFICATION Spec
CONSTANTS
  j1 = j1
  j2 = j2
  k1 = k1
  u1 = u1
  NoClient = NoClient
  NoKey = NoKey
  Clients = {c1, c2}
  Jobs <- SoloJobs
  OrderingKey <- NoKeys
  UniqueKey <- NoKeys
  Priority <- SamePriority
  AttemptChoices = {2}
  Delays = {0}
  TTLs = {0, 1}
  ClientTTL = 2
  LeaseTTL = 1
  Grace = 1
  StuckAfter = 1
  ClaimLimit = 1
  WakeLimit = 1
  MaxNow = 2
  MaxFence = 3
  MaxSeq = 2
SYMMETRY ClientSymmetry
INVARIANTS ClaimsSound AtMostOneResult
PROPERTIES FinishedIsFinal KeepsLedger
CHECK_DEADLOCK FALSE
