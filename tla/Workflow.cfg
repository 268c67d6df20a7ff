SPECIFICATION MCFairSpec
CONSTANTS
  Parts = {"sqlite", "pg"}
  N = 4
  Graphs <- AllGraphs
  FlushSize = 2
  MaxOverrides = 2
  PgWorkflows <- OneAfterTwo
  PgSessions = {"s1", "s2"}
  PgLeader = "leader"
INVARIANTS WorkflowSound
PROPERTIES WorkflowSteps WorkflowsComplete
CHECK_DEADLOCK FALSE
