------------------------------ MODULE MCEngines ------------------------------
(***************************************************************************)
(* The engines' own concurrency, for TLC: PostgreSQL's statements on jobs,  *)
(* leases, workflows, streams, history partitions and their indexes, and    *)
(* SQLite's connections, notifications and streams.  A behavior is of the   *)
(* part it starts with, and leaves the others in a first state of theirs.   *)
(***************************************************************************)
EXTENDS PgJobs, PgLeases, PgWorkflow, PgHistory, PgHistoryIndex, Streams,
        SqliteConn, SqliteListen

CONSTANT Parts
VARIABLE part

MCVars == <<part, pjVars, leaseVars, pgVars, streamVars, historyVars, indexVars,
            sqliteStreamVars, connVars, listenVars>>

\* The operations called at once.
SomeCallers == {
    {"claim", "finalize", "wake"}, {"claim", "finalize", "insert", "retry"},
    {"claim", "finalize", "retry", "delete"}, {"claim", "cancel", "retry"}}

\* A job after two; after the first of two; after a group of one, with a job
\* after it in turn; and a job that is retried, with one after it.
Dep(j, on, policy, g) == [job |-> j, on |-> on, policy |-> policy, group |-> g]
SomeWorkflows == {
    [n |-> 3, retries |-> 0, edges |-> {Dep(3, 1, "cancel", 0), Dep(3, 2, "cancel", 0)}],
    [n |-> 3, retries |-> 0, edges |-> {Dep(3, 1, "any_cancel", 1), Dep(3, 2, "any_cancel", 1)}],
    [n |-> 3, retries |-> 0, edges |-> {Dep(2, 1, "any_cancel", 1), Dep(3, 2, "cancel", 0)}],
    [n |-> 2, retries |-> 1, edges |-> {Dep(2, 1, "cancel", 0)}]}

\* The code of a calls an operation of its own, n, beside another goroutine of
\* its process, d, and a statement of another process.
SomeProcs == [t \in Writers |-> IF t = "s" THEN "q" ELSE "p"]
SomeKinds == [t \in Writers |-> CASE t = "a" -> "caller" [] t = "s" -> "statement" [] OTHER -> "driver"]
SomeWithin == [t \in Writers |-> IF t = "n" THEN "a" ELSE NoWriter]

TwoPatterns == {{"t"}, {"t", "u"}}

MCInit ==
    /\ part \in Parts
    /\ PgJobsInit /\ LeaseInit /\ PgInit /\ StreamInit /\ HistoryInit /\ IndexInit
    /\ SqliteStreamInit /\ ConnInit /\ ListenInit
    \* one first state for the other parts
    /\ part # "jobs" => called = {"claim", "cancel", "retry"}
    /\ part # "leases" => story = "race"
    /\ part # "workflows" => pgWorkflow.retries = 1
    /\ part # "sqliteStream" => consumer.pattern = {"t"}

Others(p) ==
    /\ UNCHANGED part
    /\ p # "jobs" => UNCHANGED pjVars
    /\ p # "leases" => UNCHANGED leaseVars
    /\ p # "workflows" => UNCHANGED pgVars
    /\ p # "stream" => UNCHANGED streamVars
    /\ p # "history" => UNCHANGED historyVars
    /\ p # "index" => UNCHANGED indexVars
    /\ p # "sqliteStream" => UNCHANGED sqliteStreamVars
    /\ p # "conn" => UNCHANGED connVars
    /\ p # "listen" => UNCHANGED listenVars

\* The calls with a delete among them see one claim or insert fewer.
FewerWithDelete == "delete" \in called => clock' < MaxClock

MCNext ==
    \/ part = "jobs" /\ PgJobsNext /\ FewerWithDelete /\ Others("jobs")
    \/ part = "leases" /\ LeaseNext /\ Others("leases")
    \/ part = "workflows" /\ PgNext /\ Others("workflows")
    \/ part = "stream" /\ StreamNext /\ Others("stream")
    \/ part = "history" /\ HistoryNext /\ Others("history")
    \/ part = "index" /\ IndexNext /\ Others("index")
    \/ part = "sqliteStream" /\ SqliteStreamNext /\ Others("sqliteStream")
    \/ part = "conn" /\ ConnNext /\ Others("conn")
    \/ part = "listen" /\ ListenNext /\ Others("listen")

MCSpec == MCInit /\ [][MCNext]_MCVars

-----------------------------------------------------------------------------
\* A delete that finds nothing finds no job, unless it was moved twice meanwhile
\* (PgJobs), a batch closes once, when it is over, and a job of it runs when its
\* dependencies let it (PgWorkflow), and a consumer gets each event once, past
\* none and after those that come before it (Streams): jobs.go, workflow.go,
\* flow.go and stream.go of PostgreSQL.  On SQLite, no write is lost or made
\* twice and no lock is left behind (SqliteConn): conn.go.
EnginesSound ==
    /\ part = "jobs" => DeleteKnows
    /\ part = "workflows" => PgWorkflowSound
    /\ part = "stream" => DeliveredInOrder
    /\ part = "conn" => WritesSound

\* History goes with its tags and not before its time (PgHistory), and no index
\* is built where a partition is dropped or added (PgHistoryIndex): history.go.
HistorySound ==
    [][/\ part = "history" => HistoryKept
       /\ part = "index" => IndexSound']_MCVars
=============================================================================
