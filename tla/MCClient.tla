------------------------------ MODULE MCClient ------------------------------
(***************************************************************************)
(* The parts of a client process, for TLC: its life, Await, the watch on   *)
(* stuck workers, the notifier, the settle retrier, the queue control, the *)
(* write of results, the steps and logs of a job and the limits its claims *)
(* keep.  A behavior is of the part it starts with, and leaves the others  *)
(* in a first state of theirs.                                             *)
(***************************************************************************)
EXTENDS Client, Await, StuckWatch, Notifier, SettleRetrier, QueueControl,
        FinalizeWrite, JobSteps, FlowControl, JobLogs, LogFollow

CONSTANTS Parts, j1, a1, a2
VARIABLE part

MCVars == <<part, clientVars, awaitVars, stuckVars, notifierVars, retrierVars, queueVars,
            writeVars, stepVars, flowVars, logVars, followVars, retentionVars>>

\* Two attempts of one job, the first of which completes it in a transaction.
OfOneJob == a1 :> j1 @@ a2 :> j1
Fences == a1 :> 1 @@ a2 :> 2
ThreeKinds == <<"pool", "tx", "complete">>
\* Jobs 1 and 2 share a partition key.
TwoPartitions == [j \in FlowJobs |-> IF j = 3 THEN "b" ELSE "a"]
SomeLimits == {
    [global |-> 1, rate |-> 0, burst |-> 0, partition |-> 0],
    [global |-> 2, rate |-> 1, burst |-> 1, partition |-> 1],
    [global |-> 0, rate |-> 1, burst |-> 2, partition |-> 0]}
TwoThenOne == <<2, 1>>

MCInit ==
    /\ part \in Parts
    /\ ClientInit /\ AwaitInit /\ StuckInit /\ NotifierInit /\ RetrierInit /\ QueueInit
    /\ WriteInit /\ StepInit /\ FlowInit /\ LogInit /\ FollowInit /\ RetentionInit
    \* one first state for the other parts
    /\ part # "queues" => producers = [q \in Configured |-> 1]
    /\ part # "flow" => engine = "pg" /\ limits.global = 1
    /\ part # "log" => logMode = "store" /\ logLimit = 0
    /\ part # "follow" => watch.state = "on"

Others(p) ==
    /\ UNCHANGED part
    /\ p # "client" => UNCHANGED clientVars
    /\ p # "await" => UNCHANGED awaitVars
    /\ p # "stuck" => UNCHANGED stuckVars
    /\ p # "notifier" => UNCHANGED notifierVars
    /\ p # "retrier" => UNCHANGED retrierVars
    /\ p # "queues" => UNCHANGED queueVars
    /\ p # "write" => UNCHANGED writeVars
    /\ p # "steps" => UNCHANGED stepVars
    /\ p # "flow" => UNCHANGED flowVars
    /\ p # "log" => UNCHANGED logVars
    /\ p # "follow" => UNCHANGED followVars
    /\ p # "retention" => UNCHANGED retentionVars

MCNext ==
    \/ part = "client" /\ ClientNext /\ Others("client")
    \/ part = "await" /\ AwaitNext /\ Others("await")
    \/ part = "stuck" /\ StuckNext /\ Others("stuck")
    \/ part = "notifier" /\ NotifierNext /\ Others("notifier")
    \/ part = "retrier" /\ RetrierNext /\ Others("retrier")
    \/ part = "queues" /\ QueueNext /\ Others("queues")
    \/ part = "write" /\ WriteNext /\ Others("write")
    \/ part = "steps" /\ StepNext /\ Others("steps")
    \/ part = "flow" /\ FlowNext /\ Others("flow")
    \/ part = "log" /\ LogNext /\ Others("log")
    \/ part = "follow" /\ FollowNext /\ Others("follow")
    \/ part = "retention" /\ RetentionNext /\ Others("retention")

MCSpec == MCInit /\ [][MCNext]_MCVars

-----------------------------------------------------------------------------
\* Stop loses no claim, every running attempt is listed once (Client), the
\* waiters of a job are those who still wait (Await), and no mark waits without
\* a flush to come (Notifier): client.go, control.go, await.go and notifier.go.
ClientSound == StopLosesNothing /\ RunningListed /\ WaitersListed /\ NotifierSound

\* An attempt's event is true of its row and what it finished is followed up
\* (FinalizeWrite), and a batch given up on is the leader's to settle
\* (SettleRetrier): finalizer.go and settleretry.go.
ResultsSound ==
    /\ part = "write" => WriteTypeOK /\ CompletedIsTrue /\ OnlyStopLeavesRunning /\ FinishedFollowedUp
    /\ part = "retrier" => GivenUpIsKept

\* The log of an attempt is complete or says what it lacks (JobLogs), who
\* follows a job's logs has one unbroken piece of one execution's log
\* (LogFollow), and only expired logs are pruned (JobLogs): logs.go,
\* logs_follow.go and logs_retention.go.
LogsSound == [][/\ part = "log" => LogStep
                /\ part = "follow" => ViewUnbroken'
                /\ part = "retention" => PruneStep]_MCVars
=============================================================================
