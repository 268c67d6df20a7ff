------------------------------ MODULE Workflow ------------------------------
(***************************************************************************)
(* One workflow in hopper's SQLite engine: its jobs, the edges between them *)
(* (hopper_job_deps), the results kept for dependents (hopper_job_results), *)
(* the batch row that counts the jobs down (hopper_batches), and what every *)
(* write that finishes jobs does to them, the tail of finalize.go.          *)
(*                                                                          *)
(* Which claim a result belongs to is JobStore's matter.  Here a job that   *)
(* runs is one whose next result is applied.  Waiting stands for available, *)
(* scheduled and retryable.                                                 *)
(***************************************************************************)
EXTENDS Integers, FiniteSets

CONSTANTS
    N,           \* the workflow's jobs are 1..N, in insertion order
    Graphs,      \* the WorkflowInsertParams.Deps that can be asked for
    FlushSize,   \* bound on the results one JobFinalizeMany writes
    MaxOverrides \* bound on JobRetry, JobDelete of history and requeueing

Jobs == 1..N
Failed == {"canceled", "discarded"}
Terminal == {"completed"} \cup Failed
Live == {"pending", "waiting", "running"}

Policies == {"cancel", "ignore", "any_cancel", "any_ignore"}
Edge == [job : Jobs, on : Jobs, policy : Policies, anyOf : Nat, reads : BOOLEAN]

ASSUME WorkflowAssumption ==
    /\ N \in Nat \ {0}
    /\ Graphs \subseteq SUBSET Edge
    /\ FlushSize \in Nat \ {0}
    /\ MaxOverrides \in Nat

VARIABLES
    state,      \* of a live job, or the outcome of a finished one
    archived,   \* the finished jobs with a row in hopper_job_history
    edges,      \* hopper_job_deps
    results,    \* hopper_job_results, "none" without a row
    batch,      \* the row of hopper_batches
    callbacks,  \* callback jobs inserted, by kind
    overrides

workflowVars == <<state, archived, edges, results, batch, callbacks, overrides>>

IsLive(j) == state[j] \in Live
LiveJobs == {j \in Jobs : IsLive(j)}

Batch == [pending : Int, failed : Int, completed : BOOLEAN]

WorkflowTypeOK ==
    /\ state \in [Jobs -> {"absent"} \cup Live \cup Terminal]
    /\ archived \subseteq {j \in Jobs : state[j] \in Terminal}
    /\ edges \in SUBSET Edge
    /\ results \in [Jobs -> {"none"} \cup Terminal]
    /\ batch \in Batch
    /\ callbacks \in [{"success", "failure", "complete"} -> Nat]
    /\ overrides \in 0..MaxOverrides

WorkflowInit ==
    /\ state = [j \in Jobs |-> "absent"]
    /\ archived = {}
    /\ edges = {}
    /\ results = [j \in Jobs |-> "none"]
    /\ batch = [pending |-> 0, failed |-> 0, completed |-> FALSE]
    /\ callbacks = [k \in {"success", "failure", "complete"} |-> 0]
    /\ overrides = 0

(***************************************************************************)
(* InsertWorkflow: a step depends on steps added before it, an edge is in   *)
(* one group and a group has one policy.  A group's policies are its own.   *)
(***************************************************************************)
CheckDependencies(deps) ==
    /\ \A d \in deps : d.on < d.job /\ (d.anyOf = 0) = (d.policy \in {"cancel", "ignore"})
    /\ \A d, f \in deps : d.job = f.job =>
        /\ d.on = f.on => d = f
        /\ d.anyOf = f.anyOf /\ d.anyOf # 0 => d.policy = f.policy

WorkflowInsert ==
    /\ \A j \in Jobs : state[j] = "absent"
    /\ \E deps \in Graphs :
        /\ CheckDependencies(deps)
        /\ edges' = deps
        /\ state' = [j \in Jobs |-> IF \E d \in deps : d.job = j THEN "pending" ELSE "waiting"]
    /\ batch' = [batch EXCEPT !.pending = N]
    /\ UNCHANGED <<archived, results, callbacks, overrides>>

Claim(j) ==
    /\ state[j] = "waiting"
    /\ state' = [state EXCEPT ![j] = "running"]
    /\ UNCHANGED <<archived, edges, results, batch, callbacks, overrides>>

-----------------------------------------------------------------------------
(***************************************************************************)
(* The tail.  Its parameters are the edges of an any-of group and the jobs  *)
(* and results at the point of the tail where the code asks: live is the    *)
(* set of jobs still in the live table, res the results recorded so far.    *)
(***************************************************************************)

\* Mutant: any job of the group that has left the live table satisfies it.
SatisfiedByAny(s, live, res) == s.on \notin live

\* anyOfSatisfiedSQL: a job gone without a result counts as completed.
Satisfied(s, live, res) == s.on \notin live /\ res[s.on] \in {"none", "completed"}

Group(e) == {s \in edges : s.job = e.job /\ s.anyOf = e.anyOf}

\* anyOfExhausted
Exhausted(e, live, res) ==
    \A s \in Group(e) : s.on \notin live /\ ~Satisfied(s, live, res)

\* Mutant: a group none of whose jobs completed holds whatever its policy.
ReadyOnceOneCompleted(j, live, res) ==
    \A e \in {d \in edges : d.job = j} :
        IF e.anyOf = 0 THEN e.on \notin live ELSE \E s \in Group(e) : Satisfied(s, live, res)

\* anyOfReadySQL and the condition before it in promoteIfReady
Ready(j, live, res) ==
    \A e \in {d \in edges : d.job = j} :
        IF e.anyOf = 0
            THEN e.on \notin live
            ELSE e.policy = "any_cancel" \/ e.on \in live
                    => \E s \in Group(e) : Satisfied(s, live, res)

\* Mutant: results are recorded for dependents that read them alone.
RecordedForReaders(j) == \E e \in edges : e.on = j /\ e.reads

\* recordResult: for a dependent that reads it or has it in a group
Recorded(j) == \E e \in edges : e.on = j /\ (e.reads \/ e.anyOf # 0)
Record(done, outcome) ==
    [j \in Jobs |-> IF j \in done /\ Recorded(j) THEN outcome[j] ELSE results[j]]

\* What the walk down the cancel edges has done once it has reached the jobs
\* in seen: it has canceled (cancelDependent) those that were pending.
Canceled(done, seen) == {j \in Jobs : j \in seen \ done /\ state[j] = "pending"}
Outcome(done, out, seen) ==
    [j \in Jobs |-> IF j \in done THEN out[j]
                    ELSE IF j \in Canceled(done, seen) THEN "canceled" ELSE state[j]]

\* The dependents not seen yet that the walk reaches next.  It goes on through
\* one that is not pending by its cancel edges only, since it did not fail.
Reach(done, out, seen) ==
    LET after == Outcome(done, out, seen)
        gone == done \cup Canceled(done, seen)
        failed == {j \in gone : after[j] \in Failed}
    IN  {e.job : e \in {d \in edges :
            /\ d.job \notin seen
            /\ \/ d.policy = "cancel" /\ d.on \in failed \cup seen
               \/ d.policy = "any_cancel" /\ d.on \in failed
                  /\ Exhausted(d, LiveJobs \ gone, Record(gone, after))}}

\* Mutant: the direct dependents of a failed job and no more.
CascadeOnce(done, out) == Reach(done, out, {})

\* The walk to its end: the least set of dependents from which it reaches no
\* other.
Cascade(done, out) ==
    LET behind == {e.job : e \in edges}
    IN  {j \in behind : \A seen \in SUBSET behind : Reach(done, out, seen) = {} => j \in seen}

\* Mutants: the last failures are not counted; a completed batch counts on;
\* a batch with nothing left stays open.
CountedBeforeLast(b, n, failed) ==
    IF b.completed THEN b
    ELSE IF b.pending - n > 0
        THEN [b EXCEPT !.pending = @ - n, !.failed = @ + failed]
        ELSE [pending |-> 0, failed |-> b.failed, completed |-> TRUE]
CountedAfterEnd(b, n, failed) ==
    IF b.pending - n > 0
        THEN [b EXCEPT !.pending = @ - n, !.failed = @ + failed]
        ELSE [pending |-> 0, failed |-> b.failed + failed, completed |-> TRUE]
CountedLeftOpen(b, n, failed) ==
    IF b.completed THEN b
    ELSE IF b.pending - n >= 0
        THEN [b EXCEPT !.pending = @ - n, !.failed = @ + failed]
        ELSE [pending |-> 0, failed |-> b.failed + failed, completed |-> TRUE]

\* countBatch: a completed batch counts nothing more.
Counted(b, n, failed) ==
    IF b.completed THEN b
    ELSE IF b.pending - n > 0
        THEN [b EXCEPT !.pending = @ - n, !.failed = @ + failed]
        ELSE [pending |-> 0, failed |-> b.failed + failed, completed |-> TRUE]

\* countBatch's end: the results go, and the callbacks are inserted.
Completes(after) == after.completed /\ ~batch.completed
InsertCallbacks(after) ==
    IF ~Completes(after) THEN callbacks
    ELSE LET outcome == IF after.failed > 0 THEN "failure" ELSE "success"
         IN  [callbacks EXCEPT ![outcome] = @ + 1, !["complete"] = @ + 1]

\* finish and tail: the jobs in done end with the outcomes out, those in keep
\* with a row in history, and so do the dependents canceled with them.
Finish(done, out, keep) ==
    LET seen == Cascade(done, out)
        after == Outcome(done, out, seen)
        cascaded == Canceled(done, seen)
        all == done \cup cascaded
        live == {j \in Jobs : after[j] \in Live}
        count == Counted(batch, Cardinality(all), Cardinality({j \in all : after[j] \in Failed}))
        res == IF Completes(count) THEN [j \in Jobs |-> "none"] ELSE Record(all, after)
        dependents == {e.job : e \in {d \in edges : d.on \in all}}
    IN  /\ state' = [j \in Jobs |-> IF after[j] = "pending" /\ j \in dependents /\ Ready(j, live, res)
                                    THEN "waiting" ELSE after[j]]
        /\ archived' = archived \cup keep \cup cascaded
        /\ edges' = {e \in edges : e.job \notin all}
        /\ results' = res
        /\ batch' = count
        /\ callbacks' = InsertCallbacks(count)

-----------------------------------------------------------------------------
(***************************************************************************)
(* The writes that finish jobs.  A rescue and the expiry of a job lease     *)
(* write a result too, and are Finalize to the workflow.  DeleteCompleted   *)
(* leaves a completed job out of history.                                   *)
(***************************************************************************)
Finalize ==
    /\ \E done \in (SUBSET {j \in Jobs : state[j] = "running"}) \ {{}} :
        /\ Cardinality(done) <= FlushSize
        /\ \E out \in [done -> Terminal] :
            LET failed == {j \in done : out[j] \in Failed}
            IN  \E keep \in {done, failed} : Finish(done, out, keep)
    /\ UNCHANGED overrides

\* JobCancel of a job that is not running
JobCancel(j) ==
    /\ state[j] \in {"pending", "waiting"}
    /\ Finish({j}, [i \in {j} |-> "canceled"], {j})
    /\ UNCHANGED overrides

\* JobDelete of a job that is not running: no history row
JobDelete(j) ==
    /\ state[j] \in {"pending", "waiting"}
    /\ Finish({j}, [i \in {j} |-> "canceled"], {})
    /\ UNCHANGED overrides

JobDeleteHistory(j) ==
    /\ j \in archived
    /\ archived' = archived \ {j}
    /\ UNCHANGED <<state, edges, results, batch, callbacks, overrides>>

\* JobDiscardExpired: it leaves pending jobs alone.
JobDiscardExpired ==
    /\ \E done \in (SUBSET {j \in Jobs : state[j] = "waiting"}) \ {{}} :
        /\ Cardinality(done) <= FlushSize
        /\ Finish(done, [j \in done |-> "discarded"], done)
    /\ UNCHANGED overrides

\* A result that is not terminal: a retry, a snooze, a job given back
Requeue(j) ==
    /\ state[j] = "running"
    /\ overrides < MaxOverrides
    /\ state' = [state EXCEPT ![j] = "waiting"]
    /\ overrides' = overrides + 1
    /\ UNCHANGED <<archived, edges, results, batch, callbacks>>

\* Mutant: a retried job counts as pending again, and as failed still.
RecountedPending(b, j) == IF b.completed THEN b ELSE [b EXCEPT !.pending = @ + 1]

\* What a retry from history does to the batch: the job counts as pending
\* again, and no longer as failed.
Recounted(b, j) ==
    IF b.completed THEN b
    ELSE [b EXCEPT !.pending = @ + 1, !.failed = IF state[j] \in Failed THEN @ - 1 ELSE @]

\* Mutant: the history row stays.
JobRetryHistoryCopied(j) ==
    /\ j \in archived
    /\ overrides < MaxOverrides
    /\ state' = [state EXCEPT ![j] = "waiting"]
    /\ batch' = Recounted(batch, j)
    /\ results' = [results EXCEPT ![j] = "none"]
    /\ overrides' = overrides + 1
    /\ UNCHANGED <<archived, edges, callbacks>>

\* JobRetry of a finished job: it is live again, without its edges, and its
\* result goes.
JobRetryHistory(j) ==
    /\ j \in archived
    /\ overrides < MaxOverrides
    /\ state' = [state EXCEPT ![j] = "waiting"]
    /\ archived' = archived \ {j}
    /\ batch' = Recounted(batch, j)
    /\ results' = [results EXCEPT ![j] = "none"]
    /\ overrides' = overrides + 1
    /\ UNCHANGED <<edges, callbacks>>

\* JobRetry of a job that waits, for its dependencies too: it is available
\* at once and keeps its edges.
JobRetryWaiting(j) ==
    /\ state[j] = "pending"
    /\ overrides < MaxOverrides
    /\ state' = [state EXCEPT ![j] = "waiting"]
    /\ overrides' = overrides + 1
    /\ UNCHANGED <<archived, edges, results, batch, callbacks>>

(***************************************************************************)
(* The leader's sweeps, WorkflowPromoteReady and BatchSettle: the pending   *)
(* jobs a pass would promote, those it would cancel for an exhausted group, *)
(* and the results of a completed workflow it would delete.  Every write    *)
(* here leaves them nothing to find, which is why they are no action: see   *)
(* WorkflowSound.                                                           *)
(***************************************************************************)
SweepPromotes(j) == state[j] = "pending" /\ Ready(j, LiveJobs, results)
SweepCancels(j) ==
    /\ state[j] = "pending"
    /\ \E e \in edges : e.job = j /\ e.policy = "any_cancel" /\ Exhausted(e, LiveJobs, results)
SweepOrphans == {j \in Jobs : batch.completed /\ results[j] # "none"}

WorkflowNext ==
    \/ WorkflowInsert
    \/ Finalize
    \/ JobDiscardExpired
    \/ \E j \in Jobs :
        \/ Claim(j)
        \/ Requeue(j)
        \/ JobCancel(j)
        \/ JobDelete(j)
        \/ JobDeleteHistory(j)
        \/ JobRetryHistory(j)
        \/ JobRetryWaiting(j)

WorkflowSpec == WorkflowInit /\ [][WorkflowNext]_workflowVars

\* Producers claim what waits as long as they run, every attempt ends in a
\* result (a job's timeout, a rescue) and every finalizer flushes it.
\* FinalizeFairness is the weak fairness of Finalize, which is enabled while a
\* job runs and the one action that ends a running job, without its ENABLED.
FinalizeFairness ==
    \/ []<>(\A j \in Jobs : state[j] # "running")
    \/ []<><<\E j \in Jobs : state[j] = "running" /\ state'[j] \in Terminal>>_workflowVars
WorkflowFairness ==
    WF_workflowVars(WorkflowInsert) /\ (\A j \in Jobs : WF_workflowVars(Claim(j))) /\ FinalizeFairness

-----------------------------------------------------------------------------
Inserted == \A j \in Jobs : state[j] # "absent"

\* While a batch is open its row counts exactly its live jobs as pending and
\* exactly the jobs that ended canceled or discarded as failed, over any
\* sequence of finishes, cascades and retries (countBatch, JobRetry).
BatchCounts ==
    Inserted /\ ~batch.completed =>
        /\ batch.pending = Cardinality(LiveJobs)
        /\ batch.failed = Cardinality({j \in Jobs : state[j] \in Failed})

\* The step that completes a batch is the one that ends its last live job,
\* and runs OnFailure if one of its jobs has failed at that time and
\* OnSuccess if none has, beside OnComplete (countBatch).
CallbackMatches ==
    Completes(batch') =>
        /\ \A j \in Jobs : state'[j] \in Terminal
        /\ LET outcome == IF \E j \in Jobs : state'[j] \in Failed THEN "failure" ELSE "success"
           IN  callbacks' = [k \in DOMAIN callbacks |-> IF k \in {outcome, "complete"} THEN 1 ELSE 0]

\* A completed batch keeps the counts its callbacks were given, and runs no
\* callback again, whatever is re-driven later (the comment of countBatch).
CompletedIsFinal == batch.completed => UNCHANGED <<batch, callbacks>>

\* Every pending job is held by a live job: one it depends on, or one of an
\* any-of group no job of which has completed.  So no finish leaves a job
\* behind that nothing will promote or cancel, and WorkflowPromoteReady finds
\* nothing on SQLite (the comment of finalize.go's tail).
PendingIsHeld ==
    \A j \in Jobs : state[j] = "pending" =>
        \E e \in edges :
            /\ e.job = j
            /\ IsLive(e.on)
            /\ e.anyOf # 0 => \A s \in Group(e) : ~IsLive(s.on) => state[s.on] \in Failed

\* No job stays pending behind a failure that its edges say cancels it: one
\* of an ordinary cancel edge, or of every job of an any-of group.
FailureCascades ==
    \A e \in edges : state[e.job] = "pending" =>
        /\ e.policy = "cancel" => state[e.on] \notin Failed
        /\ e.policy = "any_cancel" => \E s \in Group(e) : state[s.on] \notin Failed

\* A pending job that a finish makes claimable has no live dependency left,
\* and each of its any-of groups has a job that completed, or ignores that
\* all of them have failed (promoteIfReady).
PromotionIsSound ==
    \A j \in Jobs : state[j] = "pending" /\ state'[j] = "waiting" /\ overrides' = overrides =>
        \A e \in {d \in edges : d.job = j} :
            IF e.anyOf = 0 THEN state'[e.on] \in Terminal
            ELSE \/ \E s \in Group(e) : state'[s.on] = "completed"
                 \/ e.policy = "any_ignore" /\ \A s \in Group(e) : state'[s.on] \in Failed

\* A dependency that has finished has its final state in hopper_job_results
\* for as long as a dependent can be claimed with it or be held by its group,
\* and one that is live, re-driven ones included, has none (recordResult,
\* readDependencies, JobRetry).
ResultsMatch ==
    \A e \in edges : e.reads \/ e.anyOf # 0 =>
        results[e.on] = IF IsLive(e.on) THEN "none" ELSE state[e.on]

\* What every state of a workflow, and every step, keeps.  The leader's sweeps
\* are left nothing: "a pass finds only what a direct write left pending"
\* (WorkflowPromoteReady), and no result outlives its workflow (BatchSettle).
WorkflowSound ==
    /\ WorkflowTypeOK /\ BatchCounts /\ PendingIsHeld /\ FailureCascades /\ ResultsMatch
    /\ ~\E j \in Jobs : SweepPromotes(j) \/ SweepCancels(j)
    /\ SweepOrphans = {}
WorkflowSteps == [][CallbackMatches /\ CompletedIsFinal /\ PromotionIsSound]_workflowVars

\* Every workflow completes: no combination of failures, policies, cancels,
\* deletes and retries leaves its batch open for ever.
WorkflowCompletes == <>(batch.completed)
=============================================================================
