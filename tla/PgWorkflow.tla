----------------------------- MODULE PgWorkflow -----------------------------
(***************************************************************************)
(* One workflow in hopper's PostgreSQL engine, finished by statements that  *)
(* run at the same time.  A statement reads the database as it was when it  *)
(* began (its snapshot, READ COMMITTED) and writes when it commits: a row   *)
(* it chose that another statement changed meanwhile is checked again, and  *)
(* left if it no longer qualifies.  So two clients that finish the last     *)
(* jobs of a batch, or the last dependencies of a job, each miss the other. *)
(* What closes the gap is the follow-up of each client (BatchSettle, then   *)
(* WorkflowPromoteReady), which a crash can drop, and the leader's sweeps.  *)
(*                                                                          *)
(* Claiming is left out: "ready" stands for available, scheduled and        *)
(* running.  The results kept are those that any-of groups are decided by.  *)
(***************************************************************************)
EXTENDS Integers, FiniteSets, FiniteSetsExt

CONSTANTS
    PgWorkflows,  \* the workflows that can be inserted: [n, edges, retries]
    PgSessions,   \* connections that finalize, retry and follow up
    PgLeader      \* the connection of the leader's sweeps

PgFailed == {"canceled", "discarded"}

VARIABLES
    pgWorkflow,   \* the workflow inserted
    pgState,      \* [PgJobs -> pending, ready or gone], hopper_jobs
    pgResult,     \* hopper_job_results, "none" without a row
    pgOutcome,    \* the history row's state, "none" for a live job
    pgBatch,      \* the row of hopper_batches
    pgProgress,   \* hopper_batch_progress
    pgCallbacks,  \* the failed count each callback inserted was given
    pgRow,        \* IDs given to progress rows
    pgRetried,    \* jobs taken back from history
    pgStmt        \* what each connection is doing

pgData == <<pgWorkflow, pgState, pgResult, pgOutcome, pgBatch, pgProgress, pgCallbacks, pgRow, pgRetried>>
pgVars == <<pgData, pgStmt>>

PgJobs == 1..pgWorkflow.n
PgEdges == pgWorkflow.edges  \* hopper_job_deps: [job, on, policy, group], group 0 for none
MaxRetries == pgWorkflow.retries  \* bound on JobRetry of finished jobs

Connections == PgSessions \cup {PgLeader}
NoSnap == [state |-> <<>>]
PgIdle == [pc |-> "idle", jobs |-> {}, out |-> <<>>, snap |-> NoSnap]

Snapshot == [state |-> pgState, result |-> pgResult, batch |-> pgBatch, progress |-> pgProgress]

\* The rows of hopper_job_deps a job still has: those of a finished job are
\* deleted with it, and a retry from history does not bring them back.
EdgesOf(j) == {e \in PgEdges : e.job = j /\ j \notin pgRetried}
Grouped(j) == \E e \in EdgesOf(j) : e.group # 0
DependentsOf(S) == {e.job : e \in {d \in PgEdges : d.on \in S}}

PgInit ==
    /\ pgWorkflow \in PgWorkflows
    /\ pgRetried = {}
    /\ pgState = [j \in PgJobs |-> IF EdgesOf(j) = {} THEN "ready" ELSE "pending"]
    /\ pgResult = [j \in PgJobs |-> "none"]
    /\ pgOutcome = [j \in PgJobs |-> "none"]
    /\ pgBatch = [pending |-> Cardinality(PgJobs), failed |-> 0, completed |-> FALSE]
    /\ pgProgress = {}
    /\ pgCallbacks = {}
    /\ pgRow = 0
    /\ pgStmt = [s \in Connections |-> PgIdle]

(***************************************************************************)
(* anyOfGroupsSQL, over the rows of a snapshot.                             *)
(***************************************************************************)
PgPresent(sn, j) == sn.state[j] # "gone"
PgSatisfied(sn, group) ==
    \E e \in group : ~PgPresent(sn, e.on) /\ sn.result[e.on] \notin PgFailed
GroupLive(sn, group, done) == \E e \in group : PgPresent(sn, e.on) /\ e.on \notin done
GroupCancels(group) == \E e \in group : e.policy = "any_cancel"
GroupsOf(j) == {{e \in EdgesOf(j) : e.group = g} : g \in {e.group : e \in EdgesOf(j)} \ {0}}

AnyOfHolds(sn, j) == \E g \in GroupsOf(j) :
    ~PgSatisfied(sn, g) /\ (GroupLive(sn, g, {}) \/ GroupCancels(g))
AnyOfExhausted(sn, j, done) == \E g \in GroupsOf(j) :
    ~PgSatisfied(sn, g) /\ ~GroupLive(sn, g, done) /\ GroupCancels(g)

(***************************************************************************)
(* The cascade of finalizeTailSQL: from the jobs that failed, through the   *)
(* edges of jobs still in the live table.                                   *)
(***************************************************************************)
PgCascade(sn, failed) ==
    LET hit[j \in PgJobs] == PgPresent(sn, j) /\ \E e \in EdgesOf(j) :
            \/ e.on \in failed /\ e.policy = "cancel"
            \/ e.on \in failed /\ e.policy = "any_cancel" /\ AnyOfExhausted(sn, j, failed)
            \/ e.policy = "cancel" /\ e.on < j /\ hit[e.on]
    IN  {j \in PgJobs : hit[j]}

PendingThen(sn, S) == {j \in S : sn.state[j] = "pending"}
StillPending(sn, S) == {j \in S : sn.state[j] = "pending" /\ pgState[j] = "pending"}
Done(rows) == MapThenSumSet(LAMBDA r : r.done, rows)
FailedOf(rows) == MapThenSumSet(LAMBDA r : r.failed, rows)

\* The statement that finishes n jobs completes the batch, by its snapshot.
LastButOne(sn, n) == ~sn.batch.completed /\ sn.batch.pending - Done(sn.progress) - n <= 1
LastOf(sn, n) == ~sn.batch.completed /\ sn.batch.pending - Done(sn.progress) - n <= 0
\* Progress rows moved are added to a batch that has not completed.
FoldsAlways(moved) == moved # {}
Folds(moved) == moved # {} /\ ~pgBatch.completed

(***************************************************************************)
(* The results of jobs a JobRetryTx held open is deleting stay for it.      *)
(***************************************************************************)
RetryHeld == {j \in PgJobs : \E s \in Connections : pgStmt[s].pc = "retry" /\ j \in pgStmt[s].jobs}
ResultsCleared(sn) ==
    [j \in PgJobs |-> IF sn.result[j] # "none" /\ j \notin RetryHeld THEN "none" ELSE pgResult[j]]

\* The results of the jobs finished that a dependent's group waits for.
ResultsWith(sn, final) ==
    LET read == {e.on : e \in UNION {{d \in EdgesOf(k) : d.group # 0} : k \in {i \in PgJobs : PgPresent(sn, i)}}}
    IN  [j \in PgJobs |-> IF j \in DOMAIN final \cap read THEN final[j] ELSE pgResult[j]]

\* The callback jobs inserted for a batch a statement completes.
CallbacksWith(closes, failed) ==
    IF closes THEN pgCallbacks \cup {<<pgRow, failed>>} ELSE pgCallbacks

(***************************************************************************)
(* finalizeTailSQL, as the statement with snapshot sn that finishes the     *)
(* jobs of out commits: cascade, archive, count or complete the batch,      *)
(* record results, promote.                                                 *)
(***************************************************************************)
FinalizeTail(sn, out) ==
    LET finished == DOMAIN out
        cascaded == StillPending(sn, PgCascade(sn, {j \in finished : out[j] \in PgFailed})) \ finished
        done == finished \cup cascaded
        final == [j \in done |-> IF j \in finished THEN out[j] ELSE "canceled"]
        n == Cardinality(done)
        f == Cardinality({j \in done : final[j] \in PgFailed})
        closes == n > 0 /\ LastOf(sn, n) /\ ~pgBatch.completed
        failed == sn.batch.failed + FailedOf(sn.progress) + f
        promoted == {j \in StillPending(sn, DependentsOf(done) \ done) :
            ~Grouped(j) /\ \A e \in EdgesOf(j) : ~PgPresent(sn, e.on) \/ e.on \in done}
    IN  /\ pgState' = [j \in PgJobs |-> IF j \in done THEN "gone"
                                        ELSE IF j \in promoted THEN "ready" ELSE pgState[j]]
        /\ pgOutcome' = [j \in PgJobs |-> IF j \in done THEN final[j] ELSE pgOutcome[j]]
        /\ pgBatch' = IF closes THEN [pending |-> 0, failed |-> failed, completed |-> TRUE] ELSE pgBatch
        /\ pgCallbacks' = CallbacksWith(closes, failed)
        /\ pgProgress' = IF closes THEN pgProgress \ sn.progress
                         ELSE IF n = 0 THEN pgProgress
                         ELSE pgProgress \cup {[row |-> pgRow, done |-> n, failed |-> f]}
        /\ pgRow' = IF n = 0 THEN pgRow ELSE pgRow + 1
        /\ pgResult' = IF closes THEN ResultsCleared(sn) ELSE ResultsWith(sn, final)

(***************************************************************************)
(* Connections.  pc names the statement that runs, or, with "then_", the    *)
(* one that is next; jobs are those whose batches and dependents the        *)
(* follow-up is for.                                                        *)
(***************************************************************************)
Goes(s, pc, jobs) == pgStmt' = [pgStmt EXCEPT ![s] = [PgIdle EXCEPT !.pc = pc, !.jobs = jobs]]
Runs(s, pc, jobs, out) ==
    pgStmt' = [pgStmt EXCEPT ![s] = [pc |-> pc, jobs |-> jobs, out |-> out, snap |-> Snapshot]]
InUse == UNION {pgStmt[s].jobs : s \in {c \in Connections : pgStmt[c].pc \in {"finalize", "retry"}}}

\* JobFinalizeMany, or CompleteTx in a caller's transaction, locks the rows
\* of the jobs it finishes.
FinalizeBegin(s) ==
    /\ pgStmt[s].pc = "idle"
    /\ \E F \in (SUBSET {j \in PgJobs : pgState[j] = "ready" /\ j \notin InUse}) \ {{}} :
        \E out \in [F -> {"completed", "discarded"}] : Runs(s, "finalize", F, out)
    /\ UNCHANGED pgData

FinalizeCommit(s) ==
    /\ pgStmt[s].pc = "finalize"
    /\ FinalizeTail(pgStmt[s].snap, pgStmt[s].out)
    /\ Goes(s, "then_settle", {j \in PgJobs : pgState[j] # "gone" /\ pgState'[j] = "gone"})
    /\ UNCHANGED <<pgWorkflow, pgRetried>>

\* JobRetry of a job found in history only; its transaction may stay open.
RetryBegin(s) ==
    /\ pgStmt[s].pc = "idle"
    /\ Cardinality(pgRetried) < MaxRetries
    /\ \E j \in PgJobs \ InUse : pgState[j] = "gone" /\ Runs(s, "retry", {j}, <<>>)
    /\ UNCHANGED pgData

RetryCommit(s) ==
    /\ pgStmt[s].pc = "retry"
    /\ LET j == CHOOSE k \in pgStmt[s].jobs : TRUE
           f == IF pgOutcome[j] \in PgFailed THEN -1 ELSE 0
       IN  /\ pgState' = [pgState EXCEPT ![j] = "ready"]
           /\ pgOutcome' = [pgOutcome EXCEPT ![j] = "none"]
           /\ pgResult' = [pgResult EXCEPT ![j] = "none"]
           /\ pgProgress' = IF pgStmt[s].snap.batch.completed THEN pgProgress
                            ELSE pgProgress \cup {[row |-> pgRow, done |-> -1, failed |-> f]}
           /\ pgRetried' = pgRetried \cup {j}
    /\ pgRow' = pgRow + 1
    /\ Goes(s, "idle", {})
    /\ UNCHANGED <<pgWorkflow, pgBatch, pgCallbacks>>

(***************************************************************************)
(* BatchSettle: of the IDs a client finished jobs of, or the leader's sweep *)
(* of batches with progress.                                                *)
(***************************************************************************)
SettleBegin(s) ==
    /\ \/ pgStmt[s].pc = "then_settle"
       \/ s = PgLeader /\ pgStmt[s].pc = "idle" /\ pgProgress # {}
    /\ Runs(s, "settle", pgStmt[s].jobs, <<>>)
    /\ UNCHANGED pgData

SettleCommit(s) ==
    /\ pgStmt[s].pc = "settle"
    /\ LET sn == pgStmt[s].snap
           moved == sn.progress \cap pgProgress
           folds == Folds(moved)
           left == pgBatch.pending - Done(moved)
           failed == pgBatch.failed + FailedOf(moved)
           closes == folds /\ left <= 0
       IN  /\ pgProgress' = pgProgress \ moved
           /\ pgBatch' = IF folds THEN [pending |-> IF left < 0 THEN 0 ELSE left,
                                        failed |-> failed, completed |-> left <= 0]
                         ELSE pgBatch
           /\ pgCallbacks' = CallbacksWith(closes, failed)
           /\ pgRow' = IF closes THEN pgRow + 1 ELSE pgRow
           /\ pgResult' = IF closes THEN ResultsCleared(sn) ELSE pgResult
    /\ IF s = PgLeader THEN Goes(s, "idle", {}) ELSE Goes(s, "then_promote", pgStmt[s].jobs)
    /\ UNCHANGED <<pgWorkflow, pgState, pgOutcome, pgRetried>>

\* The leader's settle deletes, once per maintenance interval, the results a
\* completed workflow left: those of a retry that was rolled back.
ResultsSwept(s) ==
    /\ s = PgLeader /\ pgStmt[s].pc = "idle" /\ pgBatch.completed
    /\ \E j \in PgJobs \ RetryHeld : pgResult[j] # "none"
    /\ pgResult' = [j \in PgJobs |-> IF j \in RetryHeld THEN pgResult[j] ELSE "none"]
    /\ UNCHANGED <<pgWorkflow, pgState, pgOutcome, pgBatch, pgProgress, pgCallbacks, pgRow, pgRetried, pgStmt>>

(***************************************************************************)
(* WorkflowPromoteReady: promote what nothing holds; then, while an         *)
(* exhausted group holds a candidate, cancel those and look at the          *)
(* dependents of what that finished.  Both skip rows another statement      *)
(* holds.                                                                   *)
(***************************************************************************)
Candidates(s) ==
    {j \in IF s = PgLeader /\ pgStmt[s].jobs = {} THEN PgJobs ELSE DependentsOf(pgStmt[s].jobs) :
        EdgesOf(j) # {} /\ PgPresent(pgStmt[s].snap, j)}
\* The rows another connection's open statement may have locked.
Contended(s) == UNION {
    LET st == pgStmt[c] IN
    IF st.pc = "finalize"
    THEN LET hit == PgCascade(st.snap, {j \in DOMAIN st.out : st.out[j] \in PgFailed})
         IN  hit \cup DependentsOf(hit \cup st.jobs)
    ELSE IF st.pc \in {"promote", "cancel"} THEN PgJobs ELSE {} : c \in Connections \ {s}}
Unlocked(s, S) == {S, S \ Contended(s)}

PromoteBeginOwn(s) ==
    /\ pgStmt[s].pc = "then_promote"
    /\ Runs(s, "promote", pgStmt[s].jobs, <<>>)
    /\ UNCHANGED pgData

PromoteBegin(s) ==
    /\ \/ pgStmt[s].pc = "then_promote"
       \/ s = PgLeader /\ pgStmt[s].pc = "idle" /\ \E j \in PgJobs : pgState[j] = "pending"
    /\ Runs(s, "promote", pgStmt[s].jobs, <<>>)
    /\ UNCHANGED pgData

PromoteCommit(s) ==
    /\ pgStmt[s].pc = "promote"
    /\ LET sn == pgStmt[s].snap
           ready == {j \in StillPending(sn, Candidates(s)) :
               /\ \A e \in EdgesOf(j) : e.group = 0 => ~PgPresent(sn, e.on)
               /\ ~AnyOfHolds(sn, j)}
       IN  /\ \E free \in Unlocked(s, ready) :
                pgState' = [j \in PgJobs |-> IF j \in free THEN "ready" ELSE pgState[j]]
           /\ IF \E j \in Candidates(s) : AnyOfExhausted(sn, j, {})
              THEN Goes(s, "then_cancel", pgStmt[s].jobs)
              ELSE Goes(s, "idle", {})
    /\ UNCHANGED <<pgWorkflow, pgResult, pgOutcome, pgBatch, pgProgress, pgCallbacks, pgRow, pgRetried>>

CancelBegin(s) ==
    /\ pgStmt[s].pc = "then_cancel"
    /\ Runs(s, "cancel", pgStmt[s].jobs, <<>>)
    /\ UNCHANGED pgData

CancelCommit(s) ==
    /\ pgStmt[s].pc = "cancel"
    /\ LET sn == pgStmt[s].snap
           held == {j \in StillPending(sn, Candidates(s)) : AnyOfExhausted(sn, j, {})}
       IN  \E free \in Unlocked(s, held) : FinalizeTail(sn, [j \in free |-> "canceled"])
    /\ LET finished == {j \in PgJobs : pgState[j] # "gone" /\ pgState'[j] = "gone"}
       IN  IF finished = {} THEN Goes(s, "idle", {}) ELSE Goes(s, "then_promote", finished)
    /\ UNCHANGED <<pgWorkflow, pgRetried>>

\* The client stops or crashes, its transaction rolls back, or the statement
\* gives up on a row held too long: what is left is the leader's.
Abandon(s) ==
    /\ pgStmt[s].pc # "idle"
    /\ Goes(s, "idle", {})
    /\ UNCHANGED pgData

PgNext == \E s \in Connections :
    \/ s # PgLeader /\ (FinalizeBegin(s) \/ RetryBegin(s) \/ Abandon(s))
    \/ FinalizeCommit(s) \/ RetryCommit(s)
    \/ SettleBegin(s) \/ SettleCommit(s) \/ ResultsSwept(s)
    \/ PromoteBegin(s) \/ PromoteCommit(s)
    \/ CancelBegin(s) \/ CancelCommit(s)

(***************************************************************************)
(* The leader's sweeps recur; a statement of a connection ends, and a job   *)
(* that can run is run until a result of it is written.                     *)
(***************************************************************************)
Works == \E s \in PgSessions : FinalizeBegin(s)
Ends(s) == FinalizeCommit(s) \/ RetryCommit(s) \/ SettleCommit(s) \/ PromoteCommit(s)
           \/ CancelBegin(s) \/ CancelCommit(s)
PgFair ==
    /\ WF_pgVars(Works)
    /\ \A s \in PgSessions : SF_pgVars(FinalizeCommit(s)) /\ WF_pgVars(Ends(s) \/ Abandon(s))
    /\ WF_pgVars(Ends(PgLeader))
    /\ SF_pgVars(SettleBegin(PgLeader)) /\ SF_pgVars(PromoteBegin(PgLeader))

(***************************************************************************)
(* Properties.                                                              *)
(***************************************************************************)
\* A batch runs its callbacks once, when it completes, and keeps the counts
\* they were given: no late progress row, retry or settle changes them
\* (batches of finalizeTailSQL, batchSettleSQL).
CallbacksOnce ==
    /\ Cardinality(pgCallbacks) = IF pgBatch.completed THEN 1 ELSE 0
    /\ \A c \in pgCallbacks : c[2] = pgBatch.failed

\* A batch completes only once every job of it has finished, and with the
\* number of those that failed, whichever statements finished them at the
\* same time; only a job taken back from history may be missing.
ClosedIsOver ==
    pgBatch.completed /\ pgRetried = {} =>
        /\ \A j \in PgJobs : pgState[j] = "gone"
        /\ pgBatch.failed = Cardinality({j \in PgJobs : pgOutcome[j] \in PgFailed})

\* A job runs only once its dependencies let it: each has finished, not
\* failed where that cancels, and of each group one completed, or all failed
\* and the policy ignores it; whichever statement promoted it.
RunsWhenReady ==
    \A j \in PgJobs : pgState[j] = "ready" /\ pgRetried = {} =>
        /\ \A e \in EdgesOf(j) : e.group = 0 =>
            pgState[e.on] = "gone" /\ (e.policy = "cancel" => pgOutcome[e.on] = "completed")
        /\ \A g \in GroupsOf(j) :
            \/ \E e \in g : pgOutcome[e.on] = "completed"
            \/ ~GroupCancels(g) /\ \A e \in g : pgState[e.on] = "gone"

\* A workflow whose jobs are run ends, with its callbacks inserted, though
\* every client drops its follow-ups: the leader's sweeps settle the batch
\* and promote or cancel what concurrent statements left pending.
Ended == pgBatch.completed /\ \A j \in PgJobs : pgState[j] = "gone"
WorkflowEnds == <>[]Ended

\* What every state of a workflow keeps.
PgWorkflowSound == CallbacksOnce /\ ClosedIsOver /\ RunsWhenReady
=============================================================================
