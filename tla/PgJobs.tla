------------------------------- MODULE PgJobs -------------------------------
(***************************************************************************)
(* The job operations of hopper's PostgreSQL engine, run by connections at  *)
(* the same time.  A statement reads one snapshot (READ COMMITTED); a row   *)
(* it then locks is checked again as it is by then, and its subqueries are  *)
(* not.  A transaction of several statements keeps the rows it has written  *)
(* until it commits, and one that needs them waits: the wait is a step that *)
(* is not enabled yet.  All jobs have one ordering key; those of UniqueJobs *)
(* have one unique key.                                                     *)
(***************************************************************************)
EXTENDS Integers

CONSTANTS
    LiveAtFirst,   \* jobs waiting at first
    Inserted,      \* jobs JobInsertMany adds, counting completed duplicates
    UniqueJobs,    \* the jobs with the unique key
    Backends,      \* connections
    Callers,       \* the sets of operations that are called at the same time
    MaxRestores,   \* bound on the times a job is moved back from history
    MaxClock       \* bound on claims, inserts and wake calls

Rows == LiveAtFirst \cup Inserted
\* The jobs with the unique key are among the jobs.
ASSUME PgJobsAssumption == UniqueJobs \subseteq Rows

NoRow == [st |-> "absent", seq |-> 0, fence |-> 0, at |-> 0, mark |-> 0, past |-> "none"]
Waiting == {"available", "sleeping"}
Live(row) == row.st \in Waiting \cup {"running"}
Free == [pc |-> "free", job |-> 0, snap |-> <<>>, fence |-> 0, out |-> "none", since |-> 0,
         lasted |-> FALSE, from |-> 0, clear |-> FALSE]

VARIABLES
    rows,      \* hopper_jobs, and in past the state of a row of hopper_job_history
    backends,  \* the transaction of each connection
    clock,     \* database time, as far as the code compares times
    claims,    \* attempts whose results are still to be written: <<job, fence>>
    woken,     \* the start of the latest JobRetryOrderingKey that returned and
               \* that no earlier one was still to mark for when it began
    retried,   \* how often JobRetry has moved a job back from history
    lost,      \* the calls that did not find a job that was there throughout
    called     \* the operations that are called

rowVars == <<rows, clock, claims, woken, retried, lost, called>>
pjVars == <<rowVars, backends>>

PgJobsInit ==
    /\ rows = [j \in Rows |-> IF j \in LiveAtFirst THEN [NoRow EXCEPT !.st = "available", !.seq = j]
                              ELSE NoRow]
    /\ backends = [b \in Backends |-> Free]
    /\ clock = 1
    /\ claims = {}
    /\ woken = 0
    /\ retried = [j \in Rows |-> 0]
    /\ lost = {}
    /\ called \in Callers

Exists(j) == Live(rows[j]) \/ rows[j].past # "none"
MaxSeq == CHOOSE n \in {rows[j].seq : j \in Rows} : \A j \in Rows : rows[j].seq <= n

\* The rows a transaction has deleted, inserted or locked and not committed.
Holding == {"finalize", "retry_commit", "look"}
HeldBy(b) == IF backends[b].pc \in Holding THEN {backends[b].job} ELSE {}
Held(b) == UNION {HeldBy(c) : c \in Backends \ {b}}
\* A unique key being inserted or deleted by another transaction: the
\* conflict check waits for it.
KeyHeld(b, j) == j \in UniqueJobs /\ Held(b) \cap UniqueJobs # {}
KeyTaken(j) == j \in UniqueJobs /\ \E k \in UniqueJobs \ {j} : Live(rows[k])

Step(b, rec) == backends' = [backends EXCEPT ![b] = rec]
Return(b) == Step(b, Free)
\* A job that is unknown at some moment of a call was not there throughout.
Lasting(bs) == [b \in Backends |->
    [bs[b] EXCEPT !.lasted = @ /\ (bs[b].job \in Rows =>
        Live(rows'[bs[b].job]) \/ rows'[bs[b].job].past # "none")]]

(***************************************************************************)
(* JobClaim: the oldest waiting job of the key if none of the key runs, by  *)
(* the snapshot; the row is locked with SKIP LOCKED.  The unique index on   *)
(* running ordering keys fails the claim of a second job, which is retried. *)
(***************************************************************************)
Eligible(sn) == {j \in Rows :
    /\ sn[j].st = "available"
    /\ \A k \in Rows : sn[k].st # "running" /\ (sn[k].st \in Waiting => sn[k].seq >= sn[j].seq)}

ClaimBegin(b) ==
    /\ backends[b].pc = "free"
    /\ clock < MaxClock
    /\ Eligible(rows) # {}
    /\ Step(b, [Free EXCEPT !.pc = "claim", !.snap = rows])
    /\ UNCHANGED rowVars

RunningKeyAny(j) == TRUE
RunningKeyIndex(j) == \A k \in Rows \ {j} : rows[k].st # "running"

JobClaim(b) ==
    /\ backends[b].pc = "claim"
    /\ LET found == {j \in Eligible(backends[b].snap) : rows[j].st = "available" /\ j \notin Held(b)}
       IN  IF \E j \in found : RunningKeyIndex(j)
           THEN LET j == CHOOSE k \in found : TRUE IN
                /\ rows' = [rows EXCEPT ![j].st = "running", ![j].fence = @ + 1, ![j].at = clock + 1]
                /\ clock' = clock + 1
                /\ claims' = claims \cup {<<j, rows[j].fence + 1>>}
                /\ UNCHANGED <<woken, retried, lost, called>>
           ELSE UNCHANGED rowVars
    /\ Return(b)

(***************************************************************************)
(* JobFinalizeMany of one result, the attempt's own or the leader's for a   *)
(* lost client: the row is found running at the result's fence, and found   *)
(* so again once locked.  The transaction may be the caller's (CompleteTx). *)
(***************************************************************************)
Outcomes == {"completed", "discarded", "sleeping", "available"}
\* wake_requested_at >= attempted_at
WakesNone(row) == FALSE
Wakes(row) == row.mark >= row.at
Owned(row, fence) == row.st = "running" /\ row.fence = fence

FinalizeLocks(b) ==
    /\ backends[b].pc = "free"
    /\ \E c \in claims : \E out \in Outcomes :
        /\ c[1] \notin Held(b)
        /\ Owned(rows[c[1]], c[2])
        /\ Step(b, [Free EXCEPT !.pc = "finalize", !.job = c[1], !.fence = c[2], !.out = out])
    /\ UNCHANGED rowVars

JobFinalizeMany(b) ==
    /\ backends[b].pc = "finalize"
    /\ LET j == backends[b].job
           row == rows[j]
           out == backends[b].out
           next == IF out \in Waiting
                   THEN [row EXCEPT !.st = IF Wakes(row) THEN "available" ELSE out, !.mark = 0]
                   ELSE [row EXCEPT !.st = "absent", !.mark = 0, !.past = out]
       IN  /\ rows' = [rows EXCEPT ![j] = next]
           /\ claims' = claims \ {<<j, backends[b].fence>>}
    /\ Return(b)
    /\ UNCHANGED <<clock, woken, retried, lost, called>>

(***************************************************************************)
(* JobInsertMany of a job that counts completed duplicates.  The insert     *)
(* finds a live duplicate, or adds the row; then a look of its own snapshot *)
(* finds one in history and takes the row back.                             *)
(***************************************************************************)
InsertRow(b) ==
    /\ backends[b].pc = "free"
    /\ clock < MaxClock
    /\ \E j \in Inserted :
        /\ rows[j] = NoRow
        /\ \A c \in Backends : backends[c].job # j
        /\ ~KeyHeld(b, j)
        /\ IF KeyTaken(j)
           THEN Return(b)
           ELSE Step(b, [Free EXCEPT !.pc = "look", !.job = j])
    /\ clock' = clock + 1
    /\ UNCHANGED <<rows, claims, woken, retried, lost, called>>

HistoryUnread(j) == FALSE
UniqueHistory(j) == \E k \in UniqueJobs \ {j} : j \in UniqueJobs /\ rows[k].past = "completed"

JobInsertCheckingHistory(b) ==
    /\ backends[b].pc = "look"
    /\ LET j == backends[b].job
       IN  rows' = IF UniqueHistory(j) THEN rows
                   ELSE [rows EXCEPT ![j] = [NoRow EXCEPT !.st = "available", !.seq = MaxSeq + 1]]
    /\ Return(b)
    /\ UNCHANGED <<clock, claims, woken, retried, lost, called>>

(***************************************************************************)
(* JobRetry: a live job waits no longer; one in history moves back with a   *)
(* new seq, and its transaction (JobRetryTx) can stay open.                 *)
(***************************************************************************)
RunNow(row) == [row EXCEPT !.st = "available", !.mark = 0]

RetryLooks(b) ==
    /\ backends[b].pc = "free"
    /\ \E j \in Rows :
        /\ j \notin Held(b)
        /\ Exists(j)
        /\ IF Live(rows[j])
           THEN /\ rows[j].st \in Waiting
                /\ rows' = [rows EXCEPT ![j] = RunNow(rows[j])]
                /\ Return(b)
           ELSE /\ retried[j] < MaxRestores
                /\ Step(b, [Free EXCEPT !.pc = "retry_history", !.job = j, !.lasted = TRUE])
                /\ UNCHANGED rows
    /\ UNCHANGED <<clock, claims, woken, retried, lost, called>>

\* The row has left history: ErrNotFound.  A live job has the key:
\* ErrUniqueConflict.
RetryHistory(b) ==
    /\ backends[b].pc = "retry_history"
    /\ LET j == backends[b].job
           gone == rows[j].past = "none"
       IN  /\ j \notin Held(b) /\ ~KeyHeld(b, j)
           /\ IF gone \/ KeyTaken(j) THEN Return(b)
              ELSE Step(b, [backends[b] EXCEPT !.pc = "retry_commit"])
           /\ lost' = IF gone /\ backends[b].lasted THEN lost \cup {"retry"} ELSE lost
    /\ UNCHANGED <<rows, clock, claims, woken, retried, called>>

JobRetry(b) ==
    /\ backends[b].pc = "retry_commit"
    /\ LET j == backends[b].job IN
        /\ rows' = [rows EXCEPT ![j] = [@ EXCEPT !.st = "available", !.seq = MaxSeq + 1, !.past = "none"]]
        /\ retried' = [retried EXCEPT ![j] = @ + 1]
    /\ Return(b)
    /\ UNCHANGED <<clock, claims, woken, lost, called>>

(***************************************************************************)
(* JobDelete looks in the live table, then in history, and once more in     *)
(* both: a JobRetry may have moved the job between the two.  It is for one  *)
(* such move that the second look makes up.                                 *)
(***************************************************************************)
DeleteBegins(b) ==
    /\ backends[b].pc = "free"
    /\ \E j \in Rows :
        /\ Exists(j)
        /\ Step(b, [Free EXCEPT !.pc = "delete_live", !.job = j, !.lasted = TRUE, !.from = retried[j]])
    /\ UNCHANGED rowVars

DeleteLive(b, pc, next) ==
    /\ backends[b].pc = pc
    /\ LET j == backends[b].job IN
        /\ j \notin Held(b)
        /\ IF Live(rows[j])
           THEN /\ rows' = IF rows[j].st = "running" THEN rows ELSE [rows EXCEPT ![j].st = "absent"]
                /\ backends' = Lasting([backends EXCEPT ![b] = Free])
           ELSE /\ backends' = [backends EXCEPT ![b].pc = next]
                /\ UNCHANGED rows
    /\ UNCHANGED <<clock, claims, woken, retried, lost, called>>

DeleteHistory(b, pc, next) ==
    /\ backends[b].pc = pc
    /\ LET j == backends[b].job
           found == rows[j].past # "none"
       IN  /\ j \notin Held(b)
           /\ rows' = IF found THEN [rows EXCEPT ![j].past = "none"] ELSE rows
           /\ backends' = Lasting([backends EXCEPT ![b] =
                IF found \/ next = "free" THEN Free ELSE [@ EXCEPT !.pc = next]])
           /\ lost' = IF ~found /\ next = "free" /\ backends[b].lasted /\ retried[j] <= backends[b].from + 1
                      THEN lost \cup {"delete"} ELSE lost
    /\ UNCHANGED <<clock, claims, woken, retried, called>>

JobDeleteOnce(b) ==
    \/ DeleteLive(b, "delete_live", "delete_history")
    \/ DeleteHistory(b, "delete_history", "free")

JobDelete(b) ==
    \/ DeleteLive(b, "delete_live", "delete_history")
    \/ DeleteHistory(b, "delete_history", "delete_live_again")
    \/ DeleteLive(b, "delete_live_again", "delete_history_again")
    \/ DeleteHistory(b, "delete_history_again", "free")

(***************************************************************************)
(* JobCancel ends a waiting job and asks a running one to stop.  One that   *)
(* is not live is read by JobGet on another connection, live or finished.   *)
(***************************************************************************)
JobCancel(b) ==
    /\ backends[b].pc = "free"
    /\ \E j \in Rows :
        /\ j \notin Held(b)
        /\ Exists(j)
        /\ IF rows[j].st \in Waiting
           THEN rows' = [rows EXCEPT ![j].st = "absent", ![j].mark = 0, ![j].past = "canceled"] /\ Return(b)
           ELSE rows[j].st = "absent" /\ UNCHANGED rows /\ Step(b, [Free EXCEPT !.pc = "get", !.job = j])
    /\ UNCHANGED <<clock, claims, woken, retried, lost, called>>

JobGet(b) ==
    /\ backends[b].pc = "get"
    /\ Return(b)
    /\ UNCHANGED rowVars

(***************************************************************************)
(* JobRetryOrderingKey: a statement marks the key's running job, another    *)
(* wakes its waiting ones.  A call is clear if no earlier one was still to  *)
(* mark when it began: that one would put its own time, of before an        *)
(* attempt began, in place of a later mark.                                 *)
(***************************************************************************)
MarkBegins(b) ==
    /\ backends[b].pc = "free"
    /\ clock < MaxClock
    /\ clock' = clock + 1
    /\ Step(b, [Free EXCEPT !.pc = "mark", !.snap = rows, !.since = clock + 1,
                       !.clear = \A c \in Backends : backends[c].pc # "mark"])
    /\ UNCHANGED <<rows, claims, woken, retried, lost, called>>

Marked(b) == {j \in Rows : backends[b].snap[j].st = "running" /\ rows[j].st = "running"}

MarkOrderingKey(b) ==
    /\ backends[b].pc = "mark"
    /\ Marked(b) \cap Held(b) = {}
    /\ rows' = [j \in Rows |-> IF j \in Marked(b) THEN [rows[j] EXCEPT !.mark = backends[b].since] ELSE rows[j]]
    /\ Step(b, [backends[b] EXCEPT !.pc = "wake", !.snap = <<>>])
    /\ UNCHANGED <<clock, claims, woken, retried, lost, called>>

WakeBegins(b) ==
    /\ backends[b].pc = "wake"
    /\ Step(b, [backends[b] EXCEPT !.pc = "waking", !.snap = rows])
    /\ UNCHANGED rowVars

JobRetryOrderingKey(b) ==
    /\ backends[b].pc = "waking"
    /\ LET found == {j \in Rows : backends[b].snap[j].st = "sleeping" /\ rows[j].st = "sleeping"}
       IN  /\ found \cap Held(b) = {}
           /\ rows' = [j \in Rows |-> IF j \in found THEN RunNow(rows[j]) ELSE rows[j]]
    /\ woken' = IF backends[b].clear /\ woken < backends[b].since THEN backends[b].since ELSE woken
    /\ Return(b)
    /\ UNCHANGED <<clock, claims, retried, lost, called>>

\* A scheduled time comes.
Due ==
    /\ \E j \in Rows : rows[j].st = "sleeping" /\ rows' = [rows EXCEPT ![j].st = "available"]
    /\ UNCHANGED <<clock, claims, woken, retried, lost, called, backends>>

\* A transaction that rolls back undoes what it held.
Rollback(b) ==
    /\ backends[b].pc \in Holding
    /\ Return(b)
    /\ UNCHANGED rowVars

Calls(b) ==
    \/ "claim" \in called /\ ClaimBegin(b)
    \/ "finalize" \in called /\ FinalizeLocks(b)
    \/ "insert" \in called /\ InsertRow(b)
    \/ "retry" \in called /\ RetryLooks(b)
    \/ "delete" \in called /\ DeleteBegins(b)
    \/ "cancel" \in called /\ JobCancel(b)
    \/ "wake" \in called /\ MarkBegins(b)

PgJobsNext == Due \/ \E b \in Backends :
    \/ Calls(b)
    \/ JobClaim(b)
    \/ JobFinalizeMany(b)
    \/ JobInsertCheckingHistory(b)
    \/ RetryHistory(b) \/ JobRetry(b)
    \/ JobDelete(b)
    \/ JobGet(b)
    \/ MarkOrderingKey(b) \/ WakeBegins(b) \/ JobRetryOrderingKey(b)
    \/ Rollback(b)

PgJobsSpec == PgJobsInit /\ [][PgJobsNext]_pjVars

(***************************************************************************)
(* Properties.                                                              *)
(***************************************************************************)
\* Of an ordering key, one job runs at a time, though two claims pass the
\* check in their snapshots (claimEligibleSQL and the unique index).
OneRunsPerKey == \A j, k \in Rows : rows[j].st = "running" /\ rows[k].st = "running" => j = k

\* A unique key that counts completed jobs has one job, live or completed,
\* whether its finalize, its retry or another insert ran at the same time
\* (jobInsertCheckingHistory).
UniqueInHistory ==
    \A j \in UniqueJobs : ~Live(rows[j]) /\ Live(rows'[j]) =>
        ~\E k \in UniqueJobs \ {j} :
            Live(rows'[k]) \/ (rows[j] = NoRow /\ rows'[k].past = "completed")

\* After a JobRetryOrderingKey that was clear returns, no job of the key sleeps
\* on for an attempt that began before the call: it was woken, or marked and
\* put back as runnable by its finalize, whatever other calls ran beside it.
WakeNotLost == \A j \in Rows : rows[j].st = "sleeping" => rows[j].at > woken

\* The three together, of every step: statements on the jobs of one key that
\* run at once run one job of it at a time, lose no wake of a call that no
\* earlier one was still to mark for, and keep the key unique through history
\* (jobs.go).
PgJobsSound == [][OneRunsPerKey' /\ WakeNotLost' /\ UniqueInHistory]_pjVars

\* JobDelete does not report a job unknown that was live or in history the
\* whole time and that at most one JobRetry moved back meanwhile.
DeleteKnows == "delete" \notin lost

\* JobRetry does not report a job unknown that was there the whole time.
RetryKnows == "retry" \notin lost
=============================================================================
