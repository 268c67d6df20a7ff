------------------------------ MODULE JobStore ------------------------------
(***************************************************************************)
(* The life of jobs in hopper's SQLite engine: the live table and history, *)
(* the clients' leases, the leases of jobs claimed by ID, and every         *)
(* operation that changes them (driver/hoppersqlite), with the results that *)
(* clients and the leader hold in memory in between.                        *)
(*                                                                          *)
(* Each operation of the engine is one write transaction and SQLite has one *)
(* writer, so an operation is one action.  What is not atomic is what the   *)
(* callers do: a client claims a job in one transaction and writes its      *)
(* result in another, and the leader reads the jobs of lost clients in one  *)
(* and rescues them in another.  Anything can happen in between, and a      *)
(* write whose outcome is unknown is repeated, so the variables "claims"    *)
(* and "lost" only grow: a result of any claim ever made can arrive at any  *)
(* time, any number of times, or never (its client has crashed).            *)
(*                                                                          *)
(* One queue is modelled.  Workflow dependencies, batches, limits, logs and *)
(* progress are left to other modules.                                      *)
(***************************************************************************)
EXTENDS Integers, FiniteSets

CONSTANTS
    Jobs,            \* job IDs, never reused (newID)
    Clients,         \* IDs of client registrations, never reused (AUTOINCREMENT)
    NoClient,        \* attempted_by NULL
    NoKey,           \* no ordering key, or no unique key
    OrderingKey,     \* a job's ordering key or NoKey
    UniqueKey,       \* a job's kind and unique key, or NoKey
    Priority,        \* a job's priority, 1 the highest
    AttemptChoices,  \* the max_attempts an insert can ask for
    Delays,          \* how far ahead an insert, snooze or retry can schedule
    TTLs,            \* the TTLs an insert can ask for, 0 for none
    ClientTTL,       \* length of a client's lease
    LeaseTTL,        \* length of a job lease
    Grace,           \* JobExpireLeasesParams.Grace
    StuckAfter,      \* JobRescueParams.StuckAfter, 0 for never
    ClaimLimit,      \* JobClaimParams.Limit
    WakeLimit,       \* JobRetryOrderingKeyParams.Limit
    MaxNow,          \* bound on the clock
    MaxFence,        \* bound on the claims of one job
    MaxSeq           \* bound on inserts and retries from history

ASSUME JobStoreAssumption ==
    /\ NoClient \notin Clients
    /\ \A j \in Jobs : Priority[j] \in Int
    /\ AttemptChoices \subseteq Nat \ {0}
    /\ Delays \subseteq Nat
    /\ TTLs \subseteq Nat
    /\ ClientTTL \in Nat \ {0}
    /\ LeaseTTL \in Nat \ {0}
    /\ Grace \in Nat
    /\ StuckAfter \in Nat
    /\ ClaimLimit \in Nat \ {0}
    /\ WakeLimit \in Nat \ {0}
    /\ MaxNow \in Nat
    /\ MaxFence \in Nat
    /\ MaxSeq \in Nat

VARIABLES
    now,       \* the database's clock
    jobs,      \* a job's row, in the live table or in history
    nextSeq,   \* hopper_jobs' AUTOINCREMENT
    leases,    \* hopper_job_leases
    clients,   \* hopper_clients
    claims,    \* every claim made: what its holder remembers of the job
    lost,      \* the candidates that rescue passes have read
    notices,   \* the jobs a "cancel:<id>" notification was sent for
    results    \* how many results each claim of a job has had applied

vars == <<now, jobs, nextSeq, leases, clients, claims, lost, notices, results>>

NoTime == -1

(***************************************************************************)
(* A row's state says which table it is in: "absent" is a job not inserted *)
(* yet, "deleted" one that is in neither table any more.                    *)
(***************************************************************************)
Waiting  == {"available", "scheduled", "retryable"}
Live     == Waiting \cup {"running"}
Terminal == {"completed", "canceled", "discarded"}
States   == Live \cup Terminal \cup {"absent", "deleted"}

Time  == Nat
Fence == 0..MaxFence

Row == [state : States, attempt : Int, maxAttempts : Nat, scheduledAt : Time,
        expiresAt : Time \cup {NoTime}, attemptedAt : Time \cup {NoTime},
        attemptedBy : Clients \cup {NoClient}, fence : Fence, seq : Nat,
        cancelRequested : BOOLEAN, wakeRequestedAt : Time \cup {NoTime}]

LeaseRow  == [held : BOOLEAN, fence : Fence, renewedAt : Time, expiresAt : Time]
ClientRow == [row : {"unused", "present", "removed"}, startedAt : Time, expiresAt : Time]
Claim     == [job : Jobs, by : Clients \cup {NoClient}, fence : Fence, attempt : Int, maxAttempts : Nat]

TypeOK ==
    /\ now \in 0..MaxNow
    /\ jobs \in [Jobs -> Row]
    /\ nextSeq \in Nat
    /\ leases \in [Jobs -> LeaseRow]
    /\ clients \in [Clients -> ClientRow]
    /\ claims \subseteq Claim
    /\ lost \subseteq [claim : Claim, stuck : BOOLEAN]
    /\ notices \subseteq Jobs
    /\ results \in [Jobs -> [Fence -> Nat]]

AbsentRow ==
    [state |-> "absent", attempt |-> 0, maxAttempts |-> 0, scheduledAt |-> 0, expiresAt |-> NoTime,
     attemptedAt |-> NoTime, attemptedBy |-> NoClient, fence |-> 0, seq |-> 0,
     cancelRequested |-> FALSE, wakeRequestedAt |-> NoTime]

(* Mutant: history does not keep the fence. *)
FinishedRowNoFence(r, st) == [AbsentRow EXCEPT !.state = st, !.attempt = r.attempt, !.maxAttempts = r.maxAttempts]

(***************************************************************************)
(* Of the row r that moves to history as st, what a retry brings back is    *)
(* kept: the columns retryHistorySQL does not select are dropped here       *)
(* already.  Of a deleted row nothing is left but, for the properties to    *)
(* speak of, its fence.                                                     *)
(***************************************************************************)
FinishedRow(r, st) ==
    IF st = "deleted" THEN [AbsentRow EXCEPT !.state = st, !.fence = r.fence]
    ELSE [AbsentRow EXCEPT !.state = st, !.attempt = r.attempt, !.maxAttempts = r.maxAttempts, !.fence = r.fence]

NoLease == [held |-> FALSE, fence |-> 0, renewedAt |-> 0, expiresAt |-> 0]

Init ==
    /\ now = 0
    /\ jobs = [j \in Jobs |-> AbsentRow]
    /\ nextSeq = 1
    /\ leases = [j \in Jobs |-> NoLease]
    /\ clients = [c \in Clients |-> [row |-> "unused", startedAt |-> 0, expiresAt |-> 0]]
    /\ claims = {}
    /\ lost = {}
    /\ notices = {}
    /\ results = [j \in Jobs |-> [f \in Fence |-> 0]]
-----------------------------------------------------------------------------
IsLive(j)    == jobs[j].state \in Live
IsWaiting(j) == jobs[j].state \in Waiting
IsRunning(j) == jobs[j].state = "running"

(* hopper_clients has a row for c with expires_at > now. *)
LeaseLive(c) == clients[c].row = "present" /\ clients[c].expiresAt > now

SameOrdering(j, k) == OrderingKey[j] # NoKey /\ OrderingKey[j] = OrderingKey[k]
SameUnique(j, k)   == UniqueKey[j] # NoKey /\ UniqueKey[j] = UniqueKey[k]

Earlier(t, u) == IF t < u THEN t ELSE u
Later(t, u)   == IF t < u THEN u ELSE t

StateAt(t) == IF t > now THEN "scheduled" ELSE "available"
(* The expires_at of a job inserted now with a TTL, or none. *)
Deadline(ttl) == IF ttl > 0 THEN now + ttl ELSE NoTime
Expired(j) == jobs[j].expiresAt # NoTime /\ jobs[j].expiresAt <= now

(***************************************************************************)
(* Inserting.  With a unique key a job is inserted only if no live job has  *)
(* the key; the insert of a duplicate with ConflictReplace overwrites the   *)
(* live job unless it is running, and otherwise changes nothing.            *)
(***************************************************************************)
InsertedRow(m, d, ttl) ==
    [AbsentRow EXCEPT !.state = StateAt(now + d), !.maxAttempts = m, !.scheduledAt = now + d,
                      !.expiresAt = Deadline(ttl), !.seq = nextSeq]

JobInsert(j, m, d, ttl) ==
    /\ jobs[j].state = "absent"
    /\ \A k \in Jobs : SameUnique(j, k) => ~IsLive(k)
    /\ nextSeq <= MaxSeq
    /\ jobs' = [jobs EXCEPT ![j] = InsertedRow(m, d, ttl)]
    /\ nextSeq' = nextSeq + 1
    /\ UNCHANGED <<now, leases, clients, claims, lost, notices, results>>

ReplacedRow(r, m, d) ==
    [r EXCEPT !.state = StateAt(now + d), !.maxAttempts = m, !.scheduledAt = now + d]

JobReplace(j, m, d) ==
    /\ UniqueKey[j] # NoKey
    /\ IsWaiting(j)
    /\ jobs' = [jobs EXCEPT ![j] = ReplacedRow(jobs[j], m, d)]
    /\ UNCHANGED <<now, nextSeq, leases, clients, claims, lost, notices, results>>
-----------------------------------------------------------------------------
(***************************************************************************)
(* Claiming.  A job with an ordering key is claimable only if no job of its *)
(* key runs and it is the key's oldest waiting job.                         *)
(***************************************************************************)
(* Mutants: the key's running jobs, or its older jobs, are not looked at. *)
KeyFreeIfRunning(j) == \A k \in Jobs : SameOrdering(j, k) /\ IsWaiting(k) => jobs[j].seq <= jobs[k].seq
KeyFreeInAnyOrder(j) == \A k \in Jobs : SameOrdering(j, k) => ~IsRunning(k)

KeyFree(j) ==
    \A k \in Jobs : SameOrdering(j, k) =>
        /\ ~IsRunning(k)
        /\ IsWaiting(k) => jobs[j].seq <= jobs[k].seq

Claimable(j) ==
    /\ IsWaiting(j)
    /\ jobs[j].scheduledAt <= now
    /\ ~Expired(j)
    /\ KeyFree(j)

(* ORDER BY priority, scheduled_at, seq *)
ClaimsBefore(j, k) ==
    \/ Priority[j] < Priority[k]
    \/ Priority[j] = Priority[k] /\ jobs[j].scheduledAt < jobs[k].scheduledAt
    \/ Priority[j] = Priority[k] /\ jobs[j].scheduledAt = jobs[k].scheduledAt /\ jobs[j].seq < jobs[k].seq

ClaimedRow(r, c) ==
    [r EXCEPT !.state = "running", !.attempt = r.attempt + 1, !.fence = r.fence + 1,
              !.attemptedAt = now, !.attemptedBy = c]

(* Mutant: the claim returns the attempt the row had before. *)
ClaimOfOldRow(j, c) ==
    [job |-> j, by |-> c, fence |-> jobs[j].fence + 1, attempt |-> jobs[j].attempt, maxAttempts |-> jobs[j].maxAttempts]

(* What a claim of j by c, just made, returns. *)
ClaimOf(j, c) ==
    [job |-> j, by |-> c, fence |-> jobs[j].fence + 1, attempt |-> jobs[j].attempt + 1,
     maxAttempts |-> jobs[j].maxAttempts]

(***************************************************************************)
(* S are the first claimable jobs in claim order, at most ClaimLimit.  The  *)
(* client's own lease is not consulted: one that has lapsed still claims,   *)
(* until its lease loop notices.                                            *)
(***************************************************************************)
JobClaim(c, S) ==
    /\ clients[c].row # "unused"
    /\ S # {}
    /\ \A j \in S : Claimable(j) /\ jobs[j].fence < MaxFence
    /\ Cardinality(S) <= ClaimLimit
    /\ \A k \in Jobs \ S : Claimable(k) =>
          Cardinality(S) = ClaimLimit /\ \A j \in S : ClaimsBefore(j, k)
    /\ jobs' = [j \in Jobs |-> IF j \in S THEN ClaimedRow(jobs[j], c) ELSE jobs[j]]
    /\ claims' = claims \cup {ClaimOf(j, c) : j \in S}
    /\ UNCHANGED <<now, nextSeq, leases, clients, lost, notices, results>>

(* Mutant: the lease is recorded at the next fence. *)
LeaseAtNextFence(f) == [held |-> TRUE, fence |-> f + 1, renewedAt |-> now, expiresAt |-> now + LeaseTTL]

(* A lease row for the fence f, granted or renewed now. *)
LeaseAt(f) == [held |-> TRUE, fence |-> f, renewedAt |-> now, expiresAt |-> now + LeaseTTL]

(***************************************************************************)
(* A claim by ID of the waiting job j, whatever its schedule, at the fence  *)
(* f its caller expects, by a job lease.  The lease's token is random, so   *)
(* no two claims share one, and its fence alone stands for both.  The job   *)
(* of a paused queue is refused too; no queue of this model is paused (how  *)
(* a client follows a pause is QueueControl).                               *)
(***************************************************************************)
JobClaimByID(j, f) ==
    /\ IsLive(j)
    /\ jobs[j].fence = f
    /\ ~IsRunning(j)
    /\ ~Expired(j)
    /\ KeyFree(j)
    /\ f < MaxFence
    /\ jobs' = [jobs EXCEPT ![j] = ClaimedRow(jobs[j], NoClient)]
    /\ leases' = [leases EXCEPT ![j] = LeaseAt(f + 1)]
    /\ claims' = claims \cup {ClaimOf(j, NoClient)}
    /\ UNCHANGED <<now, nextSeq, clients, lost, notices, results>>
-----------------------------------------------------------------------------
(***************************************************************************)
(* Results.  A result is [state, back, delay]: back gives the attempt back  *)
(* (a snooze, or an attempt the client's stop interrupted).                 *)
(***************************************************************************)
Result == [state : Terminal \cup {"deleted", "retryable", "scheduled"}, back : BOOLEAN, delay : Delays \cup {0}]

(* The attempt cl has been replaced by a later claim of its job. *)
Replaced(cl) == \E later \in claims : later.job = cl.job /\ later.fence > cl.fence

(***************************************************************************)
(* The results execute and outcome can produce for the claim cl.  A         *)
(* completed job is archived, or deleted in a DeleteCompleted queue.  A     *)
(* retry that counts needs an attempt left, except that of a replaced       *)
(* attempt, "which cannot apply".                                           *)
(***************************************************************************)
Outcome(cl, r, canceled) ==
    \/ r.state \in {"completed", "deleted", "discarded"} /\ ~r.back /\ r.delay = 0
    \/ r.state = "canceled" /\ canceled /\ ~r.back /\ r.delay = 0
    \/ r.state = "retryable" /\ ~r.back /\ (cl.attempt < cl.maxAttempts \/ (Replaced(cl) /\ cl.by # NoClient /\ r.delay = 0))
    \/ r.state = "retryable" /\ r.back /\ r.delay = 0 /\ cl.by # NoClient
    \/ r.state = "scheduled" /\ r.back

Woken(j) == jobs[j].wakeRequestedAt # NoTime /\ jobs[j].wakeRequestedAt >= jobs[j].attemptedAt

AttemptAfter(j, back) == IF back THEN jobs[j].attempt - 1 ELSE jobs[j].attempt

(* Mutant: a wake while the attempt ran is forgotten. *)
DueAtUnwoken(j, d) == now + d

DueAt(j, d) == IF Woken(j) THEN now ELSE now + d

(***************************************************************************)
(* The row of j once the result r of its claim is applied: finished, with   *)
(* everything kept for history, or waiting, at once if the key was woken    *)
(* while the attempt ran.                                                   *)
(***************************************************************************)
FinalizedRow(j, r) ==
    IF r.state \in Terminal \cup {"deleted"} THEN FinishedRow(jobs[j], r.state)
    ELSE [jobs[j] EXCEPT !.state = r.state,
              !.scheduledAt = DueAt(j, r.delay),
              !.attempt = AttemptAfter(j, r.back),
              !.attemptedBy = NoClient,
              !.wakeRequestedAt = NoTime]

(* A result of the claim of j at the fence f has been applied. *)
CountResult(j, f) == results' = [results EXCEPT ![j][f] = @ + 1]

(* Mutant: only the client is compared, not the fence. *)
ClientOwnsAnyFence(cl) ==
    LET r == jobs[cl.job] IN
    r.state = "running" /\ r.attemptedBy # NoClient /\ r.attemptedBy = cl.by

(* The job runs in the claim cl of a client, by the same client and fence. *)
ClientOwns(cl) ==
    LET r == jobs[cl.job] IN
    r.state = "running" /\ r.attemptedBy # NoClient /\ r.attemptedBy = cl.by /\ r.fence = cl.fence

(* The job runs in the claim cl by ID, whose lease is the job's. *)
LeaseOwns(cl) ==
    LET r == jobs[cl.job] IN
    /\ r.state = "running" /\ r.attemptedBy = NoClient /\ r.fence = cl.fence
    /\ leases[cl.job].held /\ leases[cl.job].fence = cl.fence

(* A client writes a result of its claim: the finalizer's flush, or CompleteTx. *)
JobFinalize(cl, r) ==
    /\ ClientOwns(cl)
    /\ Outcome(cl, r, cl.job \in notices)
    /\ jobs' = [jobs EXCEPT ![cl.job] = FinalizedRow(cl.job, r)]
    /\ CountResult(cl.job, cl.fence)
    /\ UNCHANGED <<now, nextSeq, leases, clients, claims, lost, notices>>

(* Mutant: the lease is not released. *)
LeaseFinishKeepsLease(cl, r) ==
    /\ LeaseOwns(cl)
    /\ Outcome(cl, r, jobs[cl.job].cancelRequested)
    /\ jobs' = [jobs EXCEPT ![cl.job] = FinalizedRow(cl.job, r)]
    /\ CountResult(cl.job, cl.fence)
    /\ UNCHANGED <<now, nextSeq, leases, clients, claims, lost, notices>>

(* The holder of a job lease writes its result, and the lease is released. *)
LeaseFinish(cl, r) ==
    /\ LeaseOwns(cl)
    /\ Outcome(cl, r, jobs[cl.job].cancelRequested)
    /\ jobs' = [jobs EXCEPT ![cl.job] = FinalizedRow(cl.job, r)]
    /\ leases' = [leases EXCEPT ![cl.job] = NoLease]
    /\ CountResult(cl.job, cl.fence)
    /\ UNCHANGED <<now, nextSeq, clients, claims, lost, notices>>

JobLeaseRenew(cl) ==
    /\ LeaseOwns(cl)
    /\ leases' = [leases EXCEPT ![cl.job] = LeaseAt(cl.fence)]
    /\ UNCHANGED <<now, jobs, nextSeq, clients, claims, lost, notices, results>>
-----------------------------------------------------------------------------
(***************************************************************************)
(* The leader's duties.  A rescue pass reads the running jobs of clients    *)
(* without a live lease, and those claimed too long ago; it writes a result *)
(* for each later, fenced to the claim it read.                             *)
(***************************************************************************)
Stuck(j) == StuckAfter > 0 /\ jobs[j].attemptedAt < now - StuckAfter

(* Mutant: a client whose row was pruned or deleted is not found. *)
RescueCandidatePresent(j) ==
    /\ IsRunning(j)
    /\ jobs[j].attemptedBy # NoClient
    /\ Stuck(j) \/ (clients[jobs[j].attemptedBy].row = "present" /\ ~LeaseLive(jobs[j].attemptedBy))

RescueCandidate(j) ==
    /\ IsRunning(j)
    /\ jobs[j].attemptedBy # NoClient
    /\ Stuck(j) \/ ~LeaseLive(jobs[j].attemptedBy)

CurrentClaim(j) ==
    [job |-> j, by |-> jobs[j].attemptedBy, fence |-> jobs[j].fence, attempt |-> jobs[j].attempt,
     maxAttempts |-> jobs[j].maxAttempts]

JobRescueCandidates(j) ==
    /\ RescueCandidate(j)
    /\ lost' = lost \cup {[claim |-> CurrentClaim(j), stuck |-> Stuck(j)]}
    /\ UNCHANGED <<now, jobs, nextSeq, leases, clients, claims, notices, results>>

(* Mutant: the last attempt is retried too. *)
RescueResultOnceMore(cl) ==
    [state |-> IF cl.attempt > cl.maxAttempts THEN "discarded" ELSE "retryable", back |-> FALSE, delay |-> 0]

RescueResult(cl) ==
    [state |-> IF cl.attempt >= cl.maxAttempts THEN "discarded" ELSE "retryable", back |-> FALSE, delay |-> 0]

Rescue(cl) ==
    /\ ClientOwns(cl)
    /\ jobs' = [jobs EXCEPT ![cl.job] = FinalizedRow(cl.job, RescueResult(cl))]
    /\ CountResult(cl.job, cl.fence)
    /\ UNCHANGED <<now, nextSeq, leases, clients, claims, lost, notices>>

(***************************************************************************)
(* A job lease is due at its expiry; but if clients with live leases        *)
(* started since it was renewed, not before its holder has had the longer   *)
(* of its TTL and Grace since the first of them did: while none ran, the    *)
(* holder may have had no one to renew with.                                *)
(***************************************************************************)
StartedSince(t) == {c \in Clients : LeaseLive(c) /\ clients[c].startedAt > t /\ clients[c].startedAt <= now}

HeardOut(j) ==
    LET l == leases[j] IN
    StartedSince(l.renewedAt) # {} =>
        \E c \in StartedSince(l.renewedAt) :
            clients[c].startedAt + Later(LeaseTTL, Grace) <= now

LeaseDue(j) ==
    LET l == leases[j]
    IN  /\ l.held /\ l.expiresAt <= now
        /\ HeardOut(j)
        /\ IsRunning(j) /\ jobs[j].attemptedBy = NoClient /\ jobs[j].fence = l.fence

LapsedRow(r) ==
    IF r.attempt < r.maxAttempts /\ ~r.cancelRequested
    THEN [r EXCEPT !.state = "retryable", !.scheduledAt = now, !.wakeRequestedAt = NoTime]
    ELSE FinishedRow(r, IF r.cancelRequested THEN "canceled" ELSE "discarded")

(* The leader c, if its own lease is live, ends the attempt of j. *)
JobExpireLease(c, j) ==
    /\ LeaseLive(c)
    /\ LeaseDue(j)
    /\ leases' = [leases EXCEPT ![j] = NoLease]
    /\ jobs' = [jobs EXCEPT ![j] = LapsedRow(jobs[j])]
    /\ CountResult(j, leases[j].fence)
    /\ UNCHANGED <<now, nextSeq, clients, claims, lost, notices>>

JobDiscardExpired(j) ==
    /\ IsWaiting(j) /\ Expired(j)
    /\ jobs' = [jobs EXCEPT ![j] = FinishedRow(jobs[j], "discarded")]
    /\ UNCHANGED <<now, nextSeq, leases, clients, claims, lost, notices, results>>
-----------------------------------------------------------------------------
(***************************************************************************)
(* Operators' calls.                                                        *)
(***************************************************************************)
CanceledRow(r) ==
    IF r.state = "running" THEN [r EXCEPT !.cancelRequested = TRUE] ELSE FinishedRow(r, "canceled")

(* Mutant: a finished job is canceled too. *)
JobCancelAnyRow(j) ==
    /\ jobs[j].state \notin {"absent", "deleted"}
    /\ jobs' = [jobs EXCEPT ![j] = CanceledRow(jobs[j])]
    /\ notices' = IF IsRunning(j) THEN notices \cup {j} ELSE notices
    /\ UNCHANGED <<now, nextSeq, leases, clients, claims, lost, results>>

JobCancel(j) ==
    /\ IsLive(j)
    /\ jobs' = [jobs EXCEPT ![j] = CanceledRow(jobs[j])]
    /\ notices' = IF IsRunning(j) THEN notices \cup {j} ELSE notices
    /\ UNCHANGED <<now, nextSeq, leases, clients, claims, lost, results>>

(* A waiting job is canceled and kept nowhere; a finished one leaves history. *)
JobDelete(j) ==
    /\ IsWaiting(j) \/ jobs[j].state \in Terminal
    /\ jobs' = [jobs EXCEPT ![j] = FinishedRow(jobs[j], "deleted")]
    /\ UNCHANGED <<now, nextSeq, leases, clients, claims, lost, notices, results>>

(* A job that has run out of attempts gets one more. *)
AttemptsAllowed(r) == IF r.attempt >= r.maxAttempts THEN r.attempt + 1 ELSE r.maxAttempts

RetriedRow(j) ==
    [jobs[j] EXCEPT !.state = "available", !.scheduledAt = now, !.seq = nextSeq,
                    !.maxAttempts = AttemptsAllowed(jobs[j])]

(* Mutant: the unique key of the retried job is not looked for. *)
JobRetryHistoryDuplicate(j) ==
    /\ jobs[j].state \in Terminal
    /\ nextSeq <= MaxSeq
    /\ jobs' = [jobs EXCEPT ![j] = RetriedRow(j)]
    /\ nextSeq' = nextSeq + 1
    /\ UNCHANGED <<now, leases, clients, claims, lost, notices, results>>

JobRetryHistory(j) ==
    /\ jobs[j].state \in Terminal
    /\ \A k \in Jobs \ {j} : SameUnique(j, k) => ~IsLive(k)
    /\ nextSeq <= MaxSeq
    /\ jobs' = [jobs EXCEPT ![j] = RetriedRow(j)]
    /\ nextSeq' = nextSeq + 1
    /\ UNCHANGED <<now, leases, clients, claims, lost, notices, results>>

RunNow(r) ==
    [r EXCEPT !.state = "available", !.scheduledAt = Earlier(@, now), !.wakeRequestedAt = NoTime]

(* Mutant: a running job is made available. *)
JobRetryRunning(j) ==
    /\ IsLive(j)
    /\ jobs' = [jobs EXCEPT ![j] = [RunNow(jobs[j]) EXCEPT !.expiresAt = NoTime]]
    /\ UNCHANGED <<now, nextSeq, leases, clients, claims, lost, notices, results>>

JobRetryLive(j) ==
    /\ IsWaiting(j)
    /\ jobs' = [jobs EXCEPT ![j] = [RunNow(jobs[j]) EXCEPT !.expiresAt = NoTime]]
    /\ UNCHANGED <<now, nextSeq, leases, clients, claims, lost, notices, results>>

(***************************************************************************)
(* Wakes an ordering key: the oldest of its waiting jobs are due now, and   *)
(* its running job is marked, for its finalize to honor.                    *)
(***************************************************************************)
Wakeable(key) ==
    {j \in Jobs : OrderingKey[j] = key /\ jobs[j].state \in {"scheduled", "retryable"} /\ ~Expired(j)}

OldestWakeable(key) ==
    {j \in Wakeable(key) : Cardinality({k \in Wakeable(key) : jobs[k].seq < jobs[j].seq}) < WakeLimit}

MarkedRow(r) == [r EXCEPT !.wakeRequestedAt = now]

JobRetryOrderingKey(key) ==
    /\ key # NoKey
    /\ jobs' = [j \in Jobs |->
          IF OrderingKey[j] = key /\ IsRunning(j) THEN MarkedRow(jobs[j])
          ELSE IF j \in OldestWakeable(key) THEN RunNow(jobs[j])
          ELSE jobs[j]]
    /\ UNCHANGED <<now, nextSeq, leases, clients, claims, lost, notices, results>>
-----------------------------------------------------------------------------
(***************************************************************************)
(* Client leases and time.                                                  *)
(***************************************************************************)
ClientRegister(c) ==
    /\ clients[c].row = "unused"
    /\ clients' = [clients EXCEPT ![c] = [row |-> "present", startedAt |-> now, expiresAt |-> now + ClientTTL]]
    /\ UNCHANGED <<now, jobs, nextSeq, leases, claims, lost, notices, results>>

(* Mutant: a lapsed lease is renewed. *)
ClientRenewLapsed(c) ==
    /\ clients[c].row = "present"
    /\ clients' = [clients EXCEPT ![c].expiresAt = now + ClientTTL]
    /\ UNCHANGED <<now, jobs, nextSeq, leases, claims, lost, notices, results>>

(* A lease that has lapsed is not renewed: its client is fenced. *)
ClientRenew(c) ==
    /\ LeaseLive(c)
    /\ clients' = [clients EXCEPT ![c].expiresAt = now + ClientTTL]
    /\ UNCHANGED <<now, jobs, nextSeq, leases, claims, lost, notices, results>>

RemovedClient == [row |-> "removed", startedAt |-> 0, expiresAt |-> 0]

ClientDelete(c) ==
    /\ clients[c].row = "present"
    /\ clients' = [clients EXCEPT ![c] = RemovedClient]
    /\ UNCHANGED <<now, jobs, nextSeq, leases, claims, lost, notices, results>>

ClientPruneExpired ==
    /\ clients' = [c \in Clients |->
          IF clients[c].row = "present" /\ clients[c].expiresAt < now
          THEN RemovedClient ELSE clients[c]]
    /\ UNCHANGED <<now, jobs, nextSeq, leases, claims, lost, notices, results>>

Tick ==
    /\ now < MaxNow
    /\ now' = now + 1
    /\ UNCHANGED <<jobs, nextSeq, leases, clients, claims, lost, notices, results>>
-----------------------------------------------------------------------------
Next ==
    \/ \E j \in Jobs, m \in AttemptChoices, d \in Delays, ttl \in TTLs : JobInsert(j, m, d, ttl)
    \/ \E j \in Jobs, m \in AttemptChoices, d \in Delays : JobReplace(j, m, d)
    \/ \E c \in Clients, S \in SUBSET Jobs : JobClaim(c, S)
    \/ \E j \in Jobs, f \in Fence : JobClaimByID(j, f)
    \/ \E cl \in claims, r \in Result : JobFinalize(cl, r)
    \/ \E cl \in claims, r \in Result : LeaseFinish(cl, r)
    \/ \E cl \in claims : JobLeaseRenew(cl)
    \/ \E j \in Jobs : JobRescueCandidates(j)
    \/ \E cand \in lost : Rescue(cand.claim)
    \/ \E c \in Clients, j \in Jobs : JobExpireLease(c, j)
    \/ \E j \in Jobs : JobDiscardExpired(j)
    \/ \E j \in Jobs : JobCancel(j)
    \/ \E j \in Jobs : JobDelete(j)
    \/ \E j \in Jobs : JobRetryHistory(j)
    \/ \E j \in Jobs : JobRetryLive(j)
    \/ \E key \in {OrderingKey[j] : j \in Jobs} : JobRetryOrderingKey(key)
    \/ \E c \in Clients : ClientRegister(c)
    \/ \E c \in Clients : ClientRenew(c)
    \/ \E c \in Clients : ClientDelete(c)
    \/ ClientPruneExpired
    \/ Tick

Spec == Init /\ [][Next]_vars

(***************************************************************************)
(* The leader's loop runs a rescue pass every interval, and a pass writes   *)
(* what it has read; nothing else is assumed of it, and of clients, workers *)
(* and operators nothing at all.                                            *)
(***************************************************************************)
RescueFair ==
    /\ \A j \in Jobs : WF_vars(JobRescueCandidates(j))
    /\ \A j \in Jobs : WF_vars(\E cand \in lost : cand.claim.job = j /\ Rescue(cand.claim))
FairSpec == Spec /\ RescueFair
-----------------------------------------------------------------------------
(***************************************************************************)
(* Properties.                                                              *)
(***************************************************************************)

(* Of the results of one claim (its client's and the retries of that write, *)
(* the rescue's, the lease holder's, the expiry's) at most one is applied,  *)
(* whatever happens to the job in between (JobFinalizeMany).                *)
AtMostOneResult == \A j \in Jobs, f \in Fence : results[j][f] <= 1

(* No two claims of a job are made at the same fence, across retries,       *)
(* rescues, snoozes, the archive and retries from history: a claim is told  *)
(* from every other by its fence alone.                                     *)
FencesUnique == \A a, b \in claims : a.job = b.job /\ a.fence = b.fence => a = b

(* What runs is always a claim somebody was told about, with the attempt    *)
(* and max_attempts it was told: no operation changes a job while it runs,  *)
(* so a result computed from the claim is right for the row it is applied   *)
(* to.                                                                      *)
RunningIsClaimed == \A j \in Jobs : IsRunning(j) => CurrentClaim(j) \in claims

(* At most one job of an ordering key runs at a time.                       *)
OneRunningPerKey ==
    \A j, k \in Jobs : SameOrdering(j, k) /\ IsRunning(j) /\ IsRunning(k) => j = k

(* Jobs of an ordering key run in insertion order: while one runs, every    *)
(* waiting job of the key was inserted after it.                            *)
OldestRunsFirst ==
    \A j, k \in Jobs : SameOrdering(j, k) /\ IsRunning(j) /\ IsWaiting(k) => jobs[j].seq < jobs[k].seq

(* A unique key is held by at most one live job, also when a finished job   *)
(* with the key is retried from history.                                    *)
UniqueWhileLive == \A j, k \in Jobs : SameUnique(j, k) /\ IsLive(j) /\ IsLive(k) => j = k

(* A job has a lease row exactly while it runs with no owning client, and   *)
(* the lease is at the job's fence: a leased job always has an owner whose  *)
(* expiry the leader can find, and no ended attempt leaves one behind.      *)
LeaseIffUnowned ==
    \A j \in Jobs :
        /\ leases[j].held <=> IsRunning(j) /\ jobs[j].attemptedBy = NoClient
        /\ leases[j].held => leases[j].fence = jobs[j].fence

(* What a rescue pass read of a lost client still holds when it writes: a   *)
(* lapsed lease never comes back to life, so a job is never taken from a    *)
(* client whose lease is live, unless it was found stuck.                   *)
LostStaysLost == \A cand \in lost : ~cand.stuck => ~LeaseLive(cand.claim.by)

(* A running attempt is within max_attempts, also after any sequence of     *)
(* rescues, snoozes, given-back attempts and retries from history.  Only an *)
(* insert that replaces a job can set max_attempts below the attempts       *)
(* already made (the replaced job keeps those, and a retry from history may *)
(* have raised max_attempts), so this is said of jobs without a unique key. *)
AttemptWithinMax ==
    \A j \in Jobs : IsRunning(j) /\ UniqueKey[j] = NoKey => jobs[j].attempt \in 1..jobs[j].maxAttempts

(* The store's rows are sound: the type, a fence per claim, only claimed    *)
(* attempts running, a lease exactly for a job no client owns, lost clients *)
(* lost for good, and no attempt past max_attempts.                         *)
ClaimsSound ==
    /\ TypeOK /\ FencesUnique /\ RunningIsClaimed
    /\ LeaseIffUnowned /\ LostStaysLost /\ AttemptWithinMax

(* A wake of a key that finds its job running is not lost: however the      *)
(* attempt ends, a job that is to run again is due at once.                 *)
WakeHonored ==
    [][\A j \in Jobs : IsRunning(j) /\ jobs[j].wakeRequestedAt # NoTime /\ jobs'[j].state \in Waiting
            => jobs'[j].scheduledAt <= now]_vars

(* A finished job changes only by a retry, which keeps its fence, or a      *)
(* delete: no late result, rescue, expiry or cancel reaches it.             *)
FinishedIsFinal ==
    [][\A j \in Jobs : jobs[j].state \in Terminal /\ jobs'[j] # jobs[j] =>
            \/ jobs'[j].state = "available" /\ jobs'[j].fence = jobs[j].fence
            \/ jobs'[j].state = "deleted"]_vars

(* A job whose client is lost (crashed, lapsed, deleted or pruned) never    *)
(* stays running in its claim: the rescue finds it, whatever became of the  *)
(* client's row.                                                            *)
LostJobsRecovered ==
    \A j \in Jobs, c \in Clients, f \in Fence :
        (IsRunning(j) /\ jobs[j].attemptedBy = c /\ jobs[j].fence = f /\ ~LeaseLive(c))
            ~> ~(IsRunning(j) /\ jobs[j].fence = f)

(***************************************************************************)
(* The store keeps the promise of FencedClaims: a job is held while it      *)
(* runs, and its results are the ledger's.                                  *)
(***************************************************************************)
Ledger == INSTANCE FencedClaims WITH
    held  <- [j \in Jobs |-> IsRunning(j)],
    fence <- [j \in Jobs |-> jobs[j].fence],
    ended <- results

(* Every step of the store is a step of the ledger or leaves it as it is.   *)
KeepsLedger == Ledger!LedgerSpec
=============================================================================
