----------------------------- MODULE PgLeases -----------------------------
(***************************************************************************)
(* Job leases on PostgreSQL: one job, claimed by ID under a lease, whose    *)
(* holder renews and finishes through the cluster's clients while the       *)
(* leader expires what was not renewed and the cluster is restarted.  A     *)
(* statement reads the snapshot it began with and checks again the rows it  *)
(* locks: a renewal locks only the lease's row, every other statement the   *)
(* job's row first.                                                         *)
(*                                                                          *)
(* Two stories, to bound the states: in "race" the cluster stays up and     *)
(* every statement races every other; in "restart" a diligent holder, who   *)
(* reaches a client within Patience ticks while one is up, only renews,     *)
(* and the clients come and go.                                             *)
(***************************************************************************)
EXTENDS Integers, FiniteSets

CONSTANTS
    LeaseTTL, Grace,  \* the lease's TTL, Config.JobLeaseGrace
    ClientTTL,        \* TTL of a client's row
    Patience,         \* longest a diligent holder goes without renewing
    Stories,
    Starts,           \* client IDs, one per start of a process
    MaxFence,         \* bound on claims
    MaxAttempts,
    MaxTime           \* bound on database time

ASSUME LeaseAssumption ==
    /\ LeaseTTL \in Nat \ {0} /\ Grace \in Nat /\ ClientTTL \in Nat \ {0}
    /\ Patience \in Nat /\ MaxFence \in Nat /\ MaxAttempts \in Nat \ {0} /\ MaxTime \in Nat

Greater(a, b) == IF a >= b THEN a ELSE b

VARIABLES
    job,        \* the job's row: [st, fence, attempt, cancel]
    lease,      \* its lease's row: [fence, renewed, expires], or NoLease
    time,       \* database time
    clients,    \* the clients' rows: [started, expires, up]
    restarted,  \* the cluster went down and came back
    renewal,    \* the holder's renewal
    finish,     \* its Finish or FinishTx
    expiry,     \* the leader's ExpireReleases
    story, idle,
    claimed,    \* fences the holder was told it claimed
    ended,      \* <<fence, how>> of the attempts that ended
    acked       \* fences whose Finish returned no error

leaseVars == <<job, lease, time, clients, restarted, renewal, finish, expiry, story, idle, claimed, ended, acked>>
leaseRows == <<job, lease>>
ghosts == <<story, claimed, ended, acked>>

NoLease == [fence |-> 0, renewed |-> 0, expires |-> 0]
NoStmt == [pc |-> "none", now |-> 0, fence |-> 0, ran |-> FALSE, result |-> "none", tx |-> FALSE, verdict |-> "none"]
NoClient == [started |-> 0, expires |-> 0, up |-> FALSE]

LeaseInit ==
    /\ job = [st |-> "waiting", fence |-> 0, attempt |-> 0, cancel |-> FALSE]
    /\ lease = NoLease
    /\ time = 1
    /\ clients = [c \in Starts |-> IF c = 1 THEN [started |-> 1, expires |-> 0, up |-> TRUE] ELSE NoClient]
    /\ restarted = FALSE
    /\ renewal = NoStmt /\ finish = NoStmt /\ expiry = NoStmt
    /\ story \in Stories /\ idle = 0
    /\ claimed = {} /\ ended = {} /\ acked = {}

Diligent == story = "restart"
Up == {c \in Starts : clients[c].up}
\* Mutant: a row counts until it is pruned.
ClientLiveUntilPruned(c, now) == clients[c].started > 0
\* The row of a client that is up is renewed before it lapses.
ClientLive(c, now) == clients[c].up \/ clients[c].expires > now

\* A transaction holds the job's row, and the lease's once it deleted it.
JobHeld == finish.pc = "held" \/ expiry.pc = "locked"
LeaseHeld == finish.pc = "held"
RunsAt(j, f) == j.st = "running" /\ j.fence = f

(***************************************************************************)
(* Claim by ID.                                                             *)
(***************************************************************************)
\* At the fence the caller expects; any other answer changes nothing.
JobClaimByID(f) ==
    /\ Up # {} /\ ~JobHeld
    /\ job.st = "waiting" /\ job.fence = f /\ f < MaxFence
    /\ job' = [job EXCEPT !.st = "running", !.fence = f + 1, !.attempt = @ + 1]
    /\ lease' = [fence |-> f + 1, renewed |-> time, expires |-> time + LeaseTTL]
    /\ claimed' = claimed \cup {f + 1} /\ idle' = 0
    /\ UNCHANGED <<time, clients, restarted, renewal, finish, expiry, story, ended, acked>>

(***************************************************************************)
(* Renewal.                                                                 *)
(***************************************************************************)
RenewBegins(f) ==
    /\ renewal.pc = "none" /\ Up # {} /\ f \in claimed
    /\ renewal' = [NoStmt EXCEPT !.pc = "begun", !.now = time, !.fence = f, !.ran = RunsAt(job, f)]
    /\ UNCHANGED <<leaseRows, time, clients, restarted, finish, expiry, idle, ghosts>>

\* It updates the lease as it is now, if the job ran in it in the snapshot.
JobLeaseRenew ==
    /\ renewal.pc = "begun" /\ ~LeaseHeld
    /\ IF lease # NoLease /\ lease.fence = renewal.fence /\ renewal.ran
       THEN /\ lease' = [lease EXCEPT !.renewed = renewal.now, !.expires = renewal.now + LeaseTTL]
            /\ idle' = 0
       ELSE UNCHANGED <<lease, idle>>
    /\ renewal' = NoStmt
    /\ UNCHANGED <<job, time, clients, restarted, finish, expiry, ghosts>>

(***************************************************************************)
(* Finish and FinishTx: the job is read, then the result written.           *)
(***************************************************************************)
\* result: a job that is gone, not running or at another fence is fenced.
ReadsLeased(f) ==
    /\ ~Diligent /\ finish.pc = "none" /\ Up # {} /\ f \in claimed
    /\ RunsAt(job, f)
    /\ \E r \in {"completed", "failed", "snoozed"}, tx \in BOOLEAN :
        finish' = [NoStmt EXCEPT !.pc = "read", !.fence = f, !.tx = tx,
            !.result = CASE r = "failed" /\ job.cancel -> "canceled"
                         [] r = "failed" /\ ~job.cancel /\ job.attempt >= MaxAttempts -> "discarded"
                         [] OTHER -> r]
    /\ UNCHANGED <<leaseRows, time, clients, restarted, renewal, expiry, idle, ghosts>>

\* Mutant: the lease's row is not checked, only the job's fence.
OwnedByFence(f) == job.fence = f
OwnedByLease(f) == RunsAt(job, f) /\ lease # NoLease /\ lease.fence = f
Finished(r) == [job EXCEPT !.st = IF r \in {"failed", "snoozed"} THEN "waiting" ELSE "done",
                           !.attempt = IF r = "snoozed" THEN @ - 1 ELSE @]
EndsAttempt(f, r) ==
    /\ job' = Finished(r)
    /\ lease' = NoLease
    /\ ended' = ended \cup {<<f, "finish">>} /\ acked' = acked \cup {f}

\* leaseFinalizeHeadSQL: the job while it runs in the lease, then the lease.
FinishWrites ==
    /\ finish.pc = "read" /\ ~JobHeld
    /\ LET f == finish.fence
       IN  \/ ~OwnedByLease(f) /\ finish' = NoStmt /\ UNCHANGED <<leaseRows, ended, acked>>
           \/ OwnedByLease(f) /\ ~finish.tx /\ EndsAttempt(f, finish.result) /\ finish' = NoStmt
           \/ OwnedByLease(f) /\ finish.tx /\ finish' = [finish EXCEPT !.pc = "held"] /\ UNCHANGED <<leaseRows, ended, acked>>
    /\ UNCHANGED <<time, clients, restarted, renewal, expiry, idle, story, claimed>>

\* The caller's transaction commits the result, or rolls it back.
FinishTxEnds ==
    /\ finish.pc = "held"
    /\ EndsAttempt(finish.fence, finish.result) \/ UNCHANGED <<leaseRows, ended, acked>>
    /\ finish' = NoStmt
    /\ UNCHANGED <<time, clients, restarted, renewal, expiry, idle, story, claimed>>

CancelJob ==
    /\ ~Diligent /\ ~JobHeld
    /\ \/ job.st = "running" /\ ~job.cancel /\ job' = [job EXCEPT !.cancel = TRUE]
       \/ job.st = "waiting" /\ job' = [job EXCEPT !.st = "done"]
    /\ UNCHANGED <<lease, time, clients, restarted, renewal, finish, expiry, idle, ghosts>>

(***************************************************************************)
(* The leader's expiry.                                                     *)
(***************************************************************************)
\* Starts of live clients since the renewal, by the statement's time.
StartsSince(l, now) ==
    {clients[c].started : c \in {d \in Starts :
        clients[d].started > l.renewed /\ clients[d].started <= now /\ ClientLive(d, now)}}

LeaseDue(l, now) ==
    /\ l.expires <= now
    /\ \A s \in StartsSince(l, now) : (\A t \in StartsSince(l, now) : s <= t) => s + Greater(LeaseTTL, Grace) <= now

\* Retryable at once, unless on the last attempt or canceled.
Verdict == IF job.attempt < MaxAttempts /\ ~job.cancel THEN "retry" ELSE "finished"

ExpireBegins ==
    /\ expiry.pc = "none"
    /\ Up # {}
    /\ lease # NoLease /\ LeaseDue(lease, time) /\ RunsAt(job, lease.fence)
    /\ expiry' = [NoStmt EXCEPT !.pc = "begun", !.now = time, !.fence = lease.fence, !.verdict = Verdict]
    /\ UNCHANGED <<leaseRows, time, clients, restarted, renewal, finish, idle, ghosts>>

\* Mutant: retry and finished decide from the snapshot and check the row
\* again, so that neither takes a job canceled in between.
ExpireLocksUndecided ==
    /\ expiry.pc = "begun"
    /\ expiry' = IF ~JobHeld /\ RunsAt(job, expiry.fence)
                 THEN [expiry EXCEPT !.pc = "locked", !.verdict = IF Verdict = @ THEN @ ELSE "neither"]
                 ELSE NoStmt
    /\ UNCHANGED <<leaseRows, time, clients, restarted, renewal, finish, idle, ghosts>>

\* due: the job's row is locked, skipped if held, and read again; whether it
\* is retried is decided from the row as locked.
ExpireLocks ==
    /\ expiry.pc = "begun"
    /\ expiry' = IF ~JobHeld /\ RunsAt(job, expiry.fence)
                 THEN [expiry EXCEPT !.pc = "locked", !.verdict = Verdict]
                 ELSE NoStmt
    /\ UNCHANGED <<leaseRows, time, clients, restarted, renewal, finish, idle, ghosts>>

\* Mutant: the lease is deleted as the snapshot showed it.
ReleasedUnchecked == lease # NoLease /\ lease.fence = expiry.fence
\* released checks the expiry again on the lease's row as it is now.
Released == lease # NoLease /\ lease.fence = expiry.fence /\ LeaseDue(lease, expiry.now)
\* retry and finished each take the rows due gave them.
Lapses(j) == [j EXCEPT !.st = CASE expiry.verdict = "retry" -> "waiting"
                                [] expiry.verdict = "finished" -> "done"
                                [] OTHER -> @]

ExpireReleases ==
    /\ expiry.pc = "locked"
    /\ IF Released
       THEN /\ job' = Lapses(job)
            /\ lease' = NoLease /\ ended' = ended \cup {<<lease.fence, "expiry">>}
       ELSE UNCHANGED <<leaseRows, ended>>
    /\ expiry' = NoStmt
    /\ UNCHANGED <<time, clients, restarted, renewal, finish, idle, story, claimed, acked>>

(***************************************************************************)
(* Clients and time.                                                        *)
(***************************************************************************)
\* The started process registers under a new ID.
ClientStarts(c) ==
    /\ Diligent
    /\ clients[c] = NoClient /\ \A d \in Starts : d < c => clients[d] # NoClient
    /\ clients' = [clients EXCEPT ![c] = [started |-> time, expires |-> 0, up |-> TRUE]]
    /\ restarted' = (restarted \/ Up = {})
    /\ UNCHANGED <<leaseRows, time, renewal, finish, expiry, idle, ghosts>>

\* One crashes, just after it renewed its row, or all of them; those of a
\* restarted cluster stay.
Crash(S) ==
    /\ Diligent /\ ~restarted /\ S # {}
    /\ clients' = [c \in Starts |-> IF c \in S THEN [clients[c] EXCEPT !.up = FALSE, !.expires = time + ClientTTL] ELSE clients[c]]
    /\ renewal' = IF S = Up THEN NoStmt ELSE renewal
    /\ finish' = IF S = Up THEN NoStmt ELSE finish
    /\ expiry' = IF S = Up THEN NoStmt ELSE expiry
    /\ UNCHANGED <<leaseRows, time, restarted, idle, ghosts>>

Tick ==
    /\ time < MaxTime
    /\ (Diligent /\ Up # {} /\ lease # NoLease) => idle < Patience
    /\ time' = time + 1
    /\ idle' = IF Diligent /\ Up # {} /\ lease # NoLease THEN idle + 1 ELSE idle
    /\ UNCHANGED <<leaseRows, clients, restarted, renewal, finish, expiry, ghosts>>

LeaseNext ==
    \/ \E f \in 0..MaxFence : JobClaimByID(f) \/ RenewBegins(f) \/ ReadsLeased(f)
    \/ JobLeaseRenew \/ FinishWrites \/ FinishTxEnds \/ CancelJob
    \/ ExpireBegins \/ ExpireLocks \/ ExpireReleases
    \/ \E c \in Starts : ClientStarts(c) \/ Crash({c} \cap Up)
    \/ Crash(Up)
    \/ Tick

LeaseSpec == LeaseInit /\ [][LeaseNext]_leaseVars

(***************************************************************************)
(* Properties.                                                              *)
(***************************************************************************)
\* A job runs without a client exactly while the lease of its claim is there,
\* though the expiry, the result and a cancel each read the two rows at
\* different times: no job is left running with nothing to end it.
LeaseOwnsJob == job.st = "running" <=> lease # NoLease /\ lease.fence = job.fence

\* An attempt ends once, by its result or by the expiry, and a Finish that
\* returned without an error is the one that ended it.
EndsOnce ==
    /\ \A a, b \in ended : a[1] = b[1] => a = b
    /\ \A f \in acked : <<f, "finish">> \in ended

\* No lease is expired before the time its last renewal, or its claim,
\* told the holder.
RenewedIsKept ==
    \A f \in 1..MaxFence : <<f, "expiry">> \in ended' \ ended => lease.fence = f /\ lease.expires <= time

\* "Renew about every TTL/3" (LeaseOpts): a renewal that takes as long as the
\* wait for it leaves some of the TTL.  And a client that dies keeps its row
\* for less than a lease is given after a restart (15 seconds and a minute, by
\* default): a start of its own would count from before the restart.
RenewsInTime ==
    /\ 2 * Patience < LeaseTTL
    /\ 2 * Patience + ClientTTL <= Greater(LeaseTTL, Grace) + 1

\* A holder who renews in time whenever a client is there to renew through
\* keeps the lease, whatever the clients do and however long the cluster was
\* down.
OutlastsRestart == Diligent /\ RenewsInTime => \A a \in ended : a[2] # "expiry"

\* An external lease owns its job until it ends, which it does once, and not
\* while it is renewed in time (leases.go).
LeasesSound == [][LeaseOwnsJob' /\ EndsOnce' /\ OutlastsRestart' /\ RenewedIsKept]_leaseVars
=============================================================================
