---------------------------- MODULE FlowControl ----------------------------
(***************************************************************************)
(* Claims on a queue with limits: the global limit on running jobs, the     *)
(* limit per partition key and the token bucket of the rate limit, as both  *)
(* engines keep them in the queue's row.  PostgreSQL locks the row, counts  *)
(* in a second statement and claims in a third; its now() is the start of   *)
(* the transaction, before the wait for the lock.  SQLite does the same     *)
(* under its write lock.  Limits change and jobs finish meanwhile.          *)
(*                                                                          *)
(* Every client knows the queue is limited (QueueControl models how).  Time *)
(* is in ticks, tokens in parts: Part of them let one job start.            *)
(***************************************************************************)
EXTENDS Integers, FiniteSets

CONSTANTS
    FlowJobs,     \* jobs of the queue, waiting at first; naturals in claim order
    PartitionOf,  \* [FlowJobs -> partition key]
    Claimers,     \* clients that claim
    Limits,       \* [global, rate, burst, partition] that QueueSetLimits sets; 0: none
    Engines,      \* "pg", "sqlite"
    Part,         \* parts of a token; rate is in parts per tick
    MaxTicks,     \* bound on the clock
    MaxSets       \* bound on QueueSetLimits

ASSUME FlowAssumption ==
    /\ FlowJobs \subseteq Nat /\ IsFiniteSet(FlowJobs)
    /\ Part \in Nat \ {0} /\ MaxTicks \in Nat /\ MaxSets \in Nat
    /\ Limits \subseteq [global : Nat, rate : Nat, burst : Nat, partition : Nat]

VARIABLES
    engine,
    limits,    \* the limits of the queue's row
    tokens,    \* its tokens, in parts; NoTokens for NULL
    refilled,  \* its refilled_at
    jobsAt,    \* [FlowJobs -> waiting, running or done]
    txs,       \* the claim transaction of each client
    tick,      \* database time
    sets,
    started    \* how many jobs were claimed before each time, since the rate was set

flowVars == <<engine, limits, tokens, refilled, jobsAt, txs, tick, sets, started>>

NoTokens == -1000
Times == 0 .. MaxTicks + 1
NoneStarted == [t \in Times |-> 0]
NoTx == [pc |-> "none", now |-> 0, limits |-> 0, running |-> 0]
RunningJobs == {j \in FlowJobs : jobsAt[j] = "running"}

FlowInit ==
    /\ engine \in Engines
    /\ limits \in Limits
    /\ tokens = NoTokens /\ refilled = 0
    /\ jobsAt = [j \in FlowJobs |-> "waiting"]
    /\ txs = [c \in Claimers |-> NoTx]
    /\ tick = 0 /\ sets = 0
    /\ started = NoneStarted

Lesser(a, b) == IF a <= b THEN a ELSE b

\* The bucket holds its burst, or a second's rate rounded up, and refills at
\* the rate since refilled_at.
Capacity(l) == IF l.burst > 0 THEN l.burst * Part ELSE ((l.rate + Part - 1) \div Part) * Part
\* Mutant: the bucket refills since the beginning.
AvailableSinceFirst(l, now) ==
    IF tokens = NoTokens THEN Capacity(l) ELSE Lesser(Capacity(l), tokens + l.rate * now)
Available(l, now) ==
    IF tokens = NoTokens THEN Capacity(l)
    ELSE Lesser(Capacity(l), tokens + l.rate * (now - refilled))

\* The smallest of the free slots, what the global limit leaves and the whole
\* tokens.
Budget(l, asked, running, now) ==
    LET global == IF l.global > 0 THEN Lesser(asked, l.global - running) ELSE asked
    IN  IF l.rate > 0 THEN Lesser(global, Available(l, now) \div Part) ELSE global

\* jobClaimPartitionedSQL: a job's rank among the waiting of its key, on top
\* of the key's running jobs, fits under the limit.
Slot(j) ==
    Cardinality({k \in FlowJobs : PartitionOf[k] = PartitionOf[j] /\ jobsAt[k] = "waiting" /\ k <= j})
    + Cardinality({k \in RunningJobs : PartitionOf[k] = PartitionOf[j]})
Admitted(l) == {j \in FlowJobs : jobsAt[j] = "waiting" /\ (l.partition > 0 => Slot(j) <= l.partition)}
FirstOf(S, n) == {j \in S : Cardinality({k \in S : k <= j}) <= n}

\* The claim statement, and the bucket's update if the queue has a rate.
ClaimRows(l, budget, now) ==
    LET claimed == IF budget <= 0 THEN {} ELSE FirstOf(Admitted(l), budget)
    IN  /\ jobsAt' = [j \in FlowJobs |-> IF j \in claimed THEN "running" ELSE jobsAt[j]]
        /\ IF budget > 0 /\ l.rate > 0
           THEN /\ tokens' = Available(l, now) - Cardinality(claimed) * Part
                /\ refilled' = now
                /\ started' = [t \in Times |-> IF now < t THEN started[t] + Cardinality(claimed) ELSE started[t]]
           ELSE UNCHANGED <<tokens, refilled, started>>

(***************************************************************************)
(* PostgreSQL: lock first, count second, claim third.                       *)
(***************************************************************************)
\* Mutant: nobody waits for the row.
RowNeverLocked == FALSE
RowLocked == \E c \in Claimers : txs[c].pc \in {"locked", "counted"}

TxBegins(c) ==
    /\ engine = "pg" /\ txs[c].pc = "none"
    /\ txs' = [txs EXCEPT ![c] = [NoTx EXCEPT !.pc = "begun", !.now = tick]]
    /\ UNCHANGED <<engine, limits, tokens, refilled, jobsAt, tick, sets, started>>

LocksQueue(c) ==
    /\ txs[c].pc = "begun" /\ ~RowLocked
    /\ txs' = [txs EXCEPT ![c].pc = "locked", ![c].limits = limits]
    /\ UNCHANGED <<engine, limits, tokens, refilled, jobsAt, tick, sets, started>>

CountsRunning(c) ==
    /\ txs[c].pc = "locked"
    /\ txs' = [txs EXCEPT ![c].pc = "counted", ![c].running = Cardinality(RunningJobs)]
    /\ UNCHANGED <<engine, limits, tokens, refilled, jobsAt, tick, sets, started>>

ClaimLimitedPg(c) ==
    /\ txs[c].pc = "counted"
    /\ \E asked \in 1..Cardinality(FlowJobs) :
        ClaimRows(txs[c].limits, Budget(txs[c].limits, asked, txs[c].running, txs[c].now), txs[c].now)
    /\ txs' = [txs EXCEPT ![c] = NoTx]
    /\ UNCHANGED <<engine, limits, tick, sets>>

\* SQLite: under the write lock, at the time it was taken.
ClaimLimitedSqlite(c) ==
    /\ engine = "sqlite"
    /\ \E asked \in 1..Cardinality(FlowJobs) :
        ClaimRows(limits, Budget(limits, asked, Cardinality(RunningJobs), tick), tick)
    /\ UNCHANGED <<engine, limits, txs, tick, sets>>

\* A new rate empties tokens, which reads as a full bucket.
QueueSetLimits ==
    /\ ~RowLocked /\ sets < MaxSets
    /\ \E l \in Limits :
        /\ limits' = l
        /\ tokens' = IF l.rate # limits.rate THEN NoTokens ELSE tokens
        /\ started' = IF l.rate # limits.rate \/ l.burst # limits.burst THEN NoneStarted ELSE started
    /\ sets' = sets + 1
    /\ UNCHANGED <<engine, refilled, jobsAt, txs, tick>>

Finishes(j) ==
    /\ jobsAt[j] = "running"
    /\ \E st \in {"waiting", "done"} : jobsAt' = [jobsAt EXCEPT ![j] = st]
    /\ UNCHANGED <<engine, limits, tokens, refilled, txs, tick, sets, started>>

Ticks ==
    /\ tick < MaxTicks
    /\ tick' = tick + 1
    /\ UNCHANGED <<engine, limits, tokens, refilled, jobsAt, txs, sets, started>>

FlowNext ==
    \/ \E c \in Claimers : TxBegins(c) \/ LocksQueue(c) \/ CountsRunning(c) \/ ClaimLimitedPg(c) \/ ClaimLimitedSqlite(c)
    \/ \E j \in FlowJobs : Finishes(j)
    \/ QueueSetLimits \/ Ticks

FlowSpec == FlowInit /\ [][FlowNext]_flowVars

(***************************************************************************)
(* Properties.                                                              *)
(***************************************************************************)
RunningFits ==
    LET claimed == {j \in FlowJobs : jobsAt[j] = "waiting" /\ jobsAt'[j] = "running"}
        now == {j \in FlowJobs : jobsAt'[j] = "running"}
    IN  claimed # {} =>
        /\ limits.global > 0 => Cardinality(now) <= limits.global
        /\ limits.partition > 0 => \A j \in claimed :
            Cardinality({k \in now : PartitionOf[k] = PartitionOf[j]}) <= limits.partition

RateFits ==
    limits.rate > 0 => \A s, t \in Times : s < t =>
        (started[t] - started[s]) * Part <= Capacity(limits) + limits.rate * (t - 1 - s)

\* A claim leaves no more jobs running than the limits the row holds allow,
\* in all and per partition key, however the claims of the clients and a
\* change of the limits interleave (claimLimited: lock first, count second).
\* And between any two times, no more jobs start than the bucket holds and
\* the rate adds, though a transaction's time is from before its wait for the
\* row, and an earlier time can refill the bucket after a later one.
LimitsHold == [][RunningFits /\ RateFits']_flowVars
=============================================================================
