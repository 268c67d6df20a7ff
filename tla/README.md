# A TLA+ model of hopper

Hopper is a job queue and message broker for Go on PostgreSQL or SQLite.
Clients insert jobs, claim them, run workers on them and write the results
back; one client at a time leads and recovers what others lose. This directory
holds TLA+ modules of its parts, TLC runs on small instances of them and
TLAPS proofs for all instances. Every definition is translated from the Go
source and its SQL; `PROJECT.json` maps each to the lines it stands for, and
lists the hazards of the code with the properties that cover them.

## 1. The system

| Part | State | Hard behaviour | What must hold |
|---|---|---|---|
| Job store | live table, history, fences, seqs, client and job leases | results written twice or late; a rescue acting on rows read earlier; jobs going to history and back | one result per claim; an ordering key runs one job, the oldest; a unique key has one live job; lost jobs are recovered |
| Leader election | `hopper_leader`, each client's term and its local deadline | lost and late answers, a client fenced under a new ID, duties running as a lease lapses | one active term; no duty overlaps a lease given up; somebody leads again |
| Workflows and batches | edges, results, batch rows | cascades that end groups, finishes in one flush, overlapping snapshots, retries of finished jobs | counts are exact, callbacks run once, no job waits for nothing |
| Finalizer | buffered results, submits in flight, held batches | a stop racing a submit; unknown commit outcomes; held rows | every submitted result is written, dropped because fenced, or reported |
| Client | client ID, generation, running jobs, queue states | stale readings applied late; a job rescued and claimed again by the same client | a newer pause is never undone by an older reading; a stop ends and loses nothing |
| Flow control | limits, token bucket, partitions | lowered limits, waits between reading and claiming | never more running or started than allowed |
| Inserts, workflow building, messaging, listing | rows, deduplication, pages | statements of two calls interleaving, jobs moving between pages | what is stored is what was asked |
| Periodic jobs and cron | last slot, shared definitions, time zones | two leaders in turn, two releases, clocks that jump | one job per slot, at the right time |
| Migrations | versions and their objects | processes of several releases at once, failing and dying | the schema is whole |
| PostgreSQL's own | snapshots, row locks, partitions, indexes, streams | statements that meet on rows; late commits; drops during builds | as SQLite, by other means |
| SQLite's own | one write lock, notification rows | waiting across processes, transactions SQLite ends itself | no write lost or made twice |

How the parts meet: a client's producer claims from the store, its workers end
in results that the finalizer writes back through the store's fenced finalize,
whose tail moves workflows and batches on. The leader's duties call the same
store operations as everyone else. The election only decides who runs them, so
a wrong election costs work done twice, and the store's fences are what keeps
jobs right. That is why the store is the core of this development.

## 2. Modules

| Module | Models |
|---|---|
| `FencedClaims` | abstract: a job has one holder at a time, every claim a higher fence, a result ends the claim it is of |
| `JobStore` | SQLite's jobs, client leases and job leases, and what their holders remember |
| `Workflow`, `PgWorkflow` | one workflow on SQLite; on PostgreSQL, with statements on snapshots |
| `LeaderElection` | the lease row, every client's leader loop, its terms and their local fence |
| `Periodic`, `Cron` | a periodic job's slots; whose definition is scheduled; the next time of a schedule |
| `Migrate` | migrations up and down by several processes |
| `Client` | start, claim loop, attempts, loss of the lease, stop |
| `QueueControl`, `FlowControl` | following pauses and limits; claiming under limits |
| `Finalizer`, `FinalizeWrite`, `SettleRetrier` | the loop and its drain; what a flush does with the database; batches settled again |
| `JobSteps`, `StuckWatch`, `Await`, `Notifier` | a job's steps; the watch on canceled workers; waiting for a job; announcing queues and topics |
| `JobLogs`, `LogFollow` | writing logs and their retention; following one |
| `Inserts`, `Messaging`, `JobListing` | inserting calls and building a workflow; publish and subscribe; pages of jobs |
| `PgJobs`, `PgLeases`, `PgHistory`, `PgHistoryIndex` | PostgreSQL's job statements, external leases, history partitions, the build of their indexes |
| `Streams` | stream logs and consumers, in both engines |
| `SqliteConn`, `SqliteListen` | SQLite's write lock and transactions; its notifications |
| `MC...` | instances for TLC |
| `...Proofs` | theorems and proofs (section 4) |

An `MC` module that has several parts gives each behaviour one of them
(`part`); the others keep a first state. The parts share a run, not a state.
Where two components really interact, one module has both sides: the store and
its holders in `JobStore`, a flush and the rows in `FinalizeWrite`, the client's
lease and its attempts in `Client`.

**JobStore.** `jobs[j]` is a job's row, its state saying which table it is in
("absent" before the insert, "deleted" once in neither). `leases` is
`hopper_job_leases`, `clients` is `hopper_clients`, and `nextSeq` the
AUTOINCREMENT that orders jobs. A write transaction holds SQLite's only write
lock, so each engine operation is one action. What is not atomic is around it:
`claims` keeps what every holder was told, for ever, so that any result of any
claim can be written at any time and any number of times, which covers crashes
(never), late results, and writes repeated because their answer was lost.
`lost` does the same for the candidates a rescue pass has read. Action names
are the engine's method names; `JobRetryHistory` and `JobRetryLive` are the two
cases of `JobRetry`, `LeaseFinish` is the finalize of a leased job. Its queues
are not paused: a pause would only refuse claims, those by ID among them, and
how a client follows one is `QueueControl`.

**Workflow.** `Finish` is what every write that ends jobs does after its own
checks, in the order of `tail`: record results, walk the cancel edges
(`Cascade`, with `Reach` one round of the walk), count the batch down
(`Counted`), insert callbacks, promote dependents (`Ready`), drop edges. The
walk is a breadth-first queue in the code. Here it is the least set that no
round adds to: what the queue reaches depends on the set reached and not on the
order, since the last job of a group to go is looked at when all of them have
gone. That a round only gets larger with the set is lemma `ReachGrows`. `state`
keeps the outcome of a job that has left the live table, so that properties can
compare what the code decides from `results` with what really happened.

**LeaderElection.** An attempt is three steps (`Send`, `Apply`, and the
`Receive...` action of its answer), with time, other clients and failures in
between. Times are kept as what is left of them: `lease.left` is
`expires_at - now`, `term[p]` what `leaseFence.until` leaves, `timer[p]` what is
left of a TTL counted from the sending, or of the hold-off. `Fence` gives a
client a new ID; `GiveUp...` are the three places that delete the lease.

**Finalizer, FinalizeWrite.** Goroutines and `run` share counters and channels,
so a step is one atomic or channel operation: a submit is `Submit`, `Acquire`
(the log budget), `Hand` (the send) and `SubmitDone`; `stopIfIdle` is
`StopLoad`, `StopCheck` and `StopSwap`. The counters only grow, so the model
keeps their difference. In `FinalizeWrite` each statement is one step, with
callers' and workers' transactions that hold rows, `CompleteTx`, rescues, new
claims and deletes in between; `WriteFails` may or may not have had its effect.

**QueueControl.** A queue's state is the number of changes committed to it. A
reading is a snapshot of those numbers, taken outside `c.mu` and applied under
it; `controlSeq` and `appliedFrom` are the code's.

**Client modules.** `Await` keeps the slice `signalDone` walks after the unlock
as the backing array that `awaitCancel` shifts under it. `Notifier` has one step
for each of the three times a timer's callback takes the lock. `JobSteps` has
several attempts of one job at once, as after a rescue.

**PostgreSQL modules.** A statement has a begin, where it takes its snapshot,
and an end, where the rows it chose are checked again as they are by then
(READ COMMITTED). A row another transaction has written is waited for: the end
is not enabled until that transaction has ended. SQLite modules have one step
per transaction, but in `SqliteConn`, which is about the lock itself.

**Data.** A delay, a TTL, attempts and priorities are members of small sets;
errors, outputs, metadata and arguments are left out. In `Cron` the radices of
the calendar are constants: the loops only use that a field wraps to its first
value. In `Messaging` a topic is a sequence of words, matched as the code does.

## 3. Runs

| Run | Instance | Checks |
|---|---|---|
| `fencing` | one job, two clients, a lease holder; 3 claims, 2 passes through the live table | `ClaimsSound`, `AtMostOneResult`, `FinishedIsFinal`, `KeepsLedger` |
| `ordering` | two jobs of one ordering key, delays 0 and 1 | `OneRunningPerKey`, `OldestRunsFirst`, `WakeHonored` |
| `inserting` | two jobs of one unique key; two calls of up to three statements; three steps with two groups; two subscriptions; three listed jobs | `UniqueWhileLive`, `StoredAsAsked` |
| `leading` | two clients, TTL 2, two faults; two terms of a periodic job; two releases; short calendars; two migrators on each engine | `TermsSound`, `OneActiveTerm`, `SchemaWhole`, `QuietHandover`, `ScheduleKept`, `CronFinds` |
| `leader_liveness` | two clients, TTL 1, one with duties, one fault, under fairness | `RequestedStepsDown`, `SomeoneLeads` |
| `workflow` | 15 graphs of four jobs, flushes of two, two retries (SQLite); three jobs, two sessions and a leader (PostgreSQL); under fairness | `WorkflowSound`, `WorkflowSteps`, `WorkflowsComplete` |
| `finalizer` | three results, one holdable, one committed, around a stop, under fairness | `FinalizerSound`, `DrainEnds`, `ResultsHandled` |
| `client` | twelve parts of a client, see `Client.cfg` | `ClientSound`, `ResultsSound`, `FollowsQueue`, `StepsExact`, `StuckSound`, `LimitsHold`, `LogsSound` |
| `engines` | nine parts of the engines, see `Engines.cfg` | `EnginesSound`, `SqliteStreamInOrder`, `HeardInOrder`, `PgJobsSound`, `LeasesSound`, `HistorySound` |
| `progress` | seven parts, under fairness | `LostJobsRecovered`, `HeldDelaysOnlyItself`, `ClientEnds`, `CatchesUp` |
| `cron_midnight` | zones that skip midnight, days restricted | `NextReturns`: violated |
| `batch_stranded` | two inputs of one unique key in a batch | `BatchesEnd`: violated |

What they show:

- *Store.* Whatever order late results, rescues, expiries, cancels, deletes and
  retries from history come in, a claim has at most one result applied, to that
  claim (`KeepsLedger`: the store implements `FencedClaims`). Late writes do not
  reach history. Two jobs of one ordering key never run together or out of
  order, and a wake that finds the job running is kept through its end.
- *Leader.* A term that its client's clock has not ended is the one in the
  lease row, so no two are active. Duties running as a lease lapsed may overlap
  the next leader's, as `leader.go` says at its top; a lease *given up* leaves
  none. A slot of a periodic job is inserted once over takeovers and statements
  that commit late; a schedule starts over only for another definition, or for
  the client's own when it was added again.
- *Workflows.* The batch row stays exact over every mixture of failures,
  cascades and retries; on SQLite the sweeps find nothing, as the comment at the
  top of `finalize.go` says. `JobRetry` of a pending job makes it run before its
  dependencies, so `PromotionIsSound` is about promotions a finish makes. On
  PostgreSQL two finishes may each miss the other; follow-ups and sweeps close
  the gap.
- *Finalizer.* A stop loses no result submitted before the drain ended (but for
  the race below); the drain ends even if rows stay held for ever. Whatever
  statements fail, before or after their commit, only a stop leaves a finished
  attempt's job running, and every job finished is followed up.
- *Client and engines.* A change a call has returned for stays applied; a step
  recorded in its transaction commits once; a queue's limits are kept by two
  claimers at once in both engines; a log is complete or says what it lacks;
  external leases end once and survive a restart; history and its tags go
  together, a tags row outliving its job only past the retention; a consumer of
  a PostgreSQL stream gets no event before one whose transaction had committed
  when its own began; SQLite's notifications are heard once, in order.
- *Migrations.* The objects are those of the versions recorded whoever migrates,
  fails or dies. Gaps come only from a `Down` by a release that does not know
  the newest version.

### Disagreements with what the code says

Two have a run:

- `cron_midnight`. `CronSchedule.Next` does not return where the clocks skip
  midnight west of UTC and the schedule restricts the day: `time.Date` of the
  missing midnight is 23:00 of the day before, and the day loop (`cron.go:245`)
  begins again.
- `batch_stranded`. A batch's total counts every input (`batch.go:73`), but one
  that folds into an earlier input of its unique key is never inserted
  (`insert.go:113`), and one that a live duplicate answers joins no batch
  (`hoppersqlite/jobs.go:164`). Nothing counts them off, so the batch never
  completes. The trace is the shortest, a fold.

The others are stated in the modules as a property that fails, named here, next
to the weaker one that a run checks (where the weaker one only adds a
condition, it is the one named):

| Comment | What the code does | Property |
|---|---|---|
| `finalizer.go:194`, `stopIfIdle` "reports whether the submits in flight are done" | a submit refused between its two loads makes up for one still in flight | `Finalizer!StopWaitsForAll` |
| `complete.go:33`, an attempt whose transaction did not commit fails | `readTx` takes a job it does not find for a committed one, also if it was rescued and deleted | `FinalizeWrite!CompletedOnlyIfCommitted` |
| `client.go:736`, "nothing runs until the next renewal attempt succeeds in registering" | a claim under way as the fence came still starts its worker, canceled | `Client!NothingRunsUnregistered` |
| `await.go:231`, `signalDone` "wakes waiters on a finalized job" | a waiter leaving during the walk shifts another past it; that one waits for its poll | `Await!SignalReachesAll` |
| `driver/driver.go:24`, `ErrNotFound` "when a job does not exist, live or in history" | PostgreSQL's `JobRetry` can miss a job that moves between its statements | `PgJobs!RetryKnows` |
| the same | two moves back from history with a finish between them hide a job from all four looks of `JobDelete` | `PgJobs!DeleteKnows` is for one move |
| `pgsql/jobs.go:1894`, "one that ends after sees the mark" | an earlier call that is still to mark puts its own time, of before the attempt began, in place of the later mark, and the wake is lost | `PgJobs!WakeNotLost` is for calls that begin while no other is still to mark |
| `stream.go:196`, "paging by the last position never skips an event" | on PostgreSQL an event that commits late is skipped by a reader past it | `Streams!ReadSkipsNothing` |
| `stream.go:160`, an event of `AppendTx` "is delivered after events of every transaction that started before tx, however they commit" | on PostgreSQL a transaction that commits after a pump is delivered after later ones the pump had seen | `Streams!DeliveredByStart` |
| `hoppermigrate/hoppermigrate.go:63`, "Version is the schema version afterwards" | a `Down` by an older release, which does not know the newest versions, leaves a gap below them and reports a version below the one that is there | `Migrate!VersionReported` |
| `client.go:269`, `checkSchema` "fails unless the database has every migration this release's statements rely on" | it compares the highest version, and a client starts above such a gap | the last part of `Migrate!SchemaWhole` is for schemas no `Down` has cut |
| `pgsql/history.go:108`, tags go after their jobs | the prune skips a row an open transaction holds; if that rolls back before the tags' drop, the job stays without its tags | `PgHistory!TaggedInHistory` |
| `messaging.go:44`, "#" matches zero or more words | `#.#.a` does not match `a` | `Messaging!RoutedAsDocumented` |
| `messaging.go:197`, `MessageID` identifies a message across its deliveries | if the first delivery is a duplicate, the ID returned is that of the earlier message | `Messaging!MessageIDShared` |

One more was met while modelling: a replacing insert can lower `max_attempts`
below the attempts made (`AttemptWithinMax` is for jobs without a unique key).

### Bounds

Every bound is a constant in a guard.

- *Store.* `MaxFence` 3 lets results of two earlier claims arrive during a
  third; `MaxSeq` 2 is one return from history; `MaxNow` lets a client's lease
  lapse, and a job lease after a renewal. Two jobs are enough for properties of
  pairs.
- *Leader.* A takeover takes a stamp (`elected_at`) that nothing remembers any
  more, and `Stamps` has enough of them. TTL 2 lets an answer use up part of a
  lease.
- *Workflow.* Four jobs are the fewest with a diamond, and with a group below a
  cascade. `MaxOverrides` bounds requeues and retries together, so
  `WorkflowsComplete` speaks of workflows that are not re-driven for ever.
- *Finalizer.* Three results with batches of two make the batch, the budget and
  the submits at the stop overlap; one log alone is over the budget.
- *FinalizeWrite.* Two attempts are the fewest for a late result of an earlier
  claim; `MaxWriteFaults` 2 lets a statement fail after its commit and the read
  after it fail as well.
- *QueueControl.* Two changes of one queue, a renewal and an Add: the fewest for
  a reading that is overtaken by one that an Add overtakes.
- *FlowControl.* Three jobs in two partitions, three ticks, one change of the
  limits.
- *PostgreSQL.* Two connections, since every gap is between two statements;
  the theorems are for any number. `MaxRestores` 2 lets a job be moved back from
  history twice under a delete; `MaxClock` 5 counts the claims, inserts and wakes
  together, one fewer in the behaviours with a delete (`FewerWithDelete`), which
  no wake's property needs. `MaxTime` 7 is a lease, a restart and a renewal
  after it.
- *SQLite.* Writers of two processes, of each kind of transaction. Three events
  and three rounds of a stream are the fewest for a number given out again after
  a rollback and read past.

Deadlock is not checked where a system with its bounds used up may stop; the
leader's liveness run checks it, as time always passes.

### Fairness

- Leader: time passes, duties finish (their context is canceled) and a loop
  that is up goes on. The last is strong: an action that ends a term waits for
  its duty, and in the code the loop cancels the term's context before it
  waits, so no new duty keeps it from its step.
- Workflow: waiting jobs are claimed and running ones end in a result, which
  producers, time-outs and the rescue provide. PostgreSQL: statements end, and
  the leader's sweeps run again and again. Strong where a statement needs rows
  that others hold in between; row locks are granted in turn.
- Finalizer: goroutines are scheduled and the deadline passes. Strong for what
  waits with others: Go's `select` picks among ready cases at random, senders
  on a channel are served in order, and a release wakes all who wait for the
  budget. Nothing is assumed of workers, or of rows being let go.
- `progress`: the leader's passes run, and of clients, workers and operators
  nothing; a stop's and an Await's own goroutines go on; a follower polls; a
  listener's timer fires; the index's passes go on and a migration gets the
  lock it waits for.

All clocks run at the same rate; the database's may show any time relative to
the clients'. `leaseFence` relies on the same.

## 4. Proofs

Proved with TLAPS for every value of the constants, from the assumption each
module names (`JobStoreAssumption`, `LeaderAssumption`, `StepsAssumption`,
`QueuesAssumption`, `MigrateAssumption`, `WorkflowAssumption`, `FlowAssumption`,
`LeaseAssumption`, `PgJobsAssumption`, `FinalizerAssumption`,
`ListenAssumption`, `SqliteStreamAssumption`): numbers are
natural numbers, positive where the code checks that they are, "none" is not a
member; `MigrateAssumption` says that some release is the newest, and
`StepsAssumption` that only a last step completes its job, as `CompleteTx` ends
the attempt. Deliberately not assumed: that sets of jobs, clients, connections
or releases are finite (but for the jobs of a workflow, `1..N`, those of a
limited queue and a client's results, which are counted).

| Theorem | Says |
|---|---|
| `JobStoreProofs!TypeCorrect`, `LedgerKept`, `ResultsOnce` | `TypeOK`; the store implements `FencedClaims` (`KeepsLedger`); `AtMostOneResult` |
| `JobStoreProofs!KeyRunsOne`, `KeyRunsOldest`, `UniqueKept` | `OneRunningPerKey`, `OldestRunsFirst`, `UniqueWhileLive` |
| `JobStoreProofs!ClaimsKept`, `FinishedKept`, `WakeKept` | `ClaimsSound`; `FinishedIsFinal`; `WakeHonored` |
| `LeadingProofs!TermHoldsLease`, `OneLeader`, `TermsKept`, `HandoverQuiet` | `LeadsUnderLease`; `OneActiveTerm`; `TermsSound`; `QuietHandover` |
| `LeadingProofs!SchemaKept` | `SchemaWhole` |
| `StartProofs!WorkflowKept`, `CallbacksKept` | `WorkflowSound`; `WorkflowSteps` |
| `ClientProofs!StuckKept`, `StepsKept`, `QueuesFollowed` | `StuckSound`; `StepsExact`; `FollowsQueue` |
| `StartProofs!LimitsKept` | `LimitsHold` |
| `LeaseProofs!LeasesKept` | `LeasesSound` |
| `PgJobProofs!JobsKept`, `DeleteKept` | `PgJobsSound`; `DeleteKnows`, a part of `EnginesSound` |
| `FinalizerProofs!FinalizerKept` | `FinalizerSound` |
| `LogProofs!ListenKept`, `SqliteStreamKept` | `HeardInOrder`; `SqliteStreamInOrder` |

So every safety property of the runs `fencing`, `ordering` and `workflow` is
also a theorem, and in `leading` all but the schedule's.

*The ledger.* `RowClaims` says of each row an operation writes which state and
fence it has. With it every action is one of three kinds: it leaves states
"running" and fences alone (`LedgerStutter`), ends the claim a result is of
(`LedgerEnd`) or claims at the next fence (`LedgerTake`). The one fact it needs
beyond types is `AbsentUnclaimed`, that a job not yet inserted has fence 0.
`ResultsOnce` is then an induction over the ledger alone, with `NoneYet`: the
running claim, and fences not reached, have no result yet.

*The keys.* That a claim picks the oldest says nothing of jobs that join later:
`KeyInv` adds `SeqsFresh`, that live jobs have distinct seqs below `nextSeq`.
Every step but a claim is a `QueueStep`: what is live after it was live before
with its seq, or has just joined at the end with a unique key no live job has.

*Claims.* `ClaimInv` relates the holders' memory to the rows: claims known have
fences up to the row's, a running row's claim is known, a lease stands exactly
for a running job no client owns, what a rescue has read stays lost (a client's
lease, once gone, does not come back under the same ID) and attempts are
counted. `FinishedKept` and `WakeKept` are step properties from it.

*The leader.* `LeadsUnderLease` needs what is in flight. `LeaseInv` adds
`Answers` (a positive answer not yet received, with time left on its timer, is
of the lease in the row, and the row outlives it: the timer counts from the
sending, which the transaction came after), `OwnIDs` (IDs of two clients
differ) and `Quiet` (no term where the loop gives the lease up). One leader
follows since one row has one ID; `DutyInTerm`, that a duty runs only in a term,
gives the quiet handover.

*Migrations.* Any release may revert, and one that does not know the newest
versions leaves a gap. So there are two invariants. `BalanceInv` holds always:
only the holder of the migration lock is inside a migration, what is committed
has the objects of the versions it records (`Matched`), and what the holder sees
does too, but for the one version it is in the middle of (`Balanced`).
`MigrateInv` holds while nothing was cut: what the holder sees open is the first
k versions (`HolderSees`), and what is committed is whole (`Committed`).
`SchemaInv` has both, with `cut` telling which; a run that leaves no gap ends a
cut, as the next `Up` of any release that knows the versions does. That the set
of versions has a least and a largest member, which `NextVersion` and `Highest`
choose, is by well-foundedness of the numbers. The two engines differ in when
open becomes committed, per version or at the close.

*Workflows.* `WorkflowInv` has the parts of `WorkflowSound` and what they need:
the edges are of a graph `CheckDependencies` accepts, and of dependents that
are live (`EdgesLive`); a completed batch has left no edges or results (`Over`);
and callbacks exist only then. The argument of a
finish is in steps that do not depend on the operation: the walk ends
(`CascadeEnds`, from the monotony `ReachGrows` and least fixed points, so that
no induction is needed), what it cancels is what some policy says, what it
spares is held by a live job, and the counts follow by cardinalities of what
left (`Ending...`). `FinishKeeps` puts them together for any set of jobs that
end, and each operation is then a case of it. `NothingToSweep` derives that the
sweeps' predicates are empty.

*The client.* `StuckInv` says who is left to look at `done`: a timer still
armed after the worker returned has an AfterFunc that has not ended.
`StepInv` relates progress, committed transactions and the attempts still
running: an attempt that is fenced records nothing, and one that is not has
read the latest progress. `QueueInv`: a reading that no later one has begun after has
every change a call has returned for (`ReadingsFresh`), what a newer reading has
overtaken is applied (`OvertakenApplied`), what an Add read stays new enough
to start with (`AddFresh`), and a reading beyond the two of a re-read is paid
for by an Add (`ReadsPaid`).

*Limits.* `FlowInv`: who holds the queue's row knows the limits in it and has
counted no fewer jobs than run, since only finishes come in between
(`LockSound`). For the rate, `BucketSound`: in any interval with a claim, what
was claimed and the tokens left are together no more than the bucket holds and
the rate has added from the interval's start to the last refill. It is the
tokens in the sum that make it inductive, and the time of the last refill, not
the clock, that makes it true: a transaction's time is from before its wait for
the row, so a refill can go back. That a claim takes no more than its budget,
and no more of a key than its limit, is about the largest job it takes
(`FirstOfFits`, `ClaimRuns`), which exists by well-foundedness of the numbers.

*Job leases.* `LeaseInv` says that a lease's row is of the attempt that runs and
counts from its renewal (`RowsMatch`), that who holds the job's row finds it
running as it read it (`HoldersSound`), and that what has ended is past
(`EndedBefore`). The restart needs `DiligentInv`: while a client is up, either
the lease was renewed within twice the holder's patience (`Recent`), or every
client up has started since, no longer ago than the holder has been idle
(`SinceRestart`); and a client that started after the renewal and died has a row
that lapses soon after it (`DiedEarly`). So the expiry never finds the lease due
(`NeverDue`). All of this is under `RenewsInTime`, a hypothesis of the property:
twice the holder's patience is less than the TTL, and a dead client's row lapses
before the time a lease is given after a restart. With a TTL and a
`JobLeaseGrace` both shorter than a client's own lease the second fails, and the
row of a dead client then counts as a start from before the restart.

*Jobs on PostgreSQL.* A statement that waited for a row goes on from what its
snapshot said of the others, so what it relies on must hold of rows it no longer
looks at. `JobsInv`: two transactions hold two rows (`HoldersApart`), a held row
is as it was found (`HeldAsFound`), and who is about to give the unique key to a
job is alone in it (`KeyAlone`), which the look into history after the index's
answer needs. `WakeInv`, for any number of `JobRetryOrderingKey` calls of the
key: an attempt the call must reach is in its first snapshot until it is marked,
marked after that, and in its second one if it went to sleep before
(`WakeReaches`). A later call's mark only raises an earlier one; for the reverse,
a call that began while no other was still to mark began before all that mark
after it (`CallTimes`). Of any other call the wake may be lost, see section 3.
`DeleteInv` follows the four looks of a `JobDelete`: a job that is there and that
the first look missed is in history at the second unless it was moved back, and
after one move is live at the third or, finished again, in history at the fourth
(`DeleteSees`).

*The finalizer.* `FinInv`: the submits counted open are the results under way and
those about to say they are done (`Counts`); what was given is in the channel or
the batch, once (`Given`); `stopIfIdle` closes on what it loaded only if no
submit has started since (`Idle`); and the budget's `used` is the log bytes of
the results that hold some, and of the chunk being flushed (`Budget`). The
lemmas below it are about what a flush cuts off a batch and what the deadline
drops from it. Both are recursive, and are proved by the least number at which
they would fail (`LeastOf`), which well-foundedness of the numbers provides; so
an induction is possible here where its step can be stated as a set.

*Logs on SQLite.* A listener and a consumer both read on from a number they
remember. `ListenInv`: nothing heard or pending is past the number up to which
the listener has read (`last`), and something is pending exactly between a page
and the return of its last row. That a page takes the first rows, and not some,
is what keeps `last` from passing one; a prune only takes rows away. `EventInv`:
numbers are within what `sqlite_sequence` gave out, those of an open transaction
are beyond every committed one and beyond what the consumer and the reader have
seen, and nothing delivered is: so a number given out again after a rollback is
new to all. A batch is a set here: its order is the statement's `ORDER BY`.

Model-checked only:

- liveness, which needs ENABLED: `leader_liveness`, `progress`, `DrainEnds`,
  `ResultsHandled`, `WorkflowsComplete`;
- `Periodic` and `Messaging`, and what reaches them: their recursive operators
  take the SMT backend away from a proof. `Cron`'s search, whose many nested
  recursions would each need an induction of their own;
- `ClientSound`, `ResultsSound`, `LogsSound`, `StoredAsAsked`, the rest of
  `EnginesSound` and `HistorySound`, for which no inductive
  invariant has been worked out yet.

## 5. What is not modelled

Front ends (command line, web UI, telemetry), configuration and its validation,
checks of the file system, the encoding of IDs and parameters, COPY's wire
format, benchmarks and the conformance suite: I/O or code without state of its
own. Of the store: priority aging, the vacuum of the live table and the time
budgets of a maintenance pass. Of the client: how long a producer waits between
claims, and which result a panic or a time-out leads to (any, here). Of the
finalizer: the crash that only tests inject. PostgreSQL's own LISTEN, Go's
`time.Date`, the database's row locks and SQLite's lock are external: modelled
from how hopper uses them. `PROJECT.json` lists every part with its status.
