------------------------------- MODULE Client -------------------------------
(***************************************************************************)
(* The life of one client process (client.go, producer.go, execute.go and  *)
(* the running jobs of control.go): Start, the claim loop of a queue, the  *)
(* goroutine and context of each claimed job, the loss of the client's     *)
(* lease, and Stop.                                                        *)
(*                                                                         *)
(* The database is external here: a row per job, which a claim, a rescue   *)
(* or a result changes, and a row per client lease.  The finalizer is the  *)
(* promise of module Finalizer: a submitted result is written, or dropped  *)
(* when the finalizer ends.                                                *)
(***************************************************************************)
EXTENDS Naturals, Sequences, FiniteSets

CONSTANTS ClientJobs,
          MaxAttempts,  \* of every job
          Returns,      \* what workers return, of "completed", "snoozed", "failed", "cancel"
          MaxWorkers,   \* slots of the queue's producer
          MaxIDs,       \* leases the client may take
          MaxClaims     \* attempts this client may claim

VARIABLES life,      \* c.state and the contexts of its phases
          lease,     \* clientID and the lease generation
          rowLeases, \* hopper_clients
          jobRows,   \* hopper_jobs
          producer,  \* the claim loop
          attempts,  \* every attempt claimed here
          tracked,   \* c.running and c.replaced
          stop       \* the call that stops the client

clientVars == <<life, lease, rowLeases, jobRows, producer, attempts, tracked, stop>>

None == 0
Causes == {"none", "stopped", "fenced", "canceled", "replaced"}

ClientInit ==
    /\ life = [state |-> "idle", claim |-> FALSE, work |-> "none", fin |-> FALSE, bg |-> FALSE]
    /\ lease = [id |-> None, gen |-> 0, cause |-> "none", locked |-> FALSE]
    /\ rowLeases = [i \in 1..MaxIDs |-> "none"]
    /\ jobRows = [j \in ClientJobs |-> [state |-> "available", by |-> None, fence |-> 0, attempt |-> 0]]
    /\ producer = [pc |-> "off", id |-> None]
    /\ attempts = <<>>
    /\ tracked = [running |-> [j \in ClientJobs |-> None], replaced |-> {}]
    /\ stop = [pc |-> "none", cancel |-> FALSE, expired |-> FALSE, left |-> {}]

-----------------------------------------------------------------------------
(* Start and Stop before Start.                                            *)

\* register: the lease row of a new client ID.
FreeIDs == {i \in 1..MaxIDs : rowLeases[i] = "none" /\ i > lease.id}
Register(i) == i \in FreeIDs /\ \A k \in FreeIDs : i <= k

\* Start registers, declares what the client works and starts its loops.
Start(i) ==
    /\ life.state = "idle"
    /\ Register(i)
    /\ rowLeases' = [rowLeases EXCEPT ![i] = "live"]
    /\ lease' = [lease EXCEPT !.id = i, !.gen = 1]
    /\ life' = [state |-> "started", claim |-> TRUE, work |-> "none", fin |-> TRUE, bg |-> TRUE]
    /\ producer' = [producer EXCEPT !.pc = "loop"]
    /\ UNCHANGED <<jobRows, attempts, tracked, stop>>

\* declare fails: the lease is released again, or lapses if that fails too.
StartFails(i) ==
    /\ life.state = "idle"
    /\ Register(i)
    /\ \E left \in {"deleted", "lapsed"} : rowLeases' = [rowLeases EXCEPT ![i] = left]
    /\ lease' = [lease EXCEPT !.id = i]
    /\ UNCHANGED <<life, jobRows, producer, attempts, tracked, stop>>

\* Stop of a client that never started.
StopIdle ==
    /\ life.state = "idle"
    /\ life' = [life EXCEPT !.state = "stopped"]
    /\ UNCHANGED <<lease, rowLeases, jobRows, producer, attempts, tracked, stop>>

-----------------------------------------------------------------------------
(* The claim loop.                                                         *)

Unreturned == {i \in DOMAIN attempts : attempts[i].pc \in {"claimed", "running", "returned"}}
Free == MaxWorkers - Cardinality(Unreturned)

\* claimAndStart sends the claim, with the client ID of this moment.
ClaimBegin ==
    /\ producer.pc = "loop"
    /\ life.claim
    /\ Free > 0
    /\ producer' = [pc |-> "claiming", id |-> lease.id]
    /\ UNCHANGED <<life, lease, rowLeases, jobRows, attempts, tracked, stop>>

\* JobClaim: a job becomes running under the client ID it was sent with, live
\* or not.
TakenRow(j) == [state |-> "running", by |-> producer.id, fence |-> jobRows[j].fence + 1,
                  attempt |-> jobRows[j].attempt + 1]
ClaimJobs(S) == jobRows' = [j \in ClientJobs |-> IF j \in S THEN TakenRow(j) ELSE jobRows[j]]

\* run: the loop ends once the claim context has.
LoopOn == producer' = [pc |-> IF life.claim THEN "loop" ELSE "exited", id |-> None]

\* The claim returns and every job of it is started.
ClaimEnd(S) ==
    /\ producer.pc = "claiming"
    /\ Cardinality(S) <= Free
    /\ Len(attempts) + Cardinality(S) <= MaxClaims
    /\ \A j \in S : jobRows[j].state = "available"
    /\ ClaimJobs(S)
    /\ \E order \in [1..Cardinality(S) -> S] :
          /\ \A j \in S : \E k \in DOMAIN order : order[k] = j
          /\ attempts' = attempts \o [k \in DOMAIN order |->
                [job |-> order[k], by |-> producer.id, fence |-> jobRows[order[k]].fence + 1,
                 last |-> jobRows[order[k]].attempt + 1 >= MaxAttempts,
                 pc |-> "claimed", gen |-> 0, cause |-> "none", result |-> "none"]]
    /\ LoopOn
    /\ UNCHANGED <<life, lease, rowLeases, tracked, stop>>

\* The claim fails, and may have committed: its jobs then wait for rescue.
ClaimFails(S) ==
    /\ producer.pc = "claiming"
    /\ Cardinality(S) <= Free
    /\ \A j \in S : jobRows[j].state = "available"
    /\ ClaimJobs(S)
    /\ LoopOn
    /\ UNCHANGED <<life, lease, rowLeases, attempts, tracked, stop>>

\* The loop sees its context canceled while it waits.
ProducerExits ==
    /\ producer.pc = "loop"
    /\ ~life.claim
    /\ producer' = [producer EXCEPT !.pc = "exited"]
    /\ UNCHANGED <<life, lease, rowLeases, jobRows, attempts, tracked, stop>>

-----------------------------------------------------------------------------
(* Attempts.                                                               *)

\* The first cancellation of a job's context gives it its cause.
Canceled(a, why) == IF a.pc = "running" /\ a.cause = "none" THEN [a EXCEPT !.cause = why] ELSE a
CancelAll(S, why) == [i \in DOMAIN attempts |-> IF i \in S THEN Canceled(attempts[i], why) ELSE attempts[i]]

\* An attempt that is over; nothing of it matters any more.
Over(a, how) == [a EXCEPT !.pc = how, !.gen = 0, !.cause = "none", !.result = "none", !.by = None, !.fence = 0]

\* jobContext: the lease generation, or the work context on a last attempt.
ContextCause(a) == IF a.last THEN life.work ELSE lease.cause

\* execute of a job claimed as the stop canceled the jobs: it never runs and
\* gets its attempt back.
GiveBack(i) ==
    /\ attempts[i].pc = "claimed"
    /\ ~attempts[i].last => ~lease.locked
    /\ ContextCause(attempts[i]) = "stopped"
    /\ attempts' = [attempts EXCEPT ![i].pc = "returned", ![i].result = "giveback"]
    /\ UNCHANGED <<life, lease, rowLeases, jobRows, producer, tracked, stop>>

\* execute: trackRunning registers the claim, replacing and canceling an
\* earlier one of the job, and the worker runs.
Execute(i) ==
    LET a == attempts[i]
        prev == tracked.running[a.job]
    IN /\ a.pc = "claimed"
       /\ ~a.last => ~lease.locked
       /\ ContextCause(a) # "stopped"
       /\ attempts' = [CancelAll({prev} \ {None}, "replaced") EXCEPT
                          ![i] = [a EXCEPT !.pc = "running", !.cause = ContextCause(a),
                                           !.gen = IF a.last THEN 0 ELSE lease.gen]]
       /\ tracked' = [running |-> [tracked.running EXCEPT ![a.job] = i],
                      replaced |-> tracked.replaced \cup ({prev} \ {None})]
       /\ UNCHANGED <<life, lease, rowLeases, jobRows, producer, stop>>

\* outcome: what a worker's return makes of the attempt.
RunOutcome(a, returned) ==
    CASE returned \in {"completed", "snoozed"} -> returned
      [] returned = "failed" /\ a.cause = "replaced" -> "retryable"
      [] returned = "failed" /\ a.cause = "canceled" -> "canceled"
      [] returned = "failed" /\ a.cause = "fenced" /\ ~a.last -> "retryable"
      [] returned = "failed" /\ a.cause = "stopped" -> "giveback"
      [] returned = "cancel" \/ a.last -> "discarded"
      [] OTHER -> "retryable"

\* Mutant: the job's latest claim is removed, whichever returned.
WorkerReturnsLatest(i, returned) ==
    LET a == attempts[i] IN
    /\ a.pc = "running"
    /\ attempts' = [attempts EXCEPT ![i].pc = "returned", ![i].result = RunOutcome(a, returned)]
    /\ tracked' = [tracked EXCEPT !.running[a.job] = None]
    /\ UNCHANGED <<life, lease, rowLeases, jobRows, producer, stop>>

\* The worker returns; untrackRunning removes its claim, the latest or a
\* replaced one.
WorkerReturns(i, returned) ==
    LET a == attempts[i] IN
    /\ a.pc = "running"
    /\ attempts' = [attempts EXCEPT ![i].pc = "returned", ![i].result = RunOutcome(a, returned)]
    /\ tracked' = IF tracked.running[a.job] = i
                  THEN [tracked EXCEPT !.running[a.job] = None]
                  ELSE [tracked EXCEPT !.replaced = @ \ {i}]
    /\ UNCHANGED <<life, lease, rowLeases, jobRows, producer, stop>>

\* The result is submitted before the slot is freed; a finalizer that ended
\* drops it.
Submit(i) ==
    /\ attempts[i].pc = "returned"
    /\ attempts' = [attempts EXCEPT ![i] = IF life.fin THEN [@ EXCEPT !.pc = "submitted"] ELSE Over(@, "dropped")]
    /\ UNCHANGED <<life, lease, rowLeases, jobRows, producer, tracked, stop>>

\* cancelLocal: JobCancel reaches the job's latest claim here.
CancelLocal(j) ==
    /\ life.bg
    /\ tracked.running[j] # None
    /\ attempts' = CancelAll({tracked.running[j]}, "canceled")
    /\ UNCHANGED <<life, lease, rowLeases, jobRows, producer, tracked, stop>>

\* The finalizer writes a result; the statement rejects a fenced one.
Owns(a) == LET r == jobRows[a.job] IN r.state = "running" /\ r.by = a.by /\ r.fence = a.fence
WrittenRow(r, result) ==
    CASE result \in {"retryable"} -> [r EXCEPT !.state = "available", !.by = None]
      [] result \in {"snoozed", "giveback"} -> [r EXCEPT !.state = "available", !.by = None, !.attempt = @ - 1]
      [] OTHER -> [r EXCEPT !.state = "finished"]
WriteResult(i) ==
    LET a == attempts[i] IN
    /\ a.pc = "submitted"
    /\ life.fin
    /\ jobRows' = IF Owns(a) THEN [jobRows EXCEPT ![a.job] = WrittenRow(@, a.result)] ELSE jobRows
    /\ attempts' = [attempts EXCEPT ![i] = Over(@, "written")]
    /\ UNCHANGED <<life, lease, rowLeases, producer, tracked, stop>>

-----------------------------------------------------------------------------
(* The lease.                                                              *)

\* The client pauses, or cannot reach the database, until its lease lapses.
LeaseLapses ==
    /\ lease.id # None
    /\ rowLeases[lease.id] = "live"
    /\ rowLeases' = [rowLeases EXCEPT ![lease.id] = "lapsed"]
    /\ UNCHANGED <<life, lease, jobRows, producer, attempts, tracked, stop>>

\* Another client's rescue takes the jobs of a lost lease back.
RescueJob(j) ==
    LET r == jobRows[j] IN
    /\ r.state = "running"
    /\ rowLeases[r.by] # "live"
    /\ jobRows' = [jobRows EXCEPT ![j] = IF r.attempt < MaxAttempts
                                         THEN [r EXCEPT !.state = "available", !.by = None]
                                         ELSE [r EXCEPT !.state = "finished"]]
    /\ UNCHANGED <<life, lease, rowLeases, producer, attempts, tracked, stop>>

\* fence, of the lease loop or the rescuer: a renewal found the lease gone.
\* Every job under the generation is canceled, and genMu held while the client
\* registers again ...
FenceBegin ==
    /\ life.bg
    /\ ~lease.locked
    /\ rowLeases[lease.id] # "live"
    /\ lease' = [lease EXCEPT !.locked = TRUE, !.cause = IF @ = "none" THEN "fenced" ELSE @]
    /\ attempts' = CancelAll({i \in DOMAIN attempts : attempts[i].gen = lease.gen}, "fenced")
    /\ UNCHANGED <<life, rowLeases, jobRows, producer, tracked, stop>>

\* ... under a new ID, with a new generation ...
FenceRegisters(i) ==
    /\ lease.locked
    /\ Register(i)
    /\ rowLeases' = [rowLeases EXCEPT ![i] = "live"]
    /\ lease' = [id |-> i, gen |-> lease.gen + 1, cause |-> life.work, locked |-> FALSE]
    /\ UNCHANGED <<life, jobRows, producer, attempts, tracked, stop>>

\* ... or fails to: the canceled generation stays until a later renewal.
FenceFails ==
    /\ lease.locked
    /\ lease' = [lease EXCEPT !.locked = FALSE]
    /\ UNCHANGED <<life, rowLeases, jobRows, producer, attempts, tracked, stop>>

-----------------------------------------------------------------------------
(* Stop.                                                                   *)

\* cancelJobs: the work context, and the generation under it, are canceled
\* with ErrClientStopped.
CancelJobs ==
    /\ life' = [life EXCEPT !.work = "stopped"]
    /\ lease' = [lease EXCEPT !.cause = IF @ = "none" THEN "stopped" ELSE @]
    /\ attempts' = CancelAll(DOMAIN attempts, "stopped")

\* stop, shutdown step 1: no more claims; StopAndCancel also cancels the jobs.
StopBegin(cancel) ==
    /\ life.state = "started"
    /\ stop' = [stop EXCEPT !.pc = "producers", !.cancel = cancel]
    /\ life' = [life EXCEPT !.state = "stopping", !.claim = FALSE]
    /\ UNCHANGED <<lease, rowLeases, jobRows, producer, attempts, tracked>>

\* Stop's own cancel, its deadline's, or another call's (awaitStop).
StopCancels ==
    /\ life.state = "stopping"
    /\ life.work = "none"
    /\ CancelJobs
    /\ UNCHANGED <<rowLeases, jobRows, producer, tracked, stop>>

\* Mutant: the jobs are waited for while a claim is in flight.
StopAnyProducers ==
    /\ stop.pc = "producers"
    /\ stop.cancel => life.work = "stopped"
    /\ stop' = [stop EXCEPT !.pc = "jobs"]
    /\ UNCHANGED <<life, lease, rowLeases, jobRows, producer, attempts, tracked>>

\* producerWG.Wait: the claim in flight has returned and its jobs started.
StopProducers ==
    /\ stop.pc = "producers"
    /\ stop.cancel => life.work = "stopped"
    /\ producer.pc = "exited"
    /\ stop' = [stop EXCEPT !.pc = "jobs"]
    /\ UNCHANGED <<life, lease, rowLeases, jobRows, producer, attempts, tracked>>

\* waitForJobs: every job goroutine has submitted its result.
StopJobsDone ==
    /\ stop.pc \in {"jobs", "grace"}
    /\ Unreturned = {}
    /\ stop' = [stop EXCEPT !.pc = "flush"]
    /\ UNCHANGED <<life, lease, rowLeases, jobRows, producer, attempts, tracked>>

\* ctx expires: the jobs are canceled and given a short grace.
StopDeadline ==
    /\ stop.pc = "jobs"
    /\ CancelJobs
    /\ stop' = [stop EXCEPT !.pc = "grace", !.expired = TRUE]
    /\ UNCHANGED <<rowLeases, jobRows, producer, tracked>>

\* Mutant: the grace has no end.
StopWaitsOn == stop.pc = "grace" /\ UNCHANGED clientVars

\* The grace ends with jobs left, which the warning lists.
StopGivesUp ==
    /\ stop.pc = "grace"
    /\ Unreturned # {}
    /\ stop' = [stop EXCEPT !.pc = "flush", !.left = Unreturned]
    /\ UNCHANGED <<life, lease, rowLeases, jobRows, producer, attempts, tracked>>

\* finCancel: the finalizer has written or dropped what it was given.
StopFlushed ==
    /\ stop.pc = "flush"
    /\ life' = [life EXCEPT !.fin = FALSE]
    /\ attempts' = [i \in DOMAIN attempts |-> IF attempts[i].pc = "submitted"
                                              THEN Over(attempts[i], "dropped") ELSE attempts[i]]
    /\ stop' = [stop EXCEPT !.pc = "background"]
    /\ UNCHANGED <<lease, rowLeases, jobRows, producer, tracked>>

\* Step 3: the jobs left are canceled and the background loops end.
StopBackground ==
    /\ stop.pc = "background"
    /\ life' = [life EXCEPT !.work = "stopped", !.bg = FALSE]
    /\ lease' = [lease EXCEPT !.cause = IF @ = "none" THEN "stopped" ELSE @]
    /\ attempts' = CancelAll(DOMAIN attempts, "stopped")
    /\ stop' = [stop EXCEPT !.pc = "release"]
    /\ UNCHANGED <<rowLeases, jobRows, producer, tracked>>

\* leaseWG.Wait, then the lease is deleted, or that fails and it lapses; the
\* client has stopped.
StopReleases ==
    /\ stop.pc = "release"
    /\ ~lease.locked
    /\ \E left \in {"deleted", "lapsed"} : rowLeases' = [rowLeases EXCEPT ![lease.id] = left]
    /\ life' = [life EXCEPT !.state = "stopped"]
    /\ stop' = [stop EXCEPT !.pc = "done"]
    /\ UNCHANGED <<lease, jobRows, producer, attempts, tracked>>

Goroutine(i) == GiveBack(i) \/ Execute(i) \/ Submit(i) \/ WriteResult(i)
Fencing == (\E i \in 1..MaxIDs : FenceRegisters(i)) \/ FenceFails
ClaimReturns == \E S \in SUBSET ClientJobs : ClaimEnd(S) \/ ClaimFails(S)
Stopping == StopProducers \/ StopJobsDone \/ StopDeadline \/ StopGivesUp
            \/ StopFlushed \/ StopBackground \/ StopReleases

ClientNext ==
    \/ \E i \in 1..MaxIDs : Start(i) \/ StartFails(i)
    \/ StopIdle
    \/ ClaimBegin \/ ClaimReturns \/ ProducerExits
    \/ \E i \in DOMAIN attempts : Goroutine(i)
    \/ \E i \in DOMAIN attempts : \E r \in Returns : WorkerReturns(i, r)
    \/ \E j \in ClientJobs : CancelLocal(j) \/ RescueJob(j)
    \/ LeaseLapses \/ FenceBegin \/ Fencing
    \/ \E cancel \in BOOLEAN : StopBegin(cancel)
    \/ StopCancels \/ Stopping

\* Goroutines are scheduled, statements return (claimTimeout bounds a claim)
\* and contexts expire; a worker may run for ever, and a lease may lapse or
\* not.
ClientFair ==
    /\ WF_clientVars(ClaimReturns) /\ WF_clientVars(ProducerExits)
    /\ WF_clientVars(\E i \in DOMAIN attempts : Goroutine(i))
    /\ WF_clientVars(StopCancels) /\ WF_clientVars(Fencing) /\ WF_clientVars(Stopping)

-----------------------------------------------------------------------------
\* Stop loses nothing it claimed: once the client has stopped, no claim is in
\* flight, and the result of every job it claimed was written or dropped by
\* the finalizer, other than of the jobs still running when the grace after an
\* expired deadline ended (client.go, shutdown).
StopLosesNothing ==
    life.state = "stopped" =>
        /\ producer.pc \in {"off", "exited"}
        /\ \A i \in DOMAIN attempts : attempts[i].pc \in {"written", "dropped"} \/ i \in stop.left
        /\ stop.left # {} => stop.expired

\* Every running attempt is listed once, as its job's latest claim or as a
\* replaced one, and a replaced attempt's context is canceled, whatever the
\* order in which a job is rescued, claimed here again and returned from
\* (control.go, trackRunning and untrackRunning).
RunningListed ==
    LET latest == {tracked.running[j] : j \in ClientJobs} \ {None} IN
    /\ {i \in DOMAIN attempts : attempts[i].pc = "running"} = latest \cup tracked.replaced
    /\ latest \cap tracked.replaced = {}
    /\ \A i \in tracked.replaced : attempts[i].cause # "none"

\* A stop ends, even if no worker ever returns and the lease is lost
\* meanwhile (client.go, Stop).
StopEnds == life.state = "stopping" ~> life.state = "stopped"

\* Nothing runs between a fence that failed to register and the renewal that
\* registers (client.go, fence: "Keep the canceled generation: nothing runs
\* until the next renewal attempt succeeds in registering.").
NothingRunsUnregistered ==
    [][\A i \in DOMAIN attempts : attempts[i].pc = "claimed" /\ attempts'[i].pc = "running" =>
           lease.cause # "fenced"]_clientVars
=============================================================================
