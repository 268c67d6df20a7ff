--------------------------- MODULE FinalizeWrite ---------------------------
(***************************************************************************)
(* What becomes of the results a finalizer flushes (finalizer.go: flush,    *)
(* write, afterFlush, notWritten), while transactions hold rows, statements *)
(* fail with or without their effect, jobs are rescued and claimed again,   *)
(* and workers complete their jobs in transactions of their own             *)
(* (complete.go, and execute and readTx in execute.go).                     *)
(*                                                                          *)
(* All jobs are of batches: every job that finishes needs a follow-up.      *)
(***************************************************************************)
EXTENDS Integers, Sequences, FiniteSets

CONSTANTS
    Attempts,
    JobOf,              \* the job each is an attempt of
    FenceOf,            \* and the fence of its claim
    WriteResults,       \* the results workers come to
    TxWorkers,          \* the attempts whose workers write their rows in transactions
    DeleteCompleted,    \* the jobs of queues that keep no completed jobs
    MaxBatch,
    MaxWriteFaults           \* bound: statements and reads that fail

WriteJobs == {JobOf[a] : a \in Attempts}

ASSUME FinalizeWriteAssumption ==
    /\ FenceOf \in [Attempts -> Nat \ {0}]
    /\ \A a, b \in Attempts : JobOf[a] = JobOf[b] /\ FenceOf[a] = FenceOf[b] => a = b
    /\ TxWorkers \subseteq Attempts
    /\ DeleteCompleted \subseteq WriteJobs
    /\ MaxBatch \in Nat \ {0}
    /\ MaxWriteFaults \in Nat

VARIABLES
    row,        \* each job's row, live or in history
    holders,    \* the jobs whose rows open transactions hold, but for those of CompleteTx
    tx,         \* the transaction of an attempt's CompleteTx
    stage,      \* where an attempt is
    result,     \* what it submitted
    txDone,     \* the attempts the client saw commit
    waited,     \* those whose row was found held
    quitting,   \* the finalizer's context is done
    flushPc,    \* where the flush is
    todo,       \* the writes left of it
    unread,     \* the results the last statement did not apply, yet to be looked up
    finished,   \* the jobs to follow up
    wrote,      \* the attempts whose result a statement has written
    event,      \* what was reported of an attempt
    followed,   \* the attempts followed up
    writeFaults

dbVars == <<row, holders, tx>>
flushVars == <<flushPc, todo, unread, finished>>
writeVars == <<row, holders, tx, stage, result, txDone, waited, quitting, flushPc, todo, unread,
          finished, wrote, event, followed, writeFaults>>

(* The results of the flush. *)
Flushing == {a \in Attempts : stage[a] = "flushing"}

TerminalStates == {"completed", "discarded"}
Write == [items : SUBSET Attempts, skipLocked : BOOLEAN]

WriteTypeOK ==
    /\ row \in [WriteJobs -> [state : {"waiting", "running", "gone"} \cup TerminalStates, fence : Nat]]
    /\ holders \subseteq WriteJobs
    /\ tx \in [Attempts -> {"none", "open", "committed", "rolledback"}]
    /\ stage \in [Attempts -> {"unclaimed", "running", "buffered", "flushing", "settled"}]
    /\ result \in [Attempts -> {"none", "retryable"} \cup TerminalStates]
    /\ txDone \subseteq Attempts
    /\ waited \subseteq Attempts
    /\ quitting \in BOOLEAN
    /\ flushPc \in {"idle", "write", "after"}
    /\ todo \in Seq(Write)
    /\ \A i \in 1..Len(todo) : \A k \in 1..(i - 1) : todo[i].items \cap todo[k].items = {}
    /\ unread \subseteq Flushing
    /\ finished \subseteq Attempts
    /\ wrote \subseteq Attempts
    /\ event \in [Attempts -> {"none", "applied", "completed", "dropped", "abandoned"}]
    /\ followed \subseteq Attempts
    /\ writeFaults \in 0..MaxWriteFaults

WriteInit ==
    /\ row = [j \in WriteJobs |-> [state |-> "waiting", fence |-> 0]]
    /\ holders = {}
    /\ tx = [a \in Attempts |-> "none"]
    /\ stage = [a \in Attempts |-> "unclaimed"]
    /\ result = [a \in Attempts |-> "none"]
    /\ txDone = {}
    /\ waited = {}
    /\ quitting = FALSE
    /\ flushPc = "idle"
    /\ todo = <<>>
    /\ unread = {}
    /\ finished = {}
    /\ wrote = {}
    /\ event = [a \in Attempts |-> "none"]
    /\ followed = {}
    /\ writeFaults = 0

WriteFault == writeFaults < MaxWriteFaults /\ writeFaults' = writeFaults + 1
-----------------------------------------------------------------------------
(***************************************************************************)
(* The database.                                                            *)
(***************************************************************************)
(***************************************************************************)
(* A transaction of a caller's, or of a worker's, holds the row of j: a     *)
(* write of it waits.  On SQLite one that writes holds all rows at once,    *)
(* which is the case of every row held.                                     *)
(***************************************************************************)
Held(j) == j \in holders \/ \E a \in Attempts : JobOf[a] = j /\ tx[a] = "open"

ResultOwns(a) == row[JobOf[a]] = [state |-> "running", fence |-> FenceOf[a]]

Completed(j) == IF j \in DeleteCompleted THEN "gone" ELSE "completed"

(* The row of the job of a once a result of a's is applied. *)
Applied(a, res) ==
    [row[JobOf[a]] EXCEPT !.state =
        IF res = "completed" THEN Completed(JobOf[a]) ELSE IF res = "retryable" THEN "waiting" ELSE res]

(* What happens to jobs but for this finalizer. *)
SetState(j, st) ==
    /\ ~Held(j)
    /\ row' = [row EXCEPT ![j].state = st]
    /\ UNCHANGED <<holders, tx, stage, result, txDone, waited, quitting, flushVars, wrote, event, followed, writeFaults>>

RescueRow(j) == row[j].state = "running" /\ \E st \in {"waiting", "discarded"} : SetState(j, st)
JobRetry(j) == row[j].state \in TerminalStates /\ SetState(j, "waiting")
RowDeleted(j) == row[j].state \in TerminalStates \cup {"waiting"} /\ SetState(j, "gone")

(***************************************************************************)
(* A transaction writes the row of j, which runs, and ends later: a         *)
(* caller's that asks it to cancel (JobCancelTx), or one its worker records *)
(* progress in (RecordStepTx, RecordCursorTx).                              *)
(***************************************************************************)
Hold(j) ==
    /\ row[j].state = "running" /\ ~Held(j)
    /\ holders' = holders \cup {j}
    /\ UNCHANGED <<row, tx, stage, result, txDone, waited, quitting, flushVars, wrote, event, followed, writeFaults>>

Unhold(j) ==
    /\ j \in holders
    /\ holders' = holders \ {j}
    /\ UNCHANGED <<row, tx, stage, result, txDone, waited, quitting, flushVars, wrote, event, followed, writeFaults>>
-----------------------------------------------------------------------------
(***************************************************************************)
(* Attempts.                                                                *)
(***************************************************************************)
ClaimJob(a) ==
    /\ stage[a] = "unclaimed" /\ ~Held(JobOf[a])
    /\ row[JobOf[a]] = [state |-> "waiting", fence |-> FenceOf[a] - 1]
    /\ row' = [row EXCEPT ![JobOf[a]] = [state |-> "running", fence |-> FenceOf[a]]]
    /\ stage' = [stage EXCEPT ![a] = "running"]
    /\ UNCHANGED <<holders, tx, result, txDone, waited, quitting, flushVars, wrote, event, followed, writeFaults>>

(* The worker completes its job in a transaction, which then holds the row. *)
CompleteTx(a) ==
    /\ a \in TxWorkers /\ stage[a] = "running" /\ tx[a] = "none"
    /\ ResultOwns(a) /\ ~Held(JobOf[a])
    /\ tx' = [tx EXCEPT ![a] = "open"]
    /\ UNCHANGED <<row, holders, stage, result, txDone, waited, quitting, flushVars, wrote, event, followed, writeFaults>>

(* The worker's transaction ends, perhaps long after the worker has returned. *)
EndTx(a) ==
    /\ tx[a] = "open"
    /\ \/ /\ tx' = [tx EXCEPT ![a] = "committed"]
          /\ row' = [row EXCEPT ![JobOf[a]] = Applied(a, "completed")]
       \/ tx' = [tx EXCEPT ![a] = "rolledback"] /\ UNCHANGED row
    /\ UNCHANGED <<holders, stage, result, txDone, waited, quitting, flushVars, wrote, event, followed, writeFaults>>

(* Mutant: the row of another claim that completed counts as this one's. *)
ReadTxUnfenced(a) ==
    CASE row[JobOf[a]].state \in {"gone", "completed"} -> "committed"
      [] ResultOwns(a) -> "running"
      [] OTHER -> "lost"

(***************************************************************************)
(* What readTx tells from the job's row.  A row that is waiting has no      *)
(* owner, and one that was rescued to its end is not completed.             *)
(***************************************************************************)
ReadTx(a) ==
    CASE row[JobOf[a]].state = "gone" -> "committed"
      [] row[JobOf[a]] = [state |-> "completed", fence |-> FenceOf[a]] -> "committed"
      [] ResultOwns(a) -> "running"
      [] OTHER -> "lost"

(* A read that may fail. *)
Reads(a, state) ==
    \/ state = ReadTx(a) /\ UNCHANGED writeFaults
    \/ state = "unknown" /\ WriteFault

CompletedTx(a) == tx[a] # "none"

(***************************************************************************)
(* The worker returns: with an error or without, or canceled by the stop.   *)
(* Of a job it completed with CompleteTx, execute reads what became.        *)
(***************************************************************************)
ExecuteAttempt(a) ==
    /\ stage[a] = "running"
    /\ \E state \in {"committed", "running", "lost", "unknown"}, res \in WriteResults :
        /\ IF CompletedTx(a) THEN Reads(a, state) ELSE state = "lost" /\ UNCHANGED writeFaults
        /\ CompletedTx(a) => (res = "completed") = (state = "committed")
        /\ result' = [result EXCEPT ![a] = res]
        /\ txDone' = IF state = "committed" THEN txDone \cup {a} ELSE txDone
    /\ stage' = [stage EXCEPT ![a] = "buffered"]
    /\ UNCHANGED <<dbVars, waited, quitting, flushVars, wrote, event, followed>>

Quit ==
    /\ ~quitting
    /\ quitting' = TRUE
    /\ UNCHANGED <<dbVars, stage, result, txDone, waited, flushVars, wrote, event, followed, writeFaults>>
-----------------------------------------------------------------------------
(***************************************************************************)
(* A flush.                                                                 *)
(***************************************************************************)
(***************************************************************************)
(* The results of jobs whose rows a transaction may hold are written apart: *)
(* one the worker completed its job in, one of the workers recorded's it    *)
(* recorded its progress in, or one found to hold the row before.           *)
(***************************************************************************)
MayBeHeld(a, recorded) == CompletedTx(a) \/ a \in recorded \/ a \in waited

(***************************************************************************)
(* Whether a worker recorded its progress in a transaction (heldByTx) only  *)
(* tells in its result's first flush, for a result flushed again has        *)
(* waited, so it is chosen there; the transaction itself is one that Hold   *)
(* opens.                                                                   *)
(***************************************************************************)

Flush(batch) ==
    /\ flushPc = "idle"
    /\ batch # {} /\ Cardinality(batch) <= MaxBatch
    /\ \A a \in batch : stage[a] = "buffered"
    /\ \E recorded \in SUBSET (batch \cap TxWorkers) :
       LET written == batch \ txDone
           tried == {a \in written : MayBeHeld(a, recorded)}
           writes == <<[items |-> written \ tried, skipLocked |-> FALSE], [items |-> tried, skipLocked |-> TRUE]>>
       IN  todo' = SelectSeq(writes, LAMBDA w : w.items # {})
    /\ stage' = [a \in Attempts |-> IF a \in batch THEN "flushing" ELSE stage[a]]
    /\ flushPc' = "write"
    /\ UNCHANGED <<dbVars, result, txDone, waited, quitting, unread, finished, wrote, event, followed, writeFaults>>

Blocked(w) == \E a \in w.items : Held(JobOf[a])

(***************************************************************************)
(* The results the statement applies: those of claims that still own their  *)
(* jobs, less the held rows it skips.                                       *)
(***************************************************************************)
Takes(w) == {a \in w.items : ResultOwns(a) /\ ~Held(JobOf[a])}

(* JobFinalizeMany. *)
Statement(w) ==
    /\ Blocked(w) => w.skipLocked
    /\ row' = [j \in WriteJobs |->
                  IF \E a \in Takes(w) : JobOf[a] = j
                  THEN LET a == CHOOSE b \in Takes(w) : JobOf[b] = j IN Applied(a, result[a])
                  ELSE row[j]]
    /\ wrote' = wrote \cup Takes(w)

(* Reports what became of results, which are done with. *)
Report(S, what) ==
    /\ stage' = [a \in Attempts |-> IF a \in S THEN "settled" ELSE stage[a]]
    /\ event' = [a \in Attempts |-> IF a \in S THEN what ELSE event[a]]

(* The statement succeeds; afterFlush reports what it applied. *)
WriteDone ==
    /\ flushPc = "write" /\ todo # <<>>
    /\ Statement(Head(todo))
    /\ Report(Takes(Head(todo)), "applied")
    /\ unread' = Head(todo).items \ Takes(Head(todo))
    /\ finished' = {a \in Takes(Head(todo)) : result[a] \in TerminalStates}
    /\ flushPc' = "after"
    /\ UNCHANGED <<holders, tx, result, txDone, waited, quitting, todo, followed, writeFaults>>

(* Mutant: a statement that waited for a held row is sent again as it was. *)
SkippingNever(w) == w

Skipping(w) == [w EXCEPT !.skipLocked = TRUE]

(* heldWait passes: the batch is written again, skipping held rows. *)
WriteHeld ==
    /\ flushPc = "write" /\ todo # <<>>
    /\ Blocked(Head(todo)) /\ ~Head(todo).skipLocked
    /\ todo' = <<Skipping(Head(todo))>> \o Tail(todo)
    /\ UNCHANGED <<dbVars, stage, result, txDone, waited, quitting, flushPc, unread, finished, wrote, event, followed, writeFaults>>

(* Mutant: the halves share a result. *)
HalvesOverlap(w) ==
    {<<[w EXCEPT !.items = S], [w EXCEPT !.items = (w.items \ S) \cup {CHOOSE a \in S : TRUE}]>> :
        S \in {T \in SUBSET w.items : Cardinality(T) = Cardinality(w.items) \div 2}}

(* The two halves of a write, in the order the results came, which is any. *)
Halves(w) ==
    {<<[w EXCEPT !.items = S], [w EXCEPT !.items = w.items \ S]>> :
        S \in {T \in SUBSET w.items : Cardinality(T) = Cardinality(w.items) \div 2}}

(***************************************************************************)
(* The statement fails or times out, before or after its commit.  Once the  *)
(* client stops its results are given up; until then it is tried again, in  *)
(* halves if it timed out.                                                  *)
(***************************************************************************)
WriteFails(timedOut) ==
    /\ flushPc = "write" /\ todo # <<>>
    /\ WriteFault
    /\ Statement(Head(todo)) \/ UNCHANGED <<row, wrote>>
    /\ LET w == Head(todo)
       IN  IF timedOut /\ ~w.skipLocked
           THEN todo' = <<Skipping(w)>> \o Tail(todo) /\ UNCHANGED <<stage, event>>
           ELSE IF quitting
           THEN todo' = Tail(todo) /\ Report(w.items, "abandoned")
           ELSE /\ IF timedOut /\ Cardinality(w.items) > 1
                   THEN \E ws \in Halves(w) : todo' = ws \o Tail(todo)
                   ELSE UNCHANGED todo
                /\ UNCHANGED <<stage, event>>
    /\ UNCHANGED <<holders, tx, result, txDone, waited, quitting, flushPc, unread, finished, followed>>
-----------------------------------------------------------------------------
(***************************************************************************)
(* Results not applied (notWritten) and the follow-up.                      *)
(***************************************************************************)
(* Mutant: a result another claim, or its own first write, fenced needs no follow-up. *)
DroppedFinishedNone(a) == FALSE

DroppedFinished(a) == result[a] \in TerminalStates

(* Mutant: only the worker's own transaction is waited for. *)
MovedOnUnlessTx(a, state) == state = "lost" \/ ~CompletedTx(a)

MovedOn(a, state) == state = "lost" \/ (state = "committed" /\ ~CompletedTx(a))

(***************************************************************************)
(* The job's row tells why: the transaction committed after all, the job    *)
(* has moved on, or its row is held.  A held result is submitted again, or  *)
(* dropped once the finalizer's last drain has ended.                       *)
(***************************************************************************)
NotWritten(a) ==
    /\ flushPc = "after" /\ a \in unread
    /\ unread' = unread \ {a}
    /\ \E state \in {"committed", "running", "lost", "unknown"} :
        /\ Reads(a, state)
        /\ \/ /\ state = "committed" /\ CompletedTx(a)
              /\ Report({a}, "completed")
              /\ finished' = finished \cup {a}
              /\ UNCHANGED waited
           \/ /\ MovedOn(a, state)
              /\ Report({a}, "dropped")
              /\ finished' = IF DroppedFinished(a) THEN finished \cup {a} ELSE finished
              /\ UNCHANGED waited
           \/ /\ state \in {"running", "unknown"}
              /\ waited' = waited \cup {a}
              /\ \/ stage' = [stage EXCEPT ![a] = "buffered"] /\ UNCHANGED event
                 \/ quitting /\ Report({a}, "abandoned")
              /\ UNCHANGED finished
    /\ UNCHANGED <<dbVars, result, txDone, quitting, flushPc, todo, wrote, followed>>

(* Once every result of the statement is accounted for. *)
FollowUp ==
    /\ flushPc = "after" /\ unread = {}
    /\ followed' = followed \cup finished
    /\ finished' = {}
    /\ todo' = Tail(todo)
    /\ flushPc' = "write"
    /\ UNCHANGED <<dbVars, stage, result, txDone, waited, quitting, unread, wrote, event, writeFaults>>

(* The end of the flush: completions the client saw commit are reported. *)
ReportCommitted ==
    /\ flushPc = "write" /\ todo = <<>>
    /\ Report(Flushing, "completed")
    /\ followed' = followed \cup Flushing
    /\ flushPc' = "idle"
    /\ UNCHANGED <<dbVars, result, txDone, waited, quitting, todo, unread, finished, wrote, writeFaults>>
-----------------------------------------------------------------------------
FlushStep ==
    \/ WriteDone
    \/ WriteHeld
    \/ \E timedOut \in BOOLEAN : WriteFails(timedOut)
    \/ \E a \in Attempts : NotWritten(a)
    \/ FollowUp
    \/ ReportCommitted

WriteNext ==
    \/ \E j \in WriteJobs : RescueRow(j)
    \/ \E j \in WriteJobs : JobRetry(j)
    \/ \E j \in WriteJobs : RowDeleted(j)
    \/ \E j \in WriteJobs : Hold(j)
    \/ \E j \in WriteJobs : Unhold(j)
    \/ \E a \in Attempts : ClaimJob(a)
    \/ \E a \in Attempts : CompleteTx(a)
    \/ \E a \in Attempts : EndTx(a)
    \/ \E a \in Attempts : ExecuteAttempt(a)
    \/ Quit
    \/ \E batch \in SUBSET Attempts : Flush(batch)
    \/ FlushStep

WriteSpec == WriteInit /\ [][WriteNext]_writeVars

(***************************************************************************)
(* The finalizer's loop takes its steps, and takes every buffered result in *)
(* the end: the buffer is a channel.  Transactions need not ever end.       *)
(***************************************************************************)
WriteFairness ==
    /\ WF_writeVars(FlushStep)
    /\ \A a \in Attempts : SF_writeVars(\E batch \in SUBSET Attempts : a \in batch /\ Flush(batch))

WriteFairSpec == WriteSpec /\ WriteFairness
-----------------------------------------------------------------------------
(***************************************************************************)
(* Properties.                                                              *)
(***************************************************************************)
(***************************************************************************)
(* The job.completed event of a CompleteTx fires only if its transaction    *)
(* committed, or the job is gone: neither a rollback followed by a rescue,  *)
(* nor another claim that completed the job, passes for a commit.           *)
(***************************************************************************)
CompletedIsTrue ==
    \A a \in Attempts : event[a] = "completed" => tx[a] = "committed" \/ row[JobOf[a]].state = "gone"

(***************************************************************************)
(* The same, without the exception: "If it did not, the attempt fails"      *)
(* (complete.go).                                                           *)
(***************************************************************************)
CompletedOnlyIfCommitted == \A a \in Attempts : event[a] = "completed" => tx[a] = "committed"

(***************************************************************************)
(* A result the finalizer is done with leaves its job running in that       *)
(* attempt only if a stop gave it up: a result not written is never taken   *)
(* for one of a job that moved on, whoever holds the row and whatever       *)
(* statements failed.                                                       *)
(***************************************************************************)
OnlyStopLeavesRunning ==
    \A a \in Attempts : event[a] \in {"applied", "completed", "dropped"} => ~ResultOwns(a)

(***************************************************************************)
(* Between flushes, every job a result of this client finished has been     *)
(* followed up (its batch settled, its dependents promoted), also when the  *)
(* statement that finished it reported an error and was sent again, or the  *)
(* worker's own transaction finished it.  A stop may leave it to the leader.*)
(***************************************************************************)
FinishedFollowedUp ==
    flushPc = "idle" =>
        \A a \in Attempts :
            \/ a \in wrote /\ result[a] \in TerminalStates /\ event[a] \in {"applied", "dropped"}
            \/ event[a] = "completed"
            => a \in followed

(***************************************************************************)
(* A transaction that holds a row holds up only its own job: a result whose *)
(* row is held no longer, or never was, is done with, though other rows of  *)
(* its batch stay held for ever.                                            *)
(***************************************************************************)
HeldDelaysOnlyItself ==
    \A a \in Attempts :
        []<>(stage[a] \notin {"buffered", "flushing"} \/ Held(JobOf[a]))
=============================================================================
