---------------------------- MODULE QueueControl ----------------------------
(***************************************************************************)
(* How one client follows the cluster-wide pause and limit state of its    *)
(* queues (control.go, listener.go, client.go).                            *)
(*                                                                         *)
(* Pause, Resume and SetLimits write hopper_queues and then read it back;  *)
(* a control notification and every lease renewal read it too, and         *)
(* Queues().Add reads it for the queue it starts.  A reading is taken      *)
(* outside c.mu and applied under it, so readings race: controlSeq and     *)
(* appliedFrom decide which reading may still be applied and when a        *)
(* re-read may stop.                                                       *)
(*                                                                         *)
(* Pause and limit state are read and applied together, so a queue's state *)
(* is the number of changes committed to it, and a reading is a snapshot   *)
(* of those numbers.                                                       *)
(***************************************************************************)
EXTENDS Naturals

CONSTANTS Queues,       \* queue names
          Configured,   \* the queues the client starts with
          Callers,      \* goroutines that call Pause, Resume or SetLimits
          Listener,     \* the goroutine of listenLoop
          NoQueue,      \* no queue
          MaxChanges, MaxRenewals, MaxAdds   \* bounds on the history

ASSUME QueuesAssumption == Configured \subseteq Queues /\ NoQueue \notin Queues

VARIABLES rows,       \* hopper_queues: changes committed to each queue
          producers,  \* the worked queues, each with the change last applied
          seqs,       \* controlSeq and appliedFrom
          calls,      \* each goroutine's refreshQueue
          renewal,    \* the lease loop's renewal
          adding,     \* Queues().Add, which holds c.mu
          acked,      \* per queue, the newest change a caller was told of
          spent       \* what is left of the bounds

queueVars == <<rows, producers, seqs, calls, renewal, adding, acked, spent>>

Goroutines == Callers \cup {Listener}
NoReading == [q \in Queues |-> 0]
Larger(m, n) == IF m >= n THEN m ELSE n

\* A re-read: the queue it is for and its change, controlSeq as first read and
\* as last read, the reading, and how often it read.
NoCall == [pc |-> "idle", queue |-> NoQueue, change |-> 0, first |-> 0, seq |-> 0,
           reading |-> NoReading, reads |-> 0, adds |-> 0]
NoRenewal == [pc |-> "idle", seq |-> 0, reading |-> NoReading]
NoAdd == [queue |-> NoQueue, reading |-> NoReading]

QueueInit ==
    /\ rows = [q \in Queues |-> 1]
    \* Start reads the queues; a failed read leaves its producers unpaused
    \* and unlimited (change 0) until a renewal.
    /\ \E read \in {0, 1} : producers = [q \in Configured |-> read]
    /\ seqs = [control |-> 0, appliedFrom |-> 0]
    /\ calls = [g \in Goroutines |-> NoCall]
    /\ renewal = NoRenewal
    /\ adding = NoAdd
    /\ acked = [q \in Queues |-> 0]
    /\ spent = [changes |-> 0, renewals |-> 0, adds |-> 0]

MuFree == adding = NoAdd

-----------------------------------------------------------------------------
\* setQueueState: every local producer takes the reading's state.
SetQueueState(reading) == producers' = [q \in DOMAIN producers |-> reading[q]]

\* applyQueueState, under c.mu: a reading is applied unless one was applied
\* since controlSeq was read before it.
ApplyQueueState(seq, reading) ==
    /\ seqs.control = seq
    /\ seqs' = [control |-> seqs.control + 1, appliedFrom |-> seq]
    /\ SetQueueState(reading)

\* QueuePause, QueueResume or QueueSetLimits commits, and the caller goes on
\* to refreshQueue.
Change(g, q) ==
    /\ calls[g].pc = "idle"
    /\ spent.changes < MaxChanges
    /\ rows' = [rows EXCEPT ![q] = @ + 1]
    /\ calls' = [calls EXCEPT ![g] = [NoCall EXCEPT !.pc = "works", !.queue = q, !.change = rows[q] + 1]]
    /\ spent' = [spent EXCEPT !.changes = @ + 1]
    /\ UNCHANGED <<producers, seqs, renewal, adding, acked>>

\* Another client changes the queue; this client may never be notified.
ChangeElsewhere(q) ==
    /\ spent.changes < MaxChanges
    /\ rows' = [rows EXCEPT ![q] = @ + 1]
    /\ spent' = [spent EXCEPT !.changes = @ + 1]
    /\ UNCHANGED <<producers, seqs, calls, renewal, adding, acked>>

\* control: a notification names a queue whose state is re-read.
Control(q) ==
    /\ calls[Listener].pc = "idle"
    /\ rows[q] > acked[q]
    /\ calls' = [calls EXCEPT ![Listener] = [NoCall EXCEPT !.pc = "works", !.queue = q, !.change = rows[q]]]
    /\ UNCHANGED <<rows, producers, seqs, renewal, adding, acked, spent>>

\* A call returns nil: its change is applied here, or concerns no queue this
\* client works.
Returned(g) ==
    /\ calls' = [calls EXCEPT ![g] = NoCall]
    /\ acked' = [acked EXCEPT ![calls[g].queue] = Larger(@, calls[g].change)]

\* refreshQueue: only a queue this client works is re-read.
RefreshQueue(g) ==
    /\ calls[g].pc = "works"
    /\ MuFree
    /\ IF calls[g].queue \in DOMAIN producers
       THEN calls' = [calls EXCEPT ![g].pc = "begin"] /\ UNCHANGED acked
       ELSE Returned(g)
    /\ UNCHANGED <<rows, producers, seqs, renewal, adding, spent>>

\* refreshQueueState reads controlSeq, at first and again before each
\* further reading.
ReadSeq(g) ==
    /\ calls[g].pc \in {"begin", "again"}
    /\ calls' = [calls EXCEPT ![g].pc = "list", ![g].seq = seqs.control,
                              ![g].first = IF calls[g].pc = "begin" THEN seqs.control ELSE @]
    /\ UNCHANGED <<rows, producers, seqs, renewal, adding, acked, spent>>

\* QueueList reads the queues.
List(g) ==
    /\ calls[g].pc = "list"
    /\ calls' = [calls EXCEPT ![g].pc = "apply", ![g].reading = rows, ![g].reads = @ + 1]
    /\ UNCHANGED <<rows, producers, seqs, renewal, adding, acked, spent>>

\* QueueList fails: the call returns the error, with the change committed.
ListFails(g) ==
    /\ calls[g].pc = "list"
    /\ calls' = [calls EXCEPT ![g] = NoCall]
    /\ UNCHANGED <<rows, producers, seqs, renewal, adding, acked, spent>>

\* Mutant: one that began with this one will do.
OvertakenByAny(g) == seqs'.appliedFrom >= calls[g].first

\* The reading of a renewal or re-read that began after this one did has been
\* applied.
OvertakenByNewer(g) == seqs'.appliedFrom > calls[g].first

\* refreshQueueState applies its reading and ends, or reads again.
Apply(g) ==
    /\ calls[g].pc = "apply"
    /\ MuFree
    /\ \/ ApplyQueueState(calls[g].seq, calls[g].reading) /\ Returned(g)
       \/ /\ seqs.control # calls[g].seq
          /\ UNCHANGED <<seqs, producers>>
          /\ IF OvertakenByNewer(g)
             THEN Returned(g)
             ELSE calls' = [calls EXCEPT ![g].pc = "again"] /\ UNCHANGED acked
    /\ UNCHANGED <<rows, renewal, adding, spent>>

-----------------------------------------------------------------------------
\* leaseLoop: controlSeq is read before the renewal ...
RenewBegin ==
    /\ renewal.pc = "idle"
    /\ spent.renewals < MaxRenewals
    /\ renewal' = [renewal EXCEPT !.pc = "renew", !.seq = seqs.control]
    /\ spent' = [spent EXCEPT !.renewals = @ + 1]
    /\ UNCHANGED <<rows, producers, seqs, calls, adding, acked>>

\* ... which reads the paused and limited queues ...
Renew ==
    /\ renewal.pc = "renew"
    /\ renewal' = [renewal EXCEPT !.pc = "apply", !.reading = rows]
    /\ UNCHANGED <<rows, producers, seqs, calls, adding, acked, spent>>

\* ... and applyRenewed applies them, unless a reading was applied since.
ApplyRenewed ==
    /\ renewal.pc = "apply"
    /\ MuFree
    /\ \/ ApplyQueueState(renewal.seq, renewal.reading)
       \/ seqs.control # renewal.seq /\ UNCHANGED <<seqs, producers>>
    /\ renewal' = NoRenewal
    /\ UNCHANGED <<rows, calls, adding, acked, spent>>

-----------------------------------------------------------------------------
\* Queues().Add holds c.mu from here to its end: it ensures the queue's row and
\* lists the queues ...
Add(q) ==
    /\ MuFree
    /\ q \notin DOMAIN producers
    /\ spent.adds < MaxAdds
    /\ adding' = [queue |-> q, reading |-> rows]
    /\ spent' = [spent EXCEPT !.adds = @ + 1]
    /\ UNCHANGED <<rows, producers, seqs, calls, renewal, acked>>

\* ... moves controlSeq and starts the queue's producer with its state.
AddStarts ==
    /\ ~MuFree
    /\ seqs' = [seqs EXCEPT !.control = @ + 1]
    /\ producers' = [q \in DOMAIN producers \cup {adding.queue} |->
                        IF q = adding.queue THEN adding.reading[q] ELSE producers[q]]
    /\ calls' = [g \in Goroutines |-> IF calls[g].pc \in {"idle", "works", "begin"} THEN calls[g]
                                      ELSE [calls[g] EXCEPT !.adds = @ + 1]]
    /\ adding' = NoAdd
    /\ UNCHANGED <<rows, renewal, acked, spent>>

\* The listing fails: nothing is started.
AddFails ==
    /\ ~MuFree
    /\ adding' = NoAdd
    /\ UNCHANGED <<rows, producers, seqs, calls, renewal, acked, spent>>

\* Queues().Remove takes the queue's producer out.
RemoveQueue(q) ==
    /\ MuFree
    /\ q \in DOMAIN producers
    /\ producers' = [p \in DOMAIN producers \ {q} |-> producers[p]]
    /\ UNCHANGED <<rows, seqs, calls, renewal, adding, acked, spent>>

QueueNext ==
    \/ \E q \in Queues : ChangeElsewhere(q) \/ Control(q) \/ Add(q) \/ RemoveQueue(q)
    \/ \E g \in Callers, q \in Queues : Change(g, q)
    \/ \E g \in Goroutines : RefreshQueue(g) \/ ReadSeq(g) \/ List(g) \/ ListFails(g) \/ Apply(g)
    \/ RenewBegin \/ Renew \/ ApplyRenewed
    \/ AddStarts \/ AddFails

QueueSpec == QueueInit /\ [][QueueNext]_queueVars

-----------------------------------------------------------------------------
\* A change that Pause, Resume, SetLimits or a notification's re-read has
\* returned for is applied to the queue's producer for as long as it lives: no
\* older reading, of a renewal, of another re-read or of Queues().Add, ever
\* sets it back (control.go, applyQueueState and refreshQueueState).
ChangesStayApplied == \A q \in DOMAIN producers : producers[q] >= acked[q]

\* A re-read reads at most twice, and once more for each Add that overtakes it,
\* however often the queues change (control.go, refreshQueueState).
RereadsBounded == \A g \in Goroutines : calls[g].reads <= 2 + calls[g].adds

\* A queue's producer follows its row: both of the above.
FollowsQueue == ChangesStayApplied /\ RereadsBounded
=============================================================================
