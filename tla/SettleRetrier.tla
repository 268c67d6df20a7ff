--------------------------- MODULE SettleRetrier ---------------------------
(***************************************************************************)
(* The batches of a client whose settle gave up on a row another            *)
(* transaction held (settleretry.go): the set of them, and the goroutine    *)
(* that settles them again beside the finalizer's loop.  A settle sees the  *)
(* progress committed when its statement began; a flush can add progress,   *)
(* and give up on the row the attempt itself has locked, while it runs.     *)
(***************************************************************************)
EXTENDS Integers, FiniteSets, Sequences

CONSTANTS
    Batches,     \* batches the client finishes jobs of
    MaxHeld,     \* the code's maxHeld
    Doublings,   \* how often the first delay doubles before it passes maxDelay
    MaxProgress  \* bound on the progress rows committed

ASSUME RetrierAssumption == MaxHeld \in Nat \ {0} /\ Doublings \in Nat /\ MaxProgress \in Nat

VARIABLES
    held,      \* the map held: [delay, due, again] of each batch in it
    retrier,   \* the goroutine: what it does, the batches it tries, in order
    stopping,  \* ctx of run is done
    progress,  \* progress rows committed that no settle has folded
    committed, \* how many were ever committed
    flushed,   \* the batch the finalizer's loop is following up, if any
    given      \* progress a follow-up's settle gave up on, by batch

retrierVars == <<held, retrier, stopping, progress, committed, flushed, given>>

Kept == DOMAIN held
Idling == [pc |-> "select", ids |-> <<>>, tried |-> {}, still |-> {}, seen |-> {}, final |-> FALSE]

RetrierInit ==
    /\ held = <<>>
    /\ retrier = Idling
    /\ stopping = FALSE
    /\ progress = {}
    /\ committed = 0
    /\ flushed = {}
    /\ given = {}

RowsOf(b, rows) == {r \in rows : r[1] = b}

\* A flush of this client commits progress of a batch it does not complete.
FlushCommits(b) ==
    /\ ~stopping /\ flushed = {}
    /\ committed < MaxProgress
    /\ flushed' = {b}
    /\ committed' = committed + 1
    /\ progress' = progress \cup {<<b, committed>>}
    /\ UNCHANGED <<held, retrier, stopping, given>>

\* The follow-up's settle folds what has committed ...
FollowUpSettles(b) ==
    /\ b \in flushed /\ flushed' = {}
    /\ progress' = progress \ RowsOf(b, progress)
    /\ given' = given \ RowsOf(b, given)
    /\ UNCHANGED <<held, retrier, stopping, committed>>

\* ... or gives up on the row, and add keeps the batch, unless the set is
\* full: then it is the leader's.
AddHeld(b) ==
    LET fresh == [delay |-> 0, due |-> FALSE, again |-> FALSE]
    IN  held' = IF b \in Kept
                THEN [held EXCEPT ![b] = [@ EXCEPT !.again = TRUE, !.delay = 0]]
                ELSE IF Cardinality(Kept) = MaxHeld THEN held
                ELSE [c \in Kept \cup {b} |-> IF c = b THEN fresh ELSE held[c]]

FollowUpGivesUp(b) ==
    /\ b \in flushed /\ flushed' = {}
    /\ AddHeld(b)
    /\ given' = IF b \in DOMAIN held' THEN given \cup RowsOf(b, progress) ELSE given
    /\ UNCHANGED <<retrier, stopping, progress, committed>>

TimerDue(b) ==
    /\ b \in Kept /\ ~held[b].due
    /\ held' = [held EXCEPT ![b].due = TRUE]
    /\ UNCHANGED <<flushed, retrier, stopping, progress, committed, given>>

CtxDone ==
    /\ ~stopping /\ flushed = {}
    /\ stopping' = TRUE
    /\ UNCHANGED <<flushed, held, retrier, progress, committed, given>>

\* The batches whose delay is shortest come first.
Tries(S) == {ids \in [1..Cardinality(S) -> S] :
    \A i, k \in 1..Cardinality(S) : i < k => ids[i] # ids[k] /\ held[ids[i]].delay <= held[ids[k]].delay}

Attempt(S, final) ==
    \E ids \in Tries(S) :
        /\ retrier' = [Idling EXCEPT !.pc = "settle", !.ids = ids, !.tried = S, !.final = final]
        /\ held' = [b \in Kept |-> IF b \in S THEN [held[b] EXCEPT !.again = FALSE] ELSE held[b]]

AttemptDue ==
    /\ retrier.pc = "select"
    /\ LET due == {b \in Kept : held[b].due} IN due # {} /\ Attempt(due, FALSE)
    /\ UNCHANGED <<flushed, stopping, progress, committed, given>>

\* abandon says not to wait: what is held is left to the leader.
RunStops ==
    /\ retrier.pc = "select" /\ stopping
    /\ \/ Attempt(Kept, TRUE) /\ UNCHANGED given
       \/ retrier' = [Idling EXCEPT !.pc = "exited"] /\ given' = {} /\ UNCHANGED held
    /\ UNCHANGED <<flushed, stopping, progress, committed>>

\* settle, one statement per batch: it begins, and folds what it saw ...
SettleStarts ==
    /\ retrier.pc = "settle" /\ retrier.ids # <<>>
    /\ IF stopping /\ ~retrier.final
       THEN retrier' = [retrier EXCEPT !.still = @ \cup {Head(retrier.ids)}, !.ids = Tail(@)]
       ELSE retrier' = [retrier EXCEPT !.pc = "settling", !.seen = RowsOf(Head(retrier.ids), progress)]
    /\ UNCHANGED <<flushed, held, stopping, progress, committed, given>>

Settled == [retrier EXCEPT !.pc = "settle", !.ids = Tail(@), !.seen = {}]

SettleDone ==
    /\ retrier.pc = "settling"
    /\ progress' = progress \ retrier.seen
    /\ given' = given \ retrier.seen
    /\ retrier' = Settled
    /\ UNCHANGED <<flushed, held, stopping, committed>>

\* ... or finds the row held, is cut short by ctx, or fails otherwise, which
\* leaves the batch to the leader.
SettleHeld ==
    /\ retrier.pc = "settling"
    /\ retrier' = [Settled EXCEPT !.still = @ \cup {Head(retrier.ids)}]
    /\ UNCHANGED <<flushed, held, stopping, progress, committed, given>>

SettleFails ==
    /\ retrier.pc = "settling"
    /\ given' = given \ retrier.seen
    /\ retrier' = Settled
    /\ UNCHANGED <<flushed, held, stopping, progress, committed>>

\* Mutant: a batch added again meanwhile goes with its settled attempt.
StaysIfHeld(b, stopped) == b \in retrier.still /\ (stopped \/ held[b].delay < Doublings)

\* The end of attempt: which batches stay, with which delay.
Stays(b, stopped) ==
    \/ b \in retrier.still /\ stopped
    \/ held[b].again
    \/ b \in retrier.still /\ held[b].delay < Doublings

NextHeld(b, stopped) ==
    IF b \in retrier.still /\ stopped THEN held[b]
    ELSE IF held[b].again THEN [delay |-> 0, due |-> FALSE, again |-> FALSE]
    ELSE [held[b] EXCEPT !.delay = @ + 1, !.due = FALSE]

AttemptEnds ==
    /\ retrier.pc = "settle" /\ retrier.ids = <<>>
    /\ LET stopped == stopping /\ ~retrier.final
           kept == {b \in Kept : b \notin retrier.tried \/ (~retrier.final /\ Stays(b, stopped))}
       IN  /\ held' = [b \in kept |-> IF b \in retrier.tried THEN NextHeld(b, stopped) ELSE held[b]]
           /\ given' = given \ {r \in given : r[1] \in Kept \ kept /\ (retrier.final \/ r[1] \in retrier.still)}
    /\ retrier' = IF retrier.final THEN [Idling EXCEPT !.pc = "exited"] ELSE Idling
    /\ UNCHANGED <<flushed, stopping, progress, committed>>

RetrierNext ==
    \/ \E b \in Batches : FlushCommits(b) \/ FollowUpSettles(b) \/ FollowUpGivesUp(b) \/ TimerDue(b)
    \/ CtxDone \/ AttemptDue \/ RunStops
    \/ SettleStarts \/ SettleDone \/ SettleHeld \/ SettleFails \/ AttemptEnds

(***************************************************************************)
(* Properties.                                                              *)
(***************************************************************************)
\* Progress a settle gave up on stays with the retrier until a statement
\* that began after it folds it, or the batch is knowingly left to the
\* leader: an attempt that settles the batch without having seen it does
\* not let the batch go (heldBatch.again).
GivenUpIsKept == \A r \in given : r \in progress /\ r[1] \in Kept

=============================================================================
