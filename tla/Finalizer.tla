----------------------------- MODULE Finalizer -----------------------------
(***************************************************************************)
(* The client's finalizer (finalizer.go): job goroutines submit results,    *)
(* one loop, run, takes them from a buffer and flushes them, and a stop     *)
(* drains what is buffered and what is still being submitted.               *)
(*                                                                          *)
(* What a flush does with the database is in FinalizeWrite.  Here each      *)
(* result of a flush is settled (written, or given up for good), or its     *)
(* row is held by a transaction and it is submitted again later.            *)
(***************************************************************************)
EXTENDS Integers, Sequences, FiniteSets, Functions

CONSTANTS
    Results,        \* the attempts whose results are submitted
    Committed,      \* those the client saw commit with CompleteTx: nothing to write
    Holdable,       \* those whose row another transaction may hold
    LogBytes,       \* the size of each result's log
    MaxBatch,
    FlushLogBytes,
    BufferedLogBytes,
    Capacity,       \* of the channel in
    MaxLeaving      \* bound: goroutines between handing in and submitDone

ASSUME FinalizerAssumption ==
    /\ IsFiniteSet(Results)
    /\ Committed \subseteq Results
    /\ Holdable \subseteq Results \ Committed
    /\ LogBytes \in [Results -> Nat]
    /\ MaxBatch \in Nat \ {0}
    /\ FlushLogBytes \in Nat \ {0}
    /\ BufferedLogBytes \in Nat
    /\ Capacity \in Nat /\ Capacity >= 2 * MaxBatch
    /\ MaxLeaving \in Nat \ {0}

VARIABLES
    at,         \* where each result is
    late,       \* the results handed in past the drain's deadline
    in,         \* the channel of results
    leaving,    \* the submits that have handed in or dropped, before submitDone
    open,       \* submits / 2 - submitted: the submits started and not done
    closed,     \* submits is odd: the final drain has ended
    refused,    \* a submit has come after that
    used,       \* logs.used
    left,       \* the channel left holds a signal
    stopping,   \* run's context is done
    draining,   \* the channel draining is closed
    deadline,   \* the drain's: "unset", "set" or "passed"
    expiry,     \* the timer of the deadline is yet to be received from
    pc,         \* where run is
    batch,      \* the results run has taken
    chunk,      \* those of them being flushed
    force,      \* the deadline had passed when the drain last looked
    idle,       \* what stopIfIdle found
    seen        \* what it loaded: open, less the submits done since, and whether submits has changed

submitVars == <<at, late, in, leaving, used>>
countVars == <<open, closed, refused, seen>>
drainVars == <<stopping, draining, deadline, expiry, force, idle>>
vars == <<at, late, in, leaving, open, closed, refused, used, left, stopping, draining, deadline, expiry,
          pc, batch, chunk, force, idle, seen>>

(* Submitted and neither settled nor given up. *)
InHand == {"counted", "ready", "given", "delayed"}
Places == {"worker", "settled", "dropped"} \cup InHand

TypeOK ==
    /\ at \in [Results -> Places]
    /\ late \subseteq Results
    /\ in \in Seq(Results) /\ Len(in) <= Capacity
    /\ leaving \in Nat
    /\ open \in Nat
    /\ closed \in BOOLEAN
    /\ refused \in BOOLEAN
    /\ used \in Nat
    /\ left \in BOOLEAN
    /\ stopping \in BOOLEAN
    /\ draining \in BOOLEAN
    /\ deadline \in {"unset", "set", "passed"}
    /\ expiry \in BOOLEAN
    /\ pc \in {"loop", "flush", "release", "take", "load", "check", "swap", "wait", "ended"}
    /\ batch \in Seq(Results)
    /\ chunk \in Seq(Results)
    /\ force \in BOOLEAN
    /\ idle \in BOOLEAN
    /\ seen \in [open : Int, changed : BOOLEAN]

Init ==
    /\ at = [r \in Results |-> "worker"]
    /\ late = {}
    /\ in = <<>>
    /\ leaving = 0
    /\ open = 0
    /\ closed = FALSE
    /\ refused = FALSE
    /\ used = 0
    /\ left = FALSE
    /\ stopping = FALSE
    /\ draining = FALSE
    /\ deadline = "unset"
    /\ expiry = FALSE
    /\ pc = "loop"
    /\ batch = <<>>
    /\ chunk = <<>>
    /\ force = FALSE
    /\ idle = FALSE
    /\ seen = [open |-> 0, changed |-> FALSE]

(* The bytes of the logs of some results, each by whose it is, and their number. *)
Bytes(S) == UNION {{r} \X (1..LogBytes[r]) : r \in S}

Logs(S) == Cardinality(Bytes(S))
-----------------------------------------------------------------------------
(***************************************************************************)
(* Submits.                                                                 *)
(***************************************************************************)
(* n submits start (startSubmit), or one is done (submitDone): run, in stopIfIdle, sees either. *)
Starts(n) ==
    /\ open' = open + n
    /\ seen' = IF pc \in {"check", "swap"} /\ n > 0 THEN [seen EXCEPT !.changed = TRUE] ELSE seen

IsDone ==
    /\ open' = open - 1
    /\ seen' = IF pc = "check" THEN [seen EXCEPT !.open = @ - 1] ELSE seen

(* A job goroutine submits the result of its attempt, unless the drain has ended. *)
Submit(r) ==
    /\ at[r] = "worker"
    /\ closed => leaving < MaxLeaving
    /\ Starts(1)
    /\ at' = [at EXCEPT ![r] = IF closed THEN "dropped" ELSE "counted"]
    /\ leaving' = IF closed THEN leaving + 1 ELSE leaving
    /\ refused' = (refused \/ closed)
    /\ UNCHANGED <<late, in, used, left, closed, drainVars, pc, batch, chunk>>

(* Mutant: a result fits until the bound has been passed. *)
FitsBefore(r) == used <= BufferedLogBytes \/ draining

(* logBudget.acquire takes the bytes of r, without waiting once the drain has begun. *)
Fits(r) == LogBytes[r] = 0 \/ used = 0 \/ used + LogBytes[r] <= BufferedLogBytes \/ draining

(***************************************************************************)
(* A counted submit, or the timer of a held result, waits for the log       *)
(* budget and notes the time.  It gives up once run has returned.           *)
(***************************************************************************)
Acquire(r) ==
    /\ at[r] \in {"counted", "delayed"}
    /\ leaving < MaxLeaving
    /\ \E taken \in BOOLEAN :
        /\ IF taken THEN Fits(r) ELSE pc = "ended" /\ LogBytes[r] > 0
        /\ at' = [at EXCEPT ![r] = IF taken THEN "ready" ELSE "dropped"]
        /\ used' = IF taken THEN used + LogBytes[r] ELSE used
        /\ leaving' = IF taken THEN leaving ELSE leaving + 1
    /\ late' = IF draining /\ deadline = "passed" THEN late \cup {r} ELSE late \ {r}
    /\ UNCHANGED <<in, left, countVars, drainVars, pc, batch, chunk>>

(* The result is sent, once the buffer has room, or dropped once run has returned. *)
Hand(r) ==
    /\ at[r] = "ready"
    /\ leaving < MaxLeaving
    /\ \E sent \in BOOLEAN :
        /\ IF sent THEN Len(in) < Capacity ELSE pc = "ended"
        /\ at' = [at EXCEPT ![r] = IF sent THEN "given" ELSE "dropped"]
        /\ in' = IF sent THEN Append(in, r) ELSE in
    /\ leaving' = leaving + 1
    /\ UNCHANGED <<late, used, left, countVars, drainVars, pc, batch, chunk>>

(* Mutant: a submit that ends does not wake the drain. *)
SubmitDoneSilently ==
    /\ leaving > 0
    /\ leaving' = leaving - 1
    /\ IsDone
    /\ UNCHANGED <<at, late, in, used, left, closed, refused, drainVars, pc, batch, chunk>>

SubmitDone ==
    /\ leaving > 0
    /\ leaving' = leaving - 1
    /\ IsDone
    /\ left' = (left \/ draining)
    /\ UNCHANGED <<at, late, in, used, closed, refused, drainVars, pc, batch, chunk>>
-----------------------------------------------------------------------------
(***************************************************************************)
(* run.                                                                     *)
(***************************************************************************)
Full(b) == Len(b) >= MaxBatch \/ Logs(Range(b)) >= FlushLogBytes

(* The first results of b, as many as one flush takes. *)
FirstFlush(b) ==
    LET cuts == {n \in 1..Len(b) : n = Len(b) \/ Full(SubSeq(b, 1, n))}
    IN  SubSeq(b, 1, CHOOSE n \in cuts : \A m \in cuts : n <= m)

(* The context of run is canceled, by the client's stop. *)
FinCancel ==
    /\ ~stopping
    /\ stopping' = TRUE
    /\ UNCHANGED <<submitVars, countVars, left, draining, deadline, expiry, force, idle, pc, batch, chunk>>

Receive ==
    /\ in # <<>>
    /\ batch' = Append(batch, Head(in))
    /\ in' = Tail(in)

Take ==
    /\ pc = "loop"
    /\ Receive
    /\ pc' = IF Full(batch') THEN "flush" ELSE "loop"
    /\ UNCHANGED <<at, late, leaving, used, countVars, left, drainVars, chunk>>

(* The interval since the first result of the batch has passed. *)
Timer ==
    /\ pc = "loop" /\ batch # <<>>
    /\ pc' = "flush"
    /\ UNCHANGED <<submitVars, countVars, left, drainVars, batch, chunk>>

(* Mutant: the retry of a held result is counted once it is handed in. *)
FlushUncounted(held) ==
    /\ pc = "flush"
    /\ chunk' = FirstFlush(batch)
    /\ held \subseteq Holdable \cap Range(chunk')
    /\ batch' = SubSeq(batch, Len(chunk') + 1, Len(batch))
    /\ at' = [r \in Results |->
                 IF r \in held THEN IF closed THEN "dropped" ELSE "delayed"
                 ELSE IF r \in Range(chunk') THEN "settled" ELSE at[r]]
    /\ Starts(0)
    /\ pc' = "release"
    /\ left' = (left \/ (closed /\ held # {}))
    /\ UNCHANGED <<late, in, leaving, used, closed, refused, drainVars>>

(***************************************************************************)
(* One flush.  The results whose rows are held are submitted again by a     *)
(* timer, and count as in flight from here (notWritten); once the drain     *)
(* has ended they are dropped.                                              *)
(***************************************************************************)
Flush(held) ==
    /\ pc = "flush"
    /\ chunk' = FirstFlush(batch)
    /\ held \subseteq Holdable \cap Range(chunk')
    /\ batch' = SubSeq(batch, Len(chunk') + 1, Len(batch))
    /\ at' = [r \in Results |->
                 IF r \in held THEN IF closed THEN "dropped" ELSE "delayed"
                 ELSE IF r \in Range(chunk') THEN "settled" ELSE at[r]]
    /\ Starts(IF closed THEN 0 ELSE Cardinality(held))
    /\ pc' = "release"
    /\ left' = (left \/ (closed /\ held # {}))
    /\ UNCHANGED <<late, in, leaving, used, closed, refused, drainVars>>

(* Mutant: a flush keeps the budget of its logs. *)
ReleaseNothing == used' = used

ReleaseChunk == used' = used - Logs(Range(chunk))

(* The end of a flush, and of the drain's flushes: the first starts the deadline. *)
Release ==
    /\ pc = "release"
    /\ ReleaseChunk
    /\ chunk' = <<>>
    /\ pc' = IF ~draining THEN "loop" ELSE IF batch # <<>> THEN "flush" ELSE "load"
    /\ IF pc' = "load" /\ deadline = "unset"
       THEN deadline' = "set" /\ expiry' = TRUE
       ELSE UNCHANGED <<deadline, expiry>>
    /\ UNCHANGED <<at, late, in, leaving, countVars, left, stopping, draining, force, idle, batch>>
-----------------------------------------------------------------------------
(***************************************************************************)
(* The final drain.                                                         *)
(***************************************************************************)
Drain ==
    /\ pc = "loop" /\ stopping
    /\ draining' = TRUE
    /\ pc' = "take"
    /\ UNCHANGED <<submitVars, countVars, left, stopping, deadline, expiry, force, idle, batch, chunk>>

DrainTake ==
    /\ pc = "take"
    /\ Receive
    /\ UNCHANGED <<at, late, leaving, used, countVars, left, drainVars, pc, chunk>>

(* Results handed in past the deadline, of jobs still finishing, are dropped. *)
TooLate == IF deadline = "passed" THEN (Range(batch) \cap late) \ Committed ELSE {}

(* The results of b that are not in S, in their order. *)
Without(b, S) ==
    LET kept[n \in 0..Len(b)] ==
            IF n = 0 THEN <<>> ELSE IF b[n] \in S THEN kept[n - 1] ELSE Append(kept[n - 1], b[n])
    IN  kept[Len(b)]

(* Nothing is left in the buffer: what was taken is flushed, unless it came late. *)
DrainBatch ==
    /\ pc = "take" /\ in = <<>>
    /\ force' = (deadline = "passed")
    /\ at' = [r \in Results |-> IF r \in TooLate THEN "dropped" ELSE at[r]]
    /\ batch' = Without(batch, TooLate)
    /\ used' = used - Logs(TooLate)
    /\ pc' = IF batch' # <<>> THEN "flush" ELSE "load"
    /\ IF pc' = "load" /\ deadline = "unset"
       THEN deadline' = "set" /\ expiry' = TRUE
       ELSE UNCHANGED <<deadline, expiry>>
    /\ UNCHANGED <<late, in, leaving, countVars, left, stopping, draining, idle, chunk>>

(* stopIfIdle loads submits, *)
StopLoad ==
    /\ pc = "load"
    /\ seen' = [open |-> open, changed |-> FALSE]
    /\ pc' = "check"
    /\ UNCHANGED <<submitVars, open, closed, refused, left, drainVars, batch, chunk>>

(* then submitted and the length of the buffer, *)
StopCheck ==
    /\ pc = "check"
    /\ idle' = (seen.open = 0 /\ in = <<>>)
    /\ pc' = IF ~closed /\ (idle' \/ force) THEN "swap" ELSE IF idle' THEN "ended" ELSE "wait"
    /\ seen' = [seen EXCEPT !.open = 0]
    /\ UNCHANGED <<submitVars, open, closed, refused, left, stopping, draining, deadline, expiry, force, batch, chunk>>

(* Mutant: the flag is set whatever submits has become. *)
SwapAlways == TRUE

Swaps == ~seen.changed

(* and closes submits, if no submit has started since. *)
StopSwap ==
    /\ pc = "swap"
    /\ closed' = Swaps
    /\ pc' = IF ~closed' THEN "load" ELSE IF idle THEN "ended" ELSE "wait"
    /\ UNCHANGED <<submitVars, open, refused, seen, left, drainVars, batch, chunk>>

(* The drain waits for a result, the end of a submit or its deadline. *)
DrainWait ==
    /\ pc = "wait"
    /\ \/ Receive /\ UNCHANGED <<left, expiry>>
       \/ left /\ left' = FALSE /\ UNCHANGED <<in, batch, expiry>>
       \/ expiry /\ deadline = "passed" /\ expiry' = FALSE /\ UNCHANGED <<in, batch, left>>
    /\ pc' = "take"
    /\ UNCHANGED <<at, late, leaving, used, countVars, stopping, draining, deadline, force, idle, chunk>>

(* drainTimeout passes. *)
Expire ==
    /\ deadline = "set"
    /\ deadline' = "passed"
    /\ UNCHANGED <<submitVars, countVars, left, stopping, draining, expiry, force, idle, pc, batch, chunk>>
-----------------------------------------------------------------------------
RunStep ==
    \/ Take
    \/ Timer
    \/ \E held \in SUBSET Holdable : Flush(held)
    \/ Release
    \/ Drain
    \/ DrainTake
    \/ DrainBatch
    \/ StopLoad
    \/ StopCheck
    \/ StopSwap
    \/ DrainWait

Next ==
    \/ \E r \in Results : Submit(r)
    \/ \E r \in Results : Acquire(r)
    \/ \E r \in Results : Hand(r)
    \/ SubmitDone
    \/ FinCancel
    \/ Expire
    \/ RunStep

Spec == Init /\ [][Next]_vars

(***************************************************************************)
(* The loop and the goroutines that have submitted are scheduled, and the   *)
(* deadline passes.  Nothing is assumed of workers, which may never         *)
(* submit, nor of held rows, which may stay held.  Strong fairness is for   *)
(* what waits with others: the select of run picks among its ready cases at *)
(* random, so the stop's is picked in the end; senders waiting on a channel *)
(* are served in order; and each release wakes all who wait for the budget, *)
(* a held result among them at most every heldRetry.                        *)
(***************************************************************************)
Fairness ==
    /\ WF_vars(RunStep) /\ SF_vars(Drain)
    /\ WF_vars(SubmitDone)
    /\ WF_vars(Expire)
    /\ \A r \in Results : SF_vars(Acquire(r) \/ Hand(r))

FairSpec == Spec /\ Fairness
-----------------------------------------------------------------------------
(***************************************************************************)
(* Properties.                                                              *)
(***************************************************************************)
(***************************************************************************)
(* Once run has returned, no submit is in flight and no result is left in   *)
(* the buffer or with a timer: each was settled or dropped with a word in   *)
(* the log.  Held results included, whose retry the drain waits for.  If a  *)
(* submit came once the drain had ended the code does not promise as much:  *)
(* see StopWaitsForAll.                                                     *)
(***************************************************************************)
NoneStranded == pc = "ended" /\ ~refused => \A r \in Results : at[r] \notin InHand

(***************************************************************************)
(* The same, without the condition: stopIfIdle "reports whether the submits *)
(* in flight are done".                                                     *)
(***************************************************************************)
StopWaitsForAll == pc = "ended" => \A r \in Results : at[r] \notin InHand

(***************************************************************************)
(* Until a stop, the results handed in and not yet flushed hold at most     *)
(* BufferedLogBytes of logs, or are a single one whose log is larger: the   *)
(* budget counts no fewer bytes than are held, over results held back,      *)
(* handed in again and dropped.                                             *)
(***************************************************************************)
LogHolders == {r \in Results : LogBytes[r] > 0 /\ (at[r] \in {"ready", "given"} \/ r \in Range(chunk))}

BudgetKept == ~draining => Logs(LogHolders) <= BufferedLogBytes \/ Cardinality(LogHolders) = 1

(* The finalizer's bookkeeping is sound: the type, no result left behind by  *)
(* its end, and the log budget kept.                                        *)
FinalizerSound == TypeOK /\ NoneStranded /\ BudgetKept

(* A stop's final drain ends, whatever rows stay held and whatever workers do. *)
DrainEnds == stopping ~> pc = "ended"

(***************************************************************************)
(* A submit is not kept waiting: a result whose row nobody holds is settled *)
(* or dropped, though the buffer and the budget fill up.                    *)
(***************************************************************************)
ResultsHandled ==
    \A r \in Results \ Holdable :
        at[r] = "counted" ~> at[r] \in {"settled", "dropped"} \/ refused
=============================================================================
