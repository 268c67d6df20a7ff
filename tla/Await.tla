------------------------------- MODULE Await -------------------------------
(***************************************************************************)
(* Await (await.go): callers wait for a job to finish, each on a channel   *)
(* of capacity one kept in doneWaiters, and read the job when signaled or  *)
(* when their poll is due.  signalDone copies the slice of the job's       *)
(* waiters under doneMu and walks it after the unlock, while awaitCancel   *)
(* shifts the elements of the same backing array: the walk reads whatever  *)
(* the array holds by the time it gets there.                              *)
(***************************************************************************)
EXTENDS Naturals, Sequences

CONSTANTS Waiters,    \* Await callers
          Signalers   \* callers of signalDone: the finalizer, the listener

VARIABLES awaited,  \* the job, as JobGet reads it
          array,    \* the backing array of doneWaiters[id]
          length,   \* the length of the slice doneWaiters[id]
          chans,    \* how many signals each caller's channel holds
          callers,  \* where each Await is
          signals   \* each signalDone: its copy of the slice and its place in it

awaitVars == <<awaited, array, length, chans, callers, signals>>

\* own is the array signalDone walks once append has moved the map's slice
\* to a larger one; at and sent are the callers registered as it took its
\* copy and those it has signaled, for SignalReachesAll.
NoSignal == [pc |-> "idle", len |-> 0, next |-> 1, own |-> <<>>, at |-> {}, sent |-> {}]

AwaitInit ==
    /\ awaited = "running"
    /\ array = <<>> /\ length = 0
    /\ chans = [w \in Waiters |-> 0]
    /\ callers = [w \in Waiters |-> "new"]
    /\ signals = [s \in Signalers |-> NoSignal]

Registered == {array[i] : i \in 1..length}

\* awaitDone appends the channel: in place while the array has room (its
\* capacity is 1, 2, 4, ...), else to a copy of twice the capacity, and the
\* slices taken before keep the old array.
AwaitDone(w) ==
    /\ callers[w] = "new"
    /\ callers' = [callers EXCEPT ![w] = "get"]
    /\ length' = length + 1
    /\ LET grown == IF array = <<>> THEN <<w>> ELSE array \o array
           full  == length = Len(array)
       IN  /\ array' = [(IF full THEN grown ELSE array) EXCEPT ![length + 1] = w]
           /\ signals' = IF full
                         THEN [s \in Signalers |-> IF signals[s].pc = "walk" /\ signals[s].own = <<>>
                                                   THEN [signals[s] EXCEPT !.own = array] ELSE signals[s]]
                         ELSE signals
    /\ UNCHANGED <<awaited, chans>>

\* Await's JobGet: a terminal job ends the call, any other is waited for.
Get(w) ==
    /\ callers[w] = "get"
    /\ callers' = [callers EXCEPT ![w] = IF awaited = "finished" THEN "leave" ELSE "wait"]
    /\ UNCHANGED <<awaited, array, length, chans, signals>>

\* The three cases of Await's select: the channel, the poll and the context.
Signaled(w) ==
    /\ callers[w] = "wait" /\ chans[w] = 1
    /\ chans' = [chans EXCEPT ![w] = 0]
    /\ callers' = [callers EXCEPT ![w] = "get"]
    /\ UNCHANGED <<awaited, array, length, signals>>
\* Mutant: a caller waits for its signal alone.
PollNever(w) == FALSE /\ UNCHANGED awaitVars
Poll(w) ==
    /\ callers[w] = "wait"
    /\ callers' = [callers EXCEPT ![w] = "get"]
    /\ UNCHANGED <<awaited, array, length, chans, signals>>
ContextEnds(w) ==
    /\ callers[w] = "wait"
    /\ callers' = [callers EXCEPT ![w] = "leave"]
    /\ UNCHANGED <<awaited, array, length, chans, signals>>

\* Mutant: the caller's channel stays in the slice.
AwaitCancelLast(w) ==
    /\ callers[w] = "leave"
    /\ callers' = [callers EXCEPT ![w] = "returned"]
    /\ length' = length - 1
    /\ UNCHANGED <<awaited, array, chans, signals>>

\* awaitCancel closes the gap in place, under doneMu.  The last waiter's
\* leaving deletes the map's entry, and the next registration starts anew.
AwaitCancel(w) ==
    /\ callers[w] = "leave"
    /\ callers' = [callers EXCEPT ![w] = "returned"]
    /\ LET at == CHOOSE i \in 1..length : array[i] = w
           shifted == [i \in DOMAIN array |-> IF i \in at..(length - 1) THEN array[i + 1] ELSE array[i]]
       IN  /\ length' = length - 1
           /\ array' = IF length = 1 THEN <<>> ELSE shifted
           /\ signals' = IF length = 1
                         THEN [s \in Signalers |-> IF signals[s].pc = "walk" /\ signals[s].own = <<>>
                                                   THEN [signals[s] EXCEPT !.own = shifted] ELSE signals[s]]
                         ELSE signals
    /\ UNCHANGED <<awaited, chans>>

\* The job's result commits, on this client or another.
JobFinishes ==
    /\ awaited = "running"
    /\ awaited' = "finished"
    /\ UNCHANGED <<array, length, chans, callers, signals>>

\* signalDone's copy of the slice, under doneMu.  The finalizer and the
\* listener call it after the commit; the listener's call is lost with a
\* connection that is down, so no fairness is assumed of it.
SignalBegin(s) ==
    /\ awaited = "finished" /\ signals[s].pc = "idle"
    /\ signals' = [signals EXCEPT ![s] = [NoSignal EXCEPT !.pc = "walk", !.len = length, !.at = Registered]]
    /\ UNCHANGED <<awaited, array, length, chans, callers>>

\* One turn of its loop, or its end: a channel that is full is passed over.
SignalNext(s) ==
    LET walk == signals[s]
        over == IF walk.own = <<>> THEN array ELSE walk.own
    IN  /\ walk.pc = "walk"
        /\ IF walk.next > walk.len
           THEN /\ signals' = [signals EXCEPT ![s].pc = "done"]
                /\ UNCHANGED chans
           ELSE /\ signals' = [signals EXCEPT ![s].next = @ + 1, ![s].sent = @ \union {over[walk.next]}]
                /\ chans' = [chans EXCEPT ![over[walk.next]] = 1]
        /\ UNCHANGED <<awaited, array, length, callers>>

AwaitNext ==
    \/ \E w \in Waiters : \/ AwaitDone(w) \/ Get(w) \/ Signaled(w) \/ Poll(w)
                          \/ ContextEnds(w) \/ AwaitCancel(w)
    \/ JobFinishes
    \/ \E s \in Signalers : SignalBegin(s) \/ SignalNext(s)

\* A caller's goroutine runs and its poll timer fires (PollInterval is
\* positive); a signal is not relied on.
AwaitFair == \A w \in Waiters : /\ WF_awaitVars(Get(w))
                                /\ WF_awaitVars(Poll(w))
                                /\ WF_awaitVars(AwaitCancel(w))

-----------------------------------------------------------------------------
\* Await returns once the job has finished, whatever becomes of the
\* notification: the poll finds the job (await.go, "otherwise ... Await
\* polls every Config.PollInterval").
AwaitReturns ==
    \A w \in Waiters : (awaited = "finished" /\ callers[w] \in {"get", "wait", "leave"}) ~> callers[w] = "returned"

\* doneWaiters holds exactly the channels of the calls that have not
\* returned, once each, whatever order they leave in.
WaitersListed ==
    /\ Registered = {w \in Waiters : callers[w] \in {"get", "wait", "leave"}}
    /\ \A i, k \in 1..length : array[i] = array[k] => i = k

\* "signalDone wakes waiters on a finalized job" (await.go): once a call of
\* it has ended, no caller that was registered as it began is still waiting
\* without having been signaled.
SignalReachesAll ==
    \A s \in Signalers : signals[s].pc = "done" =>
        \A w \in signals[s].at \ signals[s].sent : callers[w] # "wait"
=============================================================================
