----------------------------- MODULE Notifier ------------------------------
(***************************************************************************)
(* The notifier (notifier.go): inserts and stream appends mark the queue   *)
(* or topic to announce, a timer sends what is pending a while later, and  *)
(* flushNow, at the end of a stop, sends it at once and waits for a timer  *)
(* that has fired.  A timer's callback takes n.mu three times: it can be   *)
(* overtaken by a mark or by flushNow between any two.                     *)
(***************************************************************************)
EXTENDS Naturals

CONSTANTS Names,      \* queues and topics
          Flushers,   \* callers of flushNow
          Timers,     \* the timers armed, 1..n: bounds the marks that arm one
          NoTimer     \* n.timer = nil

VARIABLES pending,   \* n.pending and n.streams
          timer,     \* n.timer
          timers,    \* n.timers
          firing,    \* where each timer is: its callback fire, once it fires
          flushers   \* where each flushNow is, whether its context has ended,
                     \* and whether a mark came since its loop

notifierVars == <<pending, timer, timers, firing, flushers>>

NoFlush == [pc |-> "new", ended |-> FALSE, marked |-> FALSE]

NotifierInit ==
    /\ pending = {} /\ timer = NoTimer /\ timers = 0
    /\ firing = [t \in Timers |-> "unused"]
    /\ flushers = [f \in Flushers |-> NoFlush]

\* mark and markStream, with arm: a timer is started unless n.timer is set.
Mark(q) ==
    /\ pending' = pending \union {q}
    /\ flushers' = [f \in Flushers |-> [flushers[f] EXCEPT !.marked = TRUE]]
    /\ \/ timer # NoTimer /\ UNCHANGED <<timer, timers, firing>>
       \/ /\ timer = NoTimer
          /\ \E t \in Timers :
                /\ firing[t] = "unused" /\ \A u \in Timers : u < t => firing[u] # "unused"
                /\ timer' = t /\ timers' = timers + 1
                /\ firing' = [firing EXCEPT ![t] = "armed"]

\* The timer's interval has passed: its callback runs on its own goroutine,
\* and Stop on it is too late.
TimerFires(t) ==
    /\ firing[t] = "armed"
    /\ firing' = [firing EXCEPT ![t] = "fire"]
    /\ UNCHANGED <<pending, timer, timers, flushers>>

\* Mutant: the timer is counted finished before its flush.
FireLate(t) ==
    /\ firing[t] = "fire"
    /\ firing' = [firing EXCEPT ![t] = "flush"]
    /\ timers' = timers - 1
    /\ timer' = NoTimer
    /\ UNCHANGED <<pending, flushers>>

\* fire, up to its first unlock.
Fire(t) ==
    /\ firing[t] = "fire"
    /\ firing' = [firing EXCEPT ![t] = "flush"]
    /\ timer' = NoTimer
    /\ UNCHANGED <<pending, timers, flushers>>

\* flush, up to its unlock: it takes what is pending.
FireTakes(t) ==
    /\ firing[t] = "flush" /\ pending' = {}
    /\ firing' = [firing EXCEPT ![t] = "send"]
    /\ UNCHANGED <<timer, timers, flushers>>

\* Notify: an error is logged, and the names are not marked again.
FireSends(t) ==
    /\ firing[t] = "send"
    /\ firing' = [firing EXCEPT ![t] = "finish"]
    /\ UNCHANGED <<pending, timer, timers, flushers>>

\* n.fired.Broadcast.
Broadcast == [f \in Flushers |-> IF flushers[f].pc = "wait" THEN [flushers[f] EXCEPT !.pc = "woken"]
                                                          ELSE flushers[f]]

\* fire's last lock: the timer is counted finished, and fired broadcast.
FireEnds(t) ==
    /\ firing[t] = "finish"
    /\ firing' = [firing EXCEPT ![t] = "over"]
    /\ timers' = timers - 1
    /\ flushers' = Broadcast
    /\ UNCHANGED <<pending, timer>>

\* flushNow's loop under n.mu, to the unlock or to a wait on fired.
FlushNow(f) ==
    LET stopped == timer # NoTimer /\ firing[timer] = "armed"
    IN  /\ flushers[f].pc \in {"new", "woken"}
        /\ timers' = IF timers > 0 /\ stopped THEN timers - 1 ELSE timers
        /\ timer' = IF timers > 0 /\ stopped THEN NoTimer ELSE timer
        /\ firing' = [t \in Timers |-> IF timers > 0 /\ stopped /\ t = timer THEN "over" ELSE firing[t]]
        /\ IF timers' = 0 \/ flushers[f].ended
           THEN flushers' = [flushers EXCEPT ![f].pc = "flush", ![f].marked = FALSE]
           ELSE flushers' = [flushers EXCEPT ![f].pc = "wait"]
        /\ UNCHANGED pending

\* The context of flushNow ends: its AfterFunc broadcasts.
FlushEnds(f) ==
    /\ flushers[f].pc \in {"new", "wait", "woken"} /\ ~flushers[f].ended
    /\ flushers' = [Broadcast EXCEPT ![f].ended = TRUE]
    /\ UNCHANGED <<pending, timer, timers, firing>>

\* The flush at its end.
FlushTakes(f) ==
    /\ flushers[f].pc = "flush" /\ pending' = {}
    /\ flushers' = [flushers EXCEPT ![f].pc = "send"]
    /\ UNCHANGED <<timer, timers, firing>>
FlushSends(f) ==
    /\ flushers[f].pc = "send"
    /\ flushers' = [flushers EXCEPT ![f].pc = "returned"]
    /\ UNCHANGED <<pending, timer, timers, firing>>

NotifierNext ==
    \/ \E q \in Names : Mark(q)
    \/ \E t \in Timers : TimerFires(t) \/ Fire(t) \/ FireTakes(t) \/ FireSends(t) \/ FireEnds(t)
    \/ \E f \in Flushers : FlushNow(f) \/ FlushEnds(f) \/ FlushTakes(f) \/ FlushSends(f)

-----------------------------------------------------------------------------
\* "No flush runs once flushNow returns but one that a later mark starts"
\* (notifier.go), unless its context ended: then every timer has finished.
FlushLeavesNone ==
    \A f \in Flushers : flushers[f].pc = "returned" /\ ~flushers[f].ended /\ ~flushers[f].marked =>
        /\ pending = {}
        /\ \A t \in Timers : firing[t] \in {"unused", "over"}

\* A marked name is never left behind: while one is pending, a timer or a
\* flushNow that is yet to take what is pending will, and no timer but
\* n.timer is waiting to fire, where flushNow could not stop it.
NothingForgotten ==
    /\ pending # {} =>
          \/ \E t \in Timers : firing[t] \in {"armed", "fire", "flush"}
          \/ \E f \in Flushers : flushers[f].pc \in {"wait", "woken", "flush"}
    /\ \A t \in Timers : firing[t] = "armed" => timer = t

\* Both of the above.
NotifierSound == FlushLeavesNone /\ NothingForgotten
=============================================================================
