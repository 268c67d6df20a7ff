---------------------------- MODULE StuckWatch -----------------------------
(***************************************************************************)
(* The watch on a worker whose context was canceled (stuck.go).  Three     *)
(* goroutines share it without a lock: the worker's, which calls returned; *)
(* the context's AfterFunc, which arms the timer; and the timer's, which   *)
(* reports the worker.                                                     *)
(***************************************************************************)
EXTENDS Naturals

VARIABLES canceled,  \* the worker's context is canceled
          after,     \* the AfterFunc: waiting, stopped, or where it is
          grace,     \* the timer: unset, armed, stopped, or where reportStuck is
          stored,    \* w.timer holds the timer
          done,      \* w.done
          worker,    \* the worker, and where its call of returned is
          reports    \* reports made

stuckVars == <<canceled, after, grace, stored, done, worker, reports>>

StuckInit ==
    /\ canceled = FALSE /\ stored = FALSE /\ done = FALSE
    /\ after = "waiting" /\ grace = "unset"
    /\ worker = "running" /\ reports = 0

\* The context is canceled: by JobCancel, the timeout, a fence or the stop,
\* or by the worker's own return (execute's deferred cancel), and the
\* AfterFunc starts, unless it was stopped.
CancelContext ==
    /\ ~canceled
    /\ canceled' = TRUE
    /\ after' = IF after = "waiting" THEN "arm" ELSE after
    /\ UNCHANGED <<grace, stored, done, worker, reports>>

\* The AfterFunc of watchStuck: arm the timer, store it, look at done.
ArmGrace ==
    /\ after = "arm"
    /\ after' = "store" /\ grace' = "armed"
    /\ UNCHANGED <<canceled, stored, done, worker, reports>>
StoreTimer ==
    /\ after = "store"
    /\ after' = "look" /\ stored' = TRUE
    /\ UNCHANGED <<canceled, grace, done, worker, reports>>
StopTimer == grace' = IF grace = "armed" THEN "stopped" ELSE grace
\* Mutant: the worker's return is not looked for.
LookAway ==
    /\ after = "look"
    /\ after' = "ended"
    /\ UNCHANGED <<canceled, grace, stored, done, worker, reports>>
LookAtDone ==
    /\ after = "look"
    /\ after' = "ended"
    /\ IF done THEN StopTimer ELSE UNCHANGED grace
    /\ UNCHANGED <<canceled, stored, done, worker, reports>>

\* returned: set done, stop the AfterFunc, or else the timer it stored.
ReturnedSets ==
    /\ worker = "running"
    /\ worker' = "stop" /\ done' = TRUE
    /\ UNCHANGED <<canceled, after, grace, stored, reports>>
ReturnedStops ==
    /\ worker = "stop"
    /\ IF after = "waiting"
       THEN after' = "stopped" /\ worker' = "returned"
       ELSE UNCHANGED after /\ worker' = "load"
    /\ UNCHANGED <<canceled, grace, stored, done, reports>>
ReturnedLoads ==
    /\ worker = "load"
    /\ worker' = "returned"
    /\ IF stored THEN StopTimer ELSE UNCHANGED grace
    /\ UNCHANGED <<canceled, after, stored, done, reports>>

\* StuckGrace has passed: the timer's goroutine starts reportStuck, whose
\* compare-and-swap decides whether it reports.
GraceEnds ==
    /\ grace = "armed"
    /\ grace' = "fired"
    /\ UNCHANGED <<canceled, after, stored, done, worker, reports>>
ReportStuck ==
    /\ grace = "fired"
    /\ grace' = "ended" /\ done' = TRUE
    /\ reports' = IF done THEN reports ELSE reports + 1
    /\ UNCHANGED <<canceled, after, stored, worker>>

StuckNext == \/ CancelContext \/ ArmGrace \/ StoreTimer \/ LookAtDone
             \/ ReturnedSets \/ ReturnedStops \/ ReturnedLoads
             \/ GraceEnds \/ ReportStuck

StuckSpec == StuckInit /\ [][StuckNext]_stuckVars

-----------------------------------------------------------------------------
\* "Either this sees it, or returned sees the timer" (watchStuck): once the
\* worker has returned and the AfterFunc has ended, no timer is left armed.
NoTimerLeft == worker = "returned" /\ after \in {"stopped", "ended"} => grace # "armed"

\* And only a worker that had not returned StuckGrace after its cancellation
\* is reported, once: no step that reports follows its return.
StuckSound == [][NoTimerLeft' /\ (reports' > reports => worker = "running" /\ canceled /\ reports = 0)]_stuckVars
=============================================================================
