----------------------------- MODULE LogFollow -----------------------------
(***************************************************************************)
(* Following a job's log in a LogStore (logs_follow.go, logs_read.go): the *)
(* reader lists the latest execution and reads a chunk of it from its      *)
(* cursor, while executions append, new ones begin, and retention deletes  *)
(* them.  Hints from LogNotifications are coalesced and may be missing;    *)
(* the poll remains.                                                       *)
(*                                                                         *)
(* A log is its length, and the consumer's view the bytes of one           *)
(* execution's log it holds.  An execution whose log was deleted logs no   *)
(* more.                                                                   *)
(***************************************************************************)
EXTENDS Integers, FiniteSets, FiniteSetsExt

CONSTANTS ReadLimit,     \* LogReadOpts.Limit
          MaxRun, MaxLength

VARIABLES logs,     \* fence -> length of its log, Absent before it and Gone after
          follow,   \* the iterator of JobLogFollow
          watch,    \* its subscription: "none", "on" or "closed", and a hint in its channel
          view,     \* what the consumer holds: bytes of an execution's log
          expired   \* the job is gone or long finished: retention deletes its logs
followVars == <<logs, follow, watch, view, expired>>

Absent == -1
Gone == -2
FromTail == -1
NoView == [fence |-> 0, held |-> {}]
Present == {f \in 1..MaxRun : logs[f] >= 0}

FollowInit ==
    /\ logs = [f \in 1..MaxRun |-> Absent]
    /\ follow = [pc |-> "read", fence |-> 0, offset |-> FromTail, run |-> 0, seen |-> FALSE, missing |-> FALSE]
    /\ watch \in [state : {"none", "on"}, hint : {FALSE}]
    /\ view = NoView /\ expired = FALSE

\* LogNotifications.Notify: the subscriber's channel holds one hint.
Notify == watch' = [watch EXCEPT !.hint = @ \/ watch.state = "on"]

-----------------------------------------------------------------------------
(* The store.                                                              *)

Appends(f) ==
    /\ ~expired /\ logs[f] # Gone /\ logs[f] < MaxLength
    /\ logs[f] = Absent => \A g \in f..MaxRun : logs[g] = Absent
    /\ logs' = [logs EXCEPT ![f] = IF @ = Absent THEN 1 ELSE @ + 1]
    /\ Notify
    /\ UNCHANGED <<follow, view, expired>>
\* Retention's Delete: of an execution with newer ones, or of all, the latest
\* first.
Deleted(f) ==
    /\ f \in Present /\ (expired <=> f = Max(Present))
    /\ logs' = [logs EXCEPT ![f] = Gone]
    /\ Notify
    /\ UNCHANGED <<follow, view, expired>>
Expires ==
    /\ ~expired /\ expired' = TRUE
    /\ UNCHANGED <<logs, follow, watch, view>>

-----------------------------------------------------------------------------
(* JobLogFollow.                                                           *)

\* ErrNotFound clears the view, once.
Missing ==
    /\ follow' = [follow EXCEPT !.pc = "wait", !.seen = TRUE, !.missing = TRUE]
    /\ view' = IF ~follow.seen \/ ~follow.missing THEN NoView ELSE view

\* readJobLog lists the latest execution, or finds none.
FollowLists ==
    /\ follow.pc = "read"
    /\ IF Present = {}
       THEN Missing
       ELSE follow' = [follow EXCEPT !.pc = "chunk", !.run = Max(Present)] /\ UNCHANGED view
    /\ UNCHANGED <<logs, watch, expired>>

\* The store's Read from an offset, or of the tail; a shortened log is read
\* from its start.
Chunk(f, offset) ==
    LET size == logs[f]
        from == IF offset = FromTail THEN Max({0, size - ReadLimit}) ELSE IF offset > size THEN 0 ELSE offset
    IN  [from |-> from, to |-> Min({size, from + ReadLimit}), size |-> size]

FollowReadsOn ==
    /\ follow.pc = "chunk"
    /\ IF follow.run \notin Present
       THEN Missing
       ELSE LET c     == Chunk(follow.run, follow.offset)
                reset == follow.missing \/ c.from # follow.offset
            IN  /\ follow' = [follow EXCEPT !.pc = IF c.to > c.from /\ c.to < c.size THEN "read" ELSE "wait",
                                            !.fence = follow.run, !.offset = c.to, !.seen = TRUE, !.missing = FALSE]
                /\ view' = [fence |-> follow.run,
                             held  |-> (IF reset THEN {} ELSE view.held) \cup ({follow.run} \X ((c.from + 1)..c.to))]
    /\ UNCHANGED <<logs, watch, expired>>
\* The chunk resets the view or extends it; the next one is read at once while
\* there is more.  A log deleted since it was listed is missing.
FollowReads ==
    /\ follow.pc = "chunk"
    /\ IF follow.run \notin Present
       THEN Missing
       ELSE LET offset == IF follow.fence # 0 /\ follow.fence # follow.run THEN FromTail ELSE follow.offset
                c      == Chunk(follow.run, offset)
                reset  == follow.missing \/ follow.run # follow.fence \/ c.from # follow.offset
            IN  /\ follow' = [follow EXCEPT !.pc = IF c.to > c.from /\ c.to < c.size THEN "read" ELSE "wait",
                                            !.fence = follow.run, !.offset = c.to, !.seen = TRUE, !.missing = FALSE]
                /\ view' = [fence |-> follow.run,
                             held  |-> (IF reset THEN {} ELSE view.held) \cup ({follow.run} \X ((c.from + 1)..c.to))]
    /\ UNCHANGED <<logs, watch, expired>>

PollsWithout ==
    /\ follow.pc = "wait" /\ watch.state = "none"
    /\ follow' = [follow EXCEPT !.pc = "read"]
    /\ UNCHANGED <<logs, watch, view, expired>>
\* The ticker, a hint, or the subscription's end.
Polls ==
    /\ follow.pc = "wait"
    /\ follow' = [follow EXCEPT !.pc = "read"]
    /\ UNCHANGED <<logs, watch, view, expired>>
HintArrives ==
    /\ follow.pc = "wait" /\ watch.state # "none" /\ (watch.hint \/ watch.state = "closed")
    /\ follow' = [follow EXCEPT !.pc = "read"]
    /\ watch' = [state |-> IF watch.hint THEN watch.state ELSE "none", hint |-> FALSE]
    /\ UNCHANGED <<logs, view, expired>>
WatchEnds ==
    /\ watch.state = "on"
    /\ watch' = [watch EXCEPT !.state = "closed"]
    /\ UNCHANGED <<logs, follow, view, expired>>

FollowNext ==
    \/ \E f \in 1..MaxRun : Appends(f) \/ Deleted(f)
    \/ Expires \/ FollowLists \/ FollowReads \/ Polls \/ HintArrives \/ WatchEnds
FollowFair ==
    /\ WF_followVars(expired /\ \E f \in 1..MaxRun : Deleted(f))
    /\ WF_followVars(FollowLists) /\ WF_followVars(FollowReads) /\ WF_followVars(Polls)

-----------------------------------------------------------------------------
\* The view is always one unbroken piece of one execution's log, up to the
\* cursor, however the reads interleave with appends, new executions and
\* deletions: an update that extends it starts where it ends.
ViewUnbroken ==
    view.held # {} =>
        /\ view.held = {view.fence} \X (Min({b[2] : b \in view.held})..follow.offset)
        /\ view.fence \in Present => follow.offset <= logs[view.fence]

\* Once nothing changes, the consumer holds the end of the latest execution's
\* log, or nothing if none is left, even when no hint arrives.
CaughtUp == IF Present = {} THEN view.fence = 0
            ELSE view.fence = Max(Present) /\ <<view.fence, logs[view.fence]>> \in view.held
FollowCatchesUp == <>[]CaughtUp
=============================================================================
