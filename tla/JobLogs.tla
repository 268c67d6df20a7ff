------------------------------ MODULE JobLogs -------------------------------
(***************************************************************************)
(* What attempts log: the writing of the lines, and managed retention of   *)
(* the logs in a LogStore.                                                 *)
(***************************************************************************)
EXTENDS Integers, Sequences, SequencesExt, FiniteSets, FiniteSetsExt

(***************************************************************************)
(* The log of one attempt (logs.go): its lines go to the attempt's buffer, *)
(* kept with its result, or through a queue and a goroutine to a LogStore, *)
(* which may be slow, fail or never return, and for which closeLog waits   *)
(* only so long.                                                           *)
(*                                                                         *)
(* Lines are numbered in the order they are logged; each but the kept ones *)
(* weighs one.                                                             *)
(***************************************************************************)
CONSTANTS LogModes,      \* "store", "kept": with a LogStore or without
          LogLimits,     \* JobLogsConfig: MaxRunBytes of a store, 0 for none; MaxBytes else
          Loggers,       \* goroutines of the attempt that log
          StorePending,  \* storePending: what may wait for the store
          MaxLines

VARIABLES logMode, logLimit,
          logged,   \* lines logged so far
          sw,       \* the attempt's storeWriter, and its run goroutine
          closer,   \* closeLog: "open", "waits", "returned", "gave_up"
          sent,     \* ghost: what the store was handed, a line or a count of dropped ones
          accepted, \* ghost: lines logged before the log ended
          kept,     \* the logBuffer
          midline   \* kept lines past dropIfFull and before Write, per goroutine

logVars == <<logMode, logLimit, logged, sw, closer, sent, accepted, kept, midline>>

\* batch, sawEnded, writer and failed are locals of run.
NoWriter == [pc |-> "none", queue |-> <<>>, dropped |-> 0, ended |-> FALSE, wake |-> FALSE, canceled |-> FALSE,
             full |-> FALSE, batch |-> <<>>, sawEnded |-> FALSE, writer |-> "none", written |-> 0, failed |-> FALSE]

LogInit ==
    /\ logMode \in LogModes /\ logLimit \in LogLimits
    /\ logMode = "kept" => logLimit > 0
    /\ logged = 0 /\ accepted = 0 /\ sent = <<>>
    /\ sw = NoWriter /\ closer = "open"
    /\ kept = [lines |-> <<>>, size |-> 0, dropped |-> 0]
    /\ midline = [g \in Loggers |-> <<>>]

Line(k) == [line |-> k, count |-> 1]
Counted(n) == [line |-> 0, count |-> n]

-----------------------------------------------------------------------------
(* With a store.                                                           *)

\* storeWriter.Write, and the goroutine started with the first line.
QueuesLine(s, k) ==
    LET t == IF s.ended THEN s
             ELSE IF Len(s.queue) + 1 > StorePending THEN [s EXCEPT !.dropped = @ + 1]
             ELSE [s EXCEPT !.queue = Append(@, Line(k))]
    IN  [t EXCEPT !.wake = TRUE, !.pc = IF ~s.ended /\ s.pc = "none" THEN "take" ELSE @]
LogsToStore ==
    /\ logMode = "store" /\ logged < MaxLines
    /\ logged' = logged + 1
    /\ sw' = IF sw.full THEN sw ELSE QueuesLine(sw, logged + 1)
    /\ accepted' = IF sw.full \/ sw.ended THEN accepted ELSE accepted + 1
    /\ UNCHANGED <<logMode, logLimit, closer, sent, kept, midline>>

\* run takes what is queued, with a line that counts the dropped ones.
Take ==
    /\ sw.pc = "take"
    /\ sw' = [sw EXCEPT !.pc = "hand", !.batch = sw.queue \o IF sw.dropped > 0 THEN <<Counted(sw.dropped)>> ELSE <<>>,
                        !.sawEnded = sw.ended, !.queue = <<>>, !.dropped = 0]
    /\ UNCHANGED <<logMode, logLimit, logged, closer, sent, accepted, kept, midline>>

\* The store's Writer, a Write or a Close fails or panics.
Open ==
    /\ sw.pc = "hand" /\ sw.batch # <<>> /\ ~sw.failed /\ ~sw.full /\ sw.writer = "none"
    /\ sw' \in {[sw EXCEPT !.writer = "open"], [sw EXCEPT !.failed = TRUE]}
    /\ UNCHANGED <<logMode, logLimit, logged, closer, sent, accepted, kept, midline>>

\* limitedLogWriter.Write: the line that passes the limit gives way to a
\* message, and the log is full.
Hand ==
    /\ sw.pc = "hand" /\ sw.batch # <<>> /\ ~sw.failed /\ ~sw.full /\ sw.writer = "open"
    /\ LET over == logLimit > 0 /\ sw.written + 1 > logLimit
           next == [sw EXCEPT !.batch = Tail(@), !.full = over, !.written = @ + 1]
       IN  \/ sw' = next /\ sent' = IF over THEN sent ELSE Append(sent, Head(sw.batch))
           \/ sw' = [next EXCEPT !.failed = TRUE, !.writer = "closed"] /\ UNCHANGED sent
    /\ UNCHANGED <<logMode, logLimit, logged, closer, accepted, kept, midline>>

\* The batch is done, or dropped after a failure or past the limit.
Handed == sw.pc = "hand" /\ (sw.batch = <<>> \/ sw.failed \/ sw.full)
RunEndsLate ==
    /\ Handed /\ sw.ended
    /\ sw' = [sw EXCEPT !.pc = "done", !.canceled = TRUE, !.batch = <<>>,
                        !.writer = IF @ = "open" THEN "closed" ELSE @]
    /\ UNCHANGED <<logMode, logLimit, logged, closer, sent, accepted, kept, midline>>
RunEnds ==
    /\ Handed /\ sw.sawEnded
    /\ sw' = [sw EXCEPT !.pc = "done", !.canceled = TRUE, !.batch = <<>>,
                        !.writer = IF @ = "open" THEN "closed" ELSE @]
    /\ UNCHANGED <<logMode, logLimit, logged, closer, sent, accepted, kept, midline>>
RunWaits ==
    /\ Handed /\ ~sw.sawEnded
    /\ sw' = [sw EXCEPT !.pc = "wait", !.batch = <<>>]
    /\ UNCHANGED <<logMode, logLimit, logged, closer, sent, accepted, kept, midline>>
RunWakes ==
    /\ sw.pc = "wait"
    /\ \/ sw.wake /\ sw' = [sw EXCEPT !.pc = "take", !.wake = FALSE]
       \/ sw.canceled /\ sw' = [sw EXCEPT !.pc = "done"]
    /\ UNCHANGED <<logMode, logLimit, logged, closer, sent, accepted, kept, midline>>

\* closeLog and storeWriter.close: without a goroutine there is nothing to
\* wait for.
CloseLog ==
    /\ logMode = "store" /\ closer = "open"
    /\ IF sw.pc = "none"
       THEN closer' = "returned" /\ sw' = [sw EXCEPT !.ended = TRUE, !.canceled = TRUE]
       ELSE closer' = "waits" /\ sw' = [sw EXCEPT !.ended = TRUE, !.wake = TRUE]
    /\ UNCHANGED <<logMode, logLimit, logged, sent, accepted, kept, midline>>
CloseReturns ==
    /\ closer = "waits" /\ sw.pc = "done"
    /\ closer' = "returned"
    /\ UNCHANGED <<logMode, logLimit, logged, sw, sent, accepted, kept, midline>>
CloseGivesUp ==
    /\ closer = "waits" /\ sw.pc # "done"
    /\ closer' = "gave_up" /\ sw' = [sw EXCEPT !.canceled = TRUE]
    /\ UNCHANGED <<logMode, logLimit, logged, sent, accepted, kept, midline>>

-----------------------------------------------------------------------------
(* Without one: attemptHandler.Handle looks whether the buffer is full     *)
(* before it formats a line.                                               *)

LogsKept(g, size) ==
    /\ logMode = "kept" /\ closer = "open" /\ logged < MaxLines /\ midline[g] = <<>>
    /\ logged' = logged + 1
    /\ IF kept.dropped > 0
       THEN kept' = [kept EXCEPT !.dropped = @ + 1] /\ UNCHANGED midline
       ELSE midline' = [midline EXCEPT ![g] = <<logged + 1, size>>] /\ UNCHANGED kept
    /\ UNCHANGED <<logMode, logLimit, sw, closer, sent, accepted>>
\* logBuffer.Write: a line that does not fit drops every later one.
Keeps(g) ==
    /\ midline[g] # <<>>
    /\ kept' = IF kept.dropped > 0 \/ kept.size + midline[g][2] > logLimit
               THEN [kept EXCEPT !.dropped = @ + 1]
               ELSE [kept EXCEPT !.lines = Append(@, midline[g][1]), !.size = @ + midline[g][2]]
    /\ midline' = [midline EXCEPT ![g] = <<>>]
    /\ UNCHANGED <<logMode, logLimit, logged, sw, closer, sent, accepted>>
\* keptLog, with the worker's goroutines done.
KeptLog ==
    /\ logMode = "kept" /\ closer = "open" /\ \A g \in Loggers : midline[g] = <<>>
    /\ closer' = "returned"
    /\ UNCHANGED <<logMode, logLimit, logged, sw, sent, accepted, kept, midline>>

LogNext ==
    \/ LogsToStore \/ Take \/ Open \/ Hand \/ RunEnds \/ RunWaits \/ RunWakes
    \/ CloseLog \/ CloseReturns \/ CloseGivesUp
    \/ \E g \in Loggers : Keeps(g) \/ \E size \in {1, 2} : LogsKept(g, size)
    \/ KeptLog

-----------------------------------------------------------------------------
SumCounts(s) == FoldLeft(LAMBDA n, x : n + x.count, 0, s)

\* The store has every line logged before the log ended, in the order they were
\* logged, or a count of those it was too slow for, once closeLog returns: but
\* for what a failure or the limit cut off.  The writer is closed by then.  The
\* lines a buffer does not keep are counted.
LogsAccounted ==
    /\ LET lines == SelectSeq(sent, LAMBDA x : x.line > 0)
       IN  \A i \in 1..(Len(lines) - 1) : lines[i].line < lines[i + 1].line
    /\ (closer = "returned" /\ logMode = "store") =>
        /\ sw.writer # "open"
        /\ sw.failed \/ sw.full \/ SumCounts(sent) = accepted
    /\ (closer = "returned" /\ logMode = "kept") =>
        /\ kept.size <= logLimit
        /\ Len(kept.lines) + kept.dropped = logged
        /\ kept.dropped = 0 => ToSet(kept.lines) = 1..logged

\* Nothing reaches the store once closeLog has returned without giving up, so
\* the log is complete when the attempt's result is handed in; and nothing is
\* kept past a dropped line.
LogStep ==
    /\ LogsAccounted'
    /\ closer = "returned" => sent' = sent
    /\ kept.dropped > 0 => kept'.lines = kept.lines
LogComplete == [][LogStep]_logVars

-----------------------------------------------------------------------------
(***************************************************************************)
(* Managed retention of the logs in a LogStore (logs_retention.go): a      *)
(* client scans the store's inventory page by page, reads the jobs of a    *)
(* page, and deletes the executions' logs that have expired, while jobs    *)
(* are claimed, log, finish, are retried and disappear, and another client *)
(* may be scanning too.                                                    *)
(*                                                                         *)
(* The store is external: List seeks, Delete compares versions.            *)
(***************************************************************************)
CONSTANTS LogJobs,      \* job IDs, integers
          Maintainers,  \* clients that call MaintainJobLogs, each one call at a time
          MaxRuns,      \* LogRetentionConfig: MaxRuns, GracePeriod, the retention, BatchSize
          GracePeriod, Retention, BatchSize,
          MaxFences, MaxNow  \* bounds: claims of each job, the clock

VARIABLES ownerRows, \* [state, fence, finalized]; "gone" once removed
          runs,      \* the inventory: [job, fence, updated], updated being the version too
          maint,     \* logRetentionState of each client, and its call under way
          now,
          ever       \* ghost: the executions that ever logged
retentionVars == <<ownerRows, runs, maint, now, ever>>

NoRun == [job |-> 0, fence |-> 0, updated |-> 0]
NoJobRow == [state |-> "live", fence |-> 0, finalized |-> 0]
\* The client keeps after and rank between calls: the run scanned last, and its
\* rank among those of its job.  The others are of the call under way; alone is
\* a ghost: nothing else has happened since the scan began.
NewScan == [pc |-> "idle", after |-> NoRun, rank |-> 0, alone |-> FALSE, more |-> FALSE,
            page |-> <<>>, next |-> NoRun, last |-> NoRun, nth |-> 0, seen |-> [j \in LogJobs |-> NoJobRow], at |-> 0]
Between(s) == [NewScan EXCEPT !.after = s.after, !.rank = s.rank, !.alone = s.alone]

RetentionInit ==
    /\ ownerRows = [j \in LogJobs |-> NoJobRow]
    /\ runs = {} /\ ever = {} /\ now = 0
    /\ maint = [m \in Maintainers |-> NewScan]

\* Whatever else changes the store or the jobs, a scan was not alone.
Disturbed == [m \in Maintainers |-> [maint[m] EXCEPT !.alone = FALSE]]

-----------------------------------------------------------------------------
(* Jobs and their logs.                                                    *)

JobChanges(j) ==
    /\ \/ /\ ownerRows[j].state = "live" /\ ownerRows[j].fence < MaxFences[j]
          /\ ownerRows' = [ownerRows EXCEPT ![j].state = "running", ![j].fence = @ + 1]
       \/ /\ ownerRows[j].state = "running"
          /\ \/ ownerRows' = [ownerRows EXCEPT ![j].state = "live"]
             \/ ownerRows' = [ownerRows EXCEPT ![j].state = "completed", ![j].finalized = now]
       \/ /\ ownerRows[j].state = "completed"
          /\ \/ ownerRows' = [ownerRows EXCEPT ![j].state = "live", ![j].finalized = 0]
             \/ ownerRows' = [ownerRows EXCEPT ![j].state = "gone"]
    /\ maint' = Disturbed
    /\ UNCHANGED <<runs, now, ever>>

\* The running execution logs, or an earlier one does, late.
Logs(j, f) ==
    /\ f \in 1..ownerRows[j].fence
    /\ f = ownerRows[j].fence => ownerRows[j].state = "running"
    /\ f # ownerRows[j].fence => <<j, f>> \in ever
    /\ LET old == {r \in runs : r.job = j /\ r.fence = f}
           new == [job |-> j, fence |-> f, updated |-> now]
       IN  /\ \A r \in old : r.updated < now
           /\ runs' = (runs \ old) \cup {new}
    /\ ever' = ever \cup {<<j, f>>}
    /\ maint' = Disturbed
    /\ UNCHANGED <<ownerRows, now>>

Passes ==
    /\ now < MaxNow /\ now' = now + 1
    /\ maint' = Disturbed
    /\ UNCHANGED <<ownerRows, runs, ever>>

-----------------------------------------------------------------------------
(* MaintainJobLogs.                                                        *)

\* compareLogRuns: by job, the latest execution first.
Before(a, b) == a.job < b.job \/ (a.job = b.job /\ a.fence > b.fence)

\* listLogRuns: the page after the cursor.
ListLogRuns(m) ==
    LET rest == SetToSortSeq({r \in runs : maint[m].after = NoRun \/ Before(maint[m].after, r)}, Before)
        page == SubSeq(rest, 1, Min({Len(rest), BatchSize}))
    IN  /\ maint[m].pc = "idle"
        /\ maint' = [maint EXCEPT ![m] = [@ EXCEPT !.pc = "listed", !.page = page, !.more = Len(rest) > BatchSize,
                                              !.next = IF page = <<>> THEN NoRun ELSE Last(page),
                                              !.last = maint[m].after, !.nth = maint[m].rank,
                                              !.alone = @ \/ maint[m].after = NoRun]]
        /\ UNCHANGED <<ownerRows, runs, now, ever>>

\* The clock and the jobs of the page are read, the jobs in one statement.
ReadJobs(m) ==
    /\ maint[m].pc = "listed"
    /\ maint' = [maint EXCEPT ![m].pc = "prunes", ![m].at = now,
                     ![m].seen = [j \in LogJobs |-> IF \E r \in ToSet(maint[m].page) : r.job = j THEN ownerRows[j] ELSE NoJobRow]]
    /\ UNCHANGED <<ownerRows, runs, now, ever>>

Finished(job, at) == job.state = "completed" /\ job.finalized + Retention <= at

\* expiredLogRun.
ExpiredLogRun(at, job, run, rank) ==
    /\ run.updated <= at - GracePeriod
    /\ \/ job.state = "gone"
       \/ /\ run.fence <= job.fence
          /\ ~(job.state = "running" /\ run.fence = job.fence)
          /\ rank > MaxRuns \/ Finished(job, at)

PruneUnversioned(m) ==
    LET run  == Head(maint[m].page)
        nth  == IF run.job = maint[m].last.job THEN maint[m].nth + 1 ELSE 1
        next == [maint[m] EXCEPT !.page = Tail(@), !.last = run, !.nth = nth]
    IN  /\ maint[m].pc = "prunes" /\ maint[m].page # <<>>
        /\ IF ExpiredLogRun(maint[m].at, maint[m].seen[run.job], run, nth)
           THEN runs' = {r \in runs : r.job # run.job \/ r.fence # run.fence} /\ maint' = [Disturbed EXCEPT ![m] = next]
           ELSE maint' = [maint EXCEPT ![m] = next] /\ UNCHANGED runs
        /\ UNCHANGED <<ownerRows, now, ever>>
\* One run of the page: Delete deletes the version listed, or nothing.
Prune(m) ==
    LET run  == Head(maint[m].page)
        nth  == IF run.job = maint[m].last.job THEN maint[m].nth + 1 ELSE 1
        next == [maint[m] EXCEPT !.page = Tail(@), !.last = run, !.nth = nth]
    IN  /\ maint[m].pc = "prunes" /\ maint[m].page # <<>>
        /\ IF ExpiredLogRun(maint[m].at, maint[m].seen[run.job], run, nth)
           THEN runs' = runs \ {run} /\ maint' = [Disturbed EXCEPT ![m] = next]
           ELSE maint' = [maint EXCEPT ![m] = next] /\ UNCHANGED runs
        /\ UNCHANGED <<ownerRows, now, ever>>

\* A page done moves the cursor past it; after the last one a scan begins anew.
PageDone(m) ==
    /\ maint[m].pc = "prunes" /\ maint[m].page = <<>>
    /\ maint' = [maint EXCEPT ![m] =
           IF @.more THEN [Between(@) EXCEPT !.after = maint[m].next, !.rank = maint[m].nth] ELSE NewScan]
    /\ UNCHANGED <<ownerRows, runs, now, ever>>

\* The store or the database fails, or the pass times out: the page is to be
\* scanned again.
PassFails(m) ==
    /\ maint[m].pc # "idle"
    /\ maint' = [maint EXCEPT ![m] = Between(@)]
    /\ UNCHANGED <<ownerRows, runs, now, ever>>

RetentionNext ==
    \/ \E j \in LogJobs : JobChanges(j) \/ \E f \in 1..MaxFences[j] : Logs(j, f)
    \/ Passes
    \/ \E m \in Maintainers : ListLogRuns(m) \/ ReadJobs(m) \/ Prune(m) \/ PageDone(m) \/ PassFails(m)

-----------------------------------------------------------------------------
\* How many executions of the run's job logged after it.
Newer(run) == Cardinality({f \in (run.fence + 1)..MaxFences[run.job] : <<run.job, f>> \in ever})

\* Should no longer be there, of what the store and the database hold now.
Overdue(run) ==
    ExpiredLogRun(now, ownerRows[run.job], run,
                  1 + Cardinality({r \in runs : r.job = run.job /\ r.fence > run.fence}))

PruneStep ==
    /\ \A r \in runs : (\A q \in runs' : q.job # r.job \/ q.fence # r.fence) =>
         /\ ~(ownerRows[r.job].state = "running" /\ ownerRows[r.job].fence = r.fence)
         /\ r.updated <= now - GracePeriod
         /\ Newer(r) < MaxRuns => \E m \in Maintainers :
              LET job == maint[m].seen[r.job] IN job.state = "gone" \/ Finished(job, maint[m].at)
    /\ \A m \in Maintainers :
         (PageDone(m) /\ maint[m].alone /\ ~maint[m].more) => \A r \in runs : ~Overdue(r)

\* Retention deletes no log of an execution under way, nor one written within
\* the grace period, even since the page was listed; one of a job's MaxRuns
\* latest only once the job was gone or finished for the retention; and a scan
\* with nothing else going on leaves none that has expired, in however many
\* pages and with whatever failures (logs_retention.go, MaintainJobLogs).
PrunesOnlyExpired == [][PruneStep]_retentionVars
=============================================================================
