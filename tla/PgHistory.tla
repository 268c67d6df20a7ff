----------------------------- MODULE PgHistory -----------------------------
(***************************************************************************)
(* Postgres history's time partitions (pgsql/history.go): one outcome      *)
(* table by the hour and the tags rows of its jobs by the day.             *)
(* HistoryMaintain creates the partitions ahead, drops those past          *)
(* retention and prunes the DEFAULT partitions, each step failing or       *)
(* deferred on its own, while jobs finish, are retried from history in     *)
(* transactions that stay open, and two leaders may overlap.               *)
(*                                                                         *)
(* A row of an hour is in its partition if there is one, and in DEFAULT    *)
(* else: an attach finds no row of its period there, or fails.             *)
(***************************************************************************)
EXTENDS Integers, FiniteSets

CONSTANTS HistoryJobs, HistoryLeaders,
          Day,         \* hours of a tags partition
          Keep,        \* the retention, in hours
          Ahead,       \* historyGroup.ahead of both
          MaxHour, MaxPasses

NotThere == -1

VARIABLES hour,
          history,   \* job -> the hour it was finalized, NotThere outside history
          tagRows,   \* the tags rows: <<job, hour>>
          hourParts, dayParts, \* the partitions, by their hour and day
          heldBy,    \* jobs whose history row an open transaction has deleted
          pass,      \* HistoryMaintain of each leader
          passes
historyVars == <<hour, history, tagRows, hourParts, dayParts, heldBy, pass, passes>>

NoPass == [pc |-> "idle", now |-> 0, expired |-> {}, failed |-> FALSE, mayDrop |-> TRUE, pruneDeferred |-> FALSE]

HistoryInit ==
    /\ hour = 0
    /\ history = [j \in HistoryJobs |-> NotThere]
    /\ tagRows = {} /\ hourParts = {} /\ dayParts = {} /\ heldBy = {}
    /\ pass = [l \in HistoryLeaders |-> NoPass] /\ passes = 0

InHistory == {j \in HistoryJobs : history[j] # NotThere}
DayOf(h) == h \div Day
\* The jobs of an hour's partition, and those of DEFAULT past retention.
JobsIn(h) == {j \in InHistory : history[j] = h}
PastInDefault == {j \in InHistory : history[j] \notin hourParts /\ history[j] < hour - Keep}

Leaves(gone) == history' = [j \in HistoryJobs |-> IF j \in gone THEN NotThere ELSE history[j]]
TagsOf(gone) == {r \in tagRows : r[1] \in gone /\ r[2] = history[r[1]]}

-----------------------------------------------------------------------------
(* Jobs.                                                                   *)

\* A job is finalized into history, and the trigger inserts its tags row.
Finalized(j) ==
    /\ history[j] = NotThere
    /\ history' = [history EXCEPT ![j] = hour]
    /\ tagRows' = tagRows \cup {<<j, hour>>}
    /\ UNCHANGED <<hour, hourParts, dayParts, heldBy, pass, passes>>

\* JobRetryTx or JobDeleteTx: the row, and by the trigger its tags row, is
\* deleted once the caller's transaction commits.
RetryHolds(j) ==
    /\ j \in InHistory \ heldBy
    /\ heldBy' = heldBy \cup {j}
    /\ UNCHANGED <<hour, history, tagRows, hourParts, dayParts, pass, passes>>
RetryEnds(j) ==
    /\ j \in heldBy
    /\ heldBy' = heldBy \ {j}
    /\ \/ Leaves({j}) /\ tagRows' = tagRows \ TagsOf({j})
       \/ UNCHANGED <<history, tagRows>>
    /\ UNCHANGED <<hour, hourParts, dayParts, pass, passes>>

HourPasses ==
    /\ hour < MaxHour
    /\ hour' = hour + 1
    /\ UNCHANGED <<history, tagRows, hourParts, dayParts, heldBy, pass, passes>>

-----------------------------------------------------------------------------
(* HistoryMaintain: the history group, and then the tags group.            *)

DueToGo(l, to) == pass' = [pass EXCEPT ![l].pc = to]

\* maintainGroup lists the partitions; what has expired is known from then on.
\* Without the list it only prunes.
HistoryLists(l) ==
    /\ pass[l].pc = "idle" /\ passes < MaxPasses
    /\ passes' = passes + 1
    /\ \/ pass' = [pass EXCEPT ![l] = [NoPass EXCEPT !.pc = "create", !.now = hour,
                                           !.expired = {h \in hourParts : h + 1 < hour - Keep}]]
       \/ pass' = [pass EXCEPT ![l] = [NoPass EXCEPT !.pc = "drop", !.now = hour, !.failed = TRUE]]
    /\ UNCHANGED <<hour, history, tagRows, hourParts, dayParts, heldBy>>

\* createPartition for the periods ahead: created, or found, or deferred or
\* failed; its attach fails on a row of its period in DEFAULT, and waits for a
\* transaction that wrote there.
CreateAhead(l) ==
    /\ pass[l].pc = "create"
    /\ hourParts' \in {hourParts, hourParts \cup {h \in pass[l].now + 1 .. pass[l].now + Ahead : JobsIn(h) = {}}}
    /\ DueToGo(l, "drop")
    /\ UNCHANGED <<hour, history, tagRows, dayParts, heldBy, passes>>

\* dropPartition, and dropTagsRowsOf unless the day has expired too: its
\* savepoint is rolled back if it takes too long, and the drop goes on. A drop
\* that waits for an open transaction is deferred.
DropHour(l, h) ==
    /\ pass[l].pc = "drop" /\ h \in pass[l].expired
    /\ pass' = [pass EXCEPT ![l].expired = @ \ {h}]
    /\ \/ /\ heldBy = {}
          /\ hourParts' = hourParts \ {h}
          /\ IF h \in hourParts
             THEN /\ Leaves(JobsIn(h))
                  /\ IF (DayOf(h) + 1) * Day < pass[l].now - Keep THEN UNCHANGED tagRows
                     ELSE tagRows' \in {tagRows, tagRows \ TagsOf(JobsIn(h))}
             ELSE UNCHANGED <<history, tagRows>>
       \/ UNCHANGED <<hourParts, history, tagRows>>
    /\ UNCHANGED <<hour, dayParts, heldBy, passes>>
DropsFail(l) ==
    /\ pass[l].pc = "drop" /\ pass[l].expired # {}
    /\ pass' = [pass EXCEPT ![l].expired = {}, ![l].failed = TRUE]
    /\ UNCHANGED <<hour, history, tagRows, hourParts, dayParts, heldBy, passes>>

\* pruneDefault skips the rows another transaction holds; deferred, or failed,
\* it leaves the tags group nothing to drop.
PruneHistory(l) ==
    /\ pass[l].pc = "drop" /\ pass[l].expired = {}
    /\ \/ /\ Leaves(PastInDefault \ heldBy) /\ tagRows' = tagRows \ TagsOf(PastInDefault \ heldBy)
          /\ pass' = [pass EXCEPT ![l].pc = "tags_list", ![l].mayDrop = ~pass[l].failed]
       \/ /\ pass' = [pass EXCEPT ![l].pc = "tags_list", ![l].mayDrop = FALSE, ![l].pruneDeferred = TRUE]
          /\ UNCHANGED <<history, tagRows>>
       \/ /\ pass' = [pass EXCEPT ![l].pc = "tags_list", ![l].mayDrop = FALSE]
          /\ UNCHANGED <<history, tagRows>>
    /\ UNCHANGED <<hour, hourParts, dayParts, heldBy, passes>>

TagsLists(l) ==
    /\ pass[l].pc = "tags_list"
    /\ \/ pass' = [pass EXCEPT ![l].pc = "tags_create",
                       ![l].expired = {d \in dayParts : pass[l].mayDrop /\ (d + 1) * Day < pass[l].now - Keep}]
       \/ DueToGo(l, "tags_drop")
    /\ UNCHANGED <<hour, history, tagRows, hourParts, dayParts, heldBy, passes>>
CreateTagsAhead(l) ==
    /\ pass[l].pc = "tags_create"
    /\ dayParts' \in {dayParts, dayParts \cup {d \in DayOf(pass[l].now) + 1 .. DayOf(pass[l].now) + Ahead :
                                                 \A r \in tagRows : DayOf(r[2]) # d}}
    /\ DueToGo(l, "tags_mirrored")
    /\ UNCHANGED <<hour, history, tagRows, hourParts, heldBy, passes>>

\* Mutant: the tags' drops do not wait for history's.
TagsMirroredNot(l) ==
    /\ pass[l].pc = "tags_mirrored"
    /\ DueToGo(l, "tags_drop")
    /\ UNCHANGED <<hour, history, tagRows, hourParts, dayParts, heldBy, passes>>
\* mirroredPartitions: a day goes only once each of its hours' partitions has.
TagsMirrored(l) ==
    /\ pass[l].pc = "tags_mirrored"
    /\ pass' = [pass EXCEPT ![l].pc = "tags_drop", ![l].expired = {d \in @ : \A h \in hourParts : DayOf(h) # d}]
    /\ UNCHANGED <<hour, history, tagRows, hourParts, dayParts, heldBy, passes>>
DropDay(l, d) ==
    /\ pass[l].pc = "tags_drop" /\ d \in pass[l].expired
    /\ pass' = [pass EXCEPT ![l].expired = @ \ {d}]
    /\ \/ /\ heldBy = {}
          /\ dayParts' = dayParts \ {d}
          /\ tagRows' = IF d \in dayParts THEN {r \in tagRows : DayOf(r[2]) # d} ELSE tagRows
       \/ UNCHANGED <<dayParts, tagRows>>
    /\ UNCHANGED <<hour, history, hourParts, heldBy, passes>>

\* The tags' own prune keeps the rows whose job is still there.
PruneTags(l) ==
    /\ pass[l].pc = "tags_drop" /\ pass[l].expired = {}
    /\ tagRows' \in {tagRows, {r \in tagRows : DayOf(r[2]) \in dayParts \/ r[2] >= hour - Keep \/ history[r[1]] = r[2]}}
    /\ pass[l].pruneDeferred => tagRows' = tagRows
    /\ pass' = [pass EXCEPT ![l] = NoPass]
    /\ UNCHANGED <<hour, history, hourParts, dayParts, heldBy, passes>>

HistoryNext ==
    \/ \E j \in HistoryJobs : Finalized(j) \/ RetryHolds(j) \/ RetryEnds(j)
    \/ HourPasses
    \/ \E l \in HistoryLeaders :
        \/ HistoryLists(l) \/ CreateAhead(l) \/ DropsFail(l) \/ PruneHistory(l)
        \/ TagsLists(l) \/ CreateTagsAhead(l) \/ TagsMirrored(l) \/ PruneTags(l)
        \/ \E h \in 0..MaxHour : DropHour(l, h) \/ DropDay(l, h)

-----------------------------------------------------------------------------
Tagged(j) == <<j, history[j]>> \in tagRows

\* Every job in history has its tags row, so that a listing by tag finds it.
\* The prune skips a row that an open transaction holds: if that rolls back
\* before the tags' drop, the drop takes the tags row and leaves the job.
TaggedInHistory == \A j \in InHistory : Tagged(j)

\* A listing by tag finds every job within retention, and every job of a time
\* partition, whatever was missing, deferred, failed or skipped; a tags row
\* outlives its job only past the retention; and no job leaves history before
\* its retention but by a retry or delete (HistoryMaintain in pgsql/history.go).
HistoryKept ==
    /\ \A j \in InHistory : history[j] \in hourParts \/ history[j] >= hour - Keep => Tagged(j)
    /\ \A r \in tagRows : history[r[1]] = r[2] \/ r[2] < hour - Keep
    /\ \A j \in InHistory \ heldBy : history'[j] = NotThere => history[j] < hour - Keep
=============================================================================
