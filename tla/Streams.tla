------------------------------ MODULE Streams -------------------------------
(***************************************************************************)
(* Stream logs and their consumers, in both engines.                       *)
(***************************************************************************)
EXTENDS Integers, Sequences, FiniteSets, FiniteSetsExt

(***************************************************************************)
(* Postgres's stream log (pgsql/stream.go, stream.go): events identified   *)
(* by (xid, seq), appended in transactions that commit in any order, and a *)
(* consumer that reads them by snapshot deltas. The leader pumps the       *)
(* consumer, in batches; two leaders may overlap; a caller seeks it, and   *)
(* another pages through the log with Streams.Read.                        *)
(***************************************************************************)
CONSTANTS Pumpers,      \* leaders that may be pumping at once
          PumpLimit,    \* StreamPump's limit
          PageLimit,    \* StreamRead's limit
          MaxXid, MaxStreamSeq, MaxSeeks, MaxPumps

NoPump == "no pump"

VARIABLES xacts,     \* transaction -> "none", "open", "committed" or "aborted"
          nextXid, nextSeq,
          log,       \* events written, of any transaction: [xid, seq, matches]
          cons,      \* the consumer's row: [seen, reading, pos]
          rowLock,   \* the pump holding the row FOR UPDATE
          pump,      \* each pump: [pc, reading]
          reads,     \* Streams.Read: its position, and the events it yielded
          delivered, \* the batches delivered since the consumer was created or moved
          base,      \* the snapshot and position it was created or moved to
          before,    \* the transactions that had committed when each began
          seeks, pumps
streamVars == <<xacts, nextXid, nextSeq, log, cons, rowLock, pump, reads, delivered, base, before, seeks, pumps>>

NoSnapshot == [xmin |-> 0, xmax |-> 0, xip |-> {}]
Zero == <<0, 0>>

\* pg_current_snapshot and pg_visible_in_snapshot.
OpenXacts == {x \in 1..MaxXid : xacts[x] = "open"}
CurrentSnapshot == [xmin |-> Min(OpenXacts \cup {nextXid}), xmax |-> nextXid, xip |-> OpenXacts]
VisibleIn(x, s) == x < s.xmin \/ (x < s.xmax /\ x \notin s.xip)
\* "x:x:", which sees every transaction below x; earliestSnapshot sees none.
Below(x) == [xmin |-> x, xmax |-> x, xip |-> {}]
Earliest == Below(1)

Position(e) == <<e.xid, e.seq>>
After(p, q) == p[1] > q[1] \/ (p[1] = q[1] /\ p[2] > q[2])
Committed == {e \in log : xacts[e.xid] = "committed"}
\* A batch or page: the first n events in the order of their positions.
FirstOf(es, n) == {e \in es : Cardinality({d \in es : After(Position(e), Position(d))}) < n}
LastPosition(es) == CHOOSE p \in {Position(e) : e \in es} : \A e \in es : ~After(Position(e), p)

StreamInit ==
    /\ xacts = [x \in 1..MaxXid |-> "none"]
    /\ nextXid = 1 /\ nextSeq = 1 /\ log = {}
    /\ cons = [seen |-> Earliest, reading |-> NoSnapshot, pos |-> Zero]
    /\ rowLock = NoPump
    /\ pump = [l \in Pumpers |-> [pc |-> "idle", reading |-> NoSnapshot]]
    /\ reads = [pos |-> Zero, got |-> {}]
    /\ delivered = <<>>
    /\ base = [snapshot |-> Earliest, pos |-> Zero]
    /\ before = [x \in 1..MaxXid |-> {}]
    /\ seeks = 0 /\ pumps = 0

-----------------------------------------------------------------------------
(* Appends: StreamAppend, on the pool or in the caller's transaction.      *)

\* The first append of a transaction gives it its xid.
StreamTxBegins(matches) ==
    /\ nextXid <= MaxXid /\ nextSeq <= MaxStreamSeq
    /\ xacts' = [xacts EXCEPT ![nextXid] = "open"]
    /\ log' = log \cup {[xid |-> nextXid, seq |-> nextSeq, matches |-> matches]}
    /\ nextXid' = nextXid + 1 /\ nextSeq' = nextSeq + 1
    /\ before' = [before EXCEPT ![nextXid] = {x \in 1..MaxXid : xacts[x] = "committed"}]
    /\ UNCHANGED <<cons, rowLock, pump, reads, delivered, base, seeks, pumps>>
AppendsMore(x) ==
    /\ xacts[x] = "open" /\ nextSeq <= MaxStreamSeq
    /\ log' = log \cup {[xid |-> x, seq |-> nextSeq, matches |-> TRUE]}
    /\ nextSeq' = nextSeq + 1
    /\ UNCHANGED <<xacts, nextXid, cons, rowLock, pump, reads, delivered, base, before, seeks, pumps>>
AppendEnds(x) ==
    /\ xacts[x] = "open"
    /\ \/ xacts' = [xacts EXCEPT ![x] = "committed"] /\ UNCHANGED log
       \/ xacts' = [xacts EXCEPT ![x] = "aborted"] /\ log' = {e \in log : e.xid # x}
    /\ UNCHANGED <<nextXid, nextSeq, cons, rowLock, pump, reads, delivered, base, before, seeks, pumps>>

-----------------------------------------------------------------------------
(* StreamPump.                                                             *)

\* The row is locked first; a delta left part way is continued, and a new one
\* takes a snapshot of its own after the lock.
PumpLocks(l) ==
    /\ pump[l].pc = "idle" /\ rowLock = NoPump /\ pumps < MaxPumps
    /\ pumps' = pumps + 1
    /\ rowLock' = l
    /\ pump' = [pump EXCEPT ![l] = [pc |-> "locked", reading |-> cons.reading]]
    /\ UNCHANGED <<xacts, nextXid, nextSeq, log, cons, reads, delivered, base, before, seeks>>
PumpSnapshots(l) ==
    /\ pump[l].pc = "locked"
    /\ pump' = [pump EXCEPT ![l] = [pc |-> "deliver",
                    reading |-> IF @.reading = NoSnapshot THEN CurrentSnapshot ELSE @.reading]]
    /\ UNCHANGED <<xacts, nextXid, nextSeq, log, cons, rowLock, reads, delivered, base, before, seeks, pumps>>

\* streamPumpSQL: the delta's events past the cursor.
Delta(seen, reading) ==
    {e \in Committed : /\ e.xid >= seen.xmin /\ e.xid < reading.xmax
                       /\ After(Position(e), cons.pos)
                       /\ VisibleIn(e.xid, reading) /\ ~VisibleIn(e.xid, seen)
                       /\ e.matches}
\* Mutant: the cursor is kept for the next delta.
AdvancedOn(reading, batch) ==
    IF Cardinality(batch) < PumpLimit
    THEN [seen |-> reading, reading |-> NoSnapshot, pos |-> IF batch = {} THEN cons.pos ELSE LastPosition(batch)]
    ELSE [seen |-> cons.seen, reading |-> reading, pos |-> LastPosition(batch)]
\* The row after a batch: the snapshot is what has been seen once the delta is
\* exhausted, and the cursor starts again; else both are kept.
Advanced(reading, batch) ==
    IF Cardinality(batch) < PumpLimit
    THEN [seen |-> reading, reading |-> NoSnapshot, pos |-> Zero]
    ELSE [seen |-> cons.seen, reading |-> reading, pos |-> LastPosition(batch)]
PumpDelivers(l) ==
    /\ pump[l].pc = "deliver"
    /\ LET batch == FirstOf(Delta(cons.seen, pump[l].reading), PumpLimit) IN
       \/ /\ delivered' = IF batch = {} THEN delivered ELSE Append(delivered, {Position(e) : e \in batch})
          /\ cons' = Advanced(pump[l].reading, batch)
       \/ UNCHANGED <<delivered, cons>> \* the transaction fails
    /\ rowLock' = NoPump
    /\ pump' = [pump EXCEPT ![l] = [pc |-> "idle", reading |-> NoSnapshot]]
    /\ UNCHANGED <<xacts, nextXid, nextSeq, log, reads, base, before, seeks, pumps>>

-----------------------------------------------------------------------------
(* StreamConsumerSeek, and Streams.Read.                                   *)

MovesTo(snapshot, pos) ==
    /\ rowLock = NoPump /\ seeks < MaxSeeks
    /\ seeks' = seeks + 1
    /\ cons' = [seen |-> snapshot, reading |-> NoSnapshot, pos |-> pos]
    /\ base' = [snapshot |-> snapshot, pos |-> pos]
    /\ delivered' = <<>>
    /\ UNCHANGED <<xacts, nextXid, nextSeq, log, rowLock, pump, reads, before, pumps>>
\* A position the caller knows is one of an event it read.
SeekPosition(e) == e \in Committed /\ MovesTo(Below(e.xid), Position(e))
\* A time is the first event's appended since.
SeekTime(e) == e \in Committed /\ MovesTo(Below(e.xid), <<e.xid, e.seq - 1>>)
SeekEarliest == MovesTo(Earliest, Zero)
SeekLatest == MovesTo(CurrentSnapshot, Zero)

\* StreamRead: a page of the committed events after a position.
ReadsPage ==
    LET page == FirstOf({e \in Committed : After(Position(e), reads.pos)}, PageLimit) IN
    /\ page # {}
    /\ reads' = [pos |-> LastPosition(page), got |-> reads.got \cup page]
    /\ UNCHANGED <<xacts, nextXid, nextSeq, log, cons, rowLock, pump, delivered, base, before, seeks, pumps>>

StreamNext ==
    \/ \E matches \in BOOLEAN : StreamTxBegins(matches)
    \/ \E x \in 1..MaxXid : AppendsMore(x) \/ AppendEnds(x)
    \/ \E l \in Pumpers : PumpLocks(l) \/ PumpSnapshots(l) \/ PumpDelivers(l)
    \/ \E e \in log : SeekPosition(e) \/ SeekTime(e)
    \/ SeekEarliest \/ SeekLatest \/ ReadsPage

-----------------------------------------------------------------------------
\* The events that come before another: those appended earlier by its own
\* transaction, and those of the transactions that had committed when it began.
Precedes(p, q) == (p[1] = q[1] /\ p[2] < q[2]) \/ p[1] \in before[q[1]]

\* Since the consumer was created or moved, no event is delivered twice, or
\* after one it comes before; and every event of a transaction it has seen, and
\* had not been moved past, is delivered, in whatever order the transactions
\* committed (StreamPump in pgsql/stream.go, Append in stream.go).
DeliveredInOrder ==
    /\ \A i, j \in DOMAIN delivered : i < j =>
        \A p \in delivered[i], q \in delivered[j] : p # q /\ ~Precedes(q, p)
    /\ \A e \in Committed :
        (e.matches /\ VisibleIn(e.xid, cons.seen) /\ ~VisibleIn(e.xid, base.snapshot) /\ After(Position(e), base.pos))
            => Position(e) \in UNION Range(delivered)

\* What AppendTx says: an event is delivered after those of every transaction
\* that started before its own, however they commit. A transaction that commits
\* after a pump breaks it.
DeliveredByStart ==
    \A i, j \in DOMAIN delivered : i < j => \A p \in delivered[i], q \in delivered[j] : p[1] <= q[1]

\* Paging by the last position never skips an event: every committed event up
\* to the reader's position has been read.
ReadSkipsNothing == \A e \in Committed : After(Position(e), reads.pos) \/ e \in reads.got

-----------------------------------------------------------------------------
(***************************************************************************)
(* SQLite's stream log (hoppersqlite/messaging.go), where one writer at a  *)
(* time makes an event's seq its position, and the leader's stream loop    *)
(* (stream.go): appends on the pool and in callers' transactions that stay *)
(* open or roll back, retention, seeks, a pattern changed by a client that *)
(* starts, pages read, and pumps in batches by leaders that may overlap.   *)
(***************************************************************************)
CONSTANTS StreamLeaders,
          Topics, Patterns,      \* a pattern is the set of topics it matches
          BatchLimit,            \* tuning.streamBatch
          ReadPage,
          MaxEvents, MaxMoves, MaxRounds

ASSUME SqliteStreamAssumption ==
    BatchLimit \in Nat \ {0} /\ ReadPage \in Nat \ {0} /\ MaxEvents \in Nat

VARIABLES events,    \* the committed log: [seq, topic]
          sequence,  \* sqlite_sequence: the last seq given out
          caller,    \* the events of a caller's open transaction, the writer if any
          consumer,  \* its row: [pattern, seen, position]
          loop,      \* each leader's pumpStreams: "idle", "pump"
          reader,    \* Streams.Read: [pos, got]
          given,     \* the seqs of each batch delivered since the consumer was created or moved
          from,      \* where to
          everPatterns, pruned, moves, rounds
sqliteStreamVars == <<events, sequence, caller, consumer, loop, reader, given, from, everPatterns, pruned, moves, rounds>>

Seqs(es) == {e.seq : e \in es}
Matching(es, pattern) == {e \in es : e.topic \in pattern}
FirstN(es, n) == {e \in es : Cardinality({d \in es : d.seq < e.seq}) < n}

SqliteStreamInit ==
    /\ events = {} /\ sequence = 0 /\ caller = {}
    /\ consumer \in {[pattern |-> p, seen |-> 0, position |-> 0] : p \in Patterns}
    /\ loop = [l \in StreamLeaders |-> "idle"]
    /\ reader = [pos |-> 0, got |-> {}]
    /\ given = <<>> /\ from = 0
    /\ everPatterns = {consumer.pattern}
    /\ pruned = 0 /\ moves = 0 /\ rounds = 0

\* One writer at a time: the others wait for a caller's transaction.
EventWrites == caller = {}

-----------------------------------------------------------------------------
(* Appends.                                                                *)

\* StreamAppend on the pool.
StreamAppend(t) ==
    /\ EventWrites /\ sequence < MaxEvents
    /\ sequence' = sequence + 1
    /\ events' = events \cup {[seq |-> sequence + 1, topic |-> t]}
    /\ UNCHANGED <<caller, consumer, loop, reader, given, from, everPatterns, pruned, moves, rounds>>
\* AppendTx: the events, and the sequence, are the transaction's until it ends.
AppendTx(t) ==
    /\ sequence < MaxEvents
    /\ sequence' = sequence + 1
    /\ caller' = caller \cup {[seq |-> sequence + 1, topic |-> t]}
    /\ UNCHANGED <<events, consumer, loop, reader, given, from, everPatterns, pruned, moves, rounds>>
CallerEnds ==
    /\ caller # {}
    /\ \/ events' = events \cup caller /\ UNCHANGED sequence
       \/ sequence' = Min(Seqs(caller)) - 1 /\ UNCHANGED events
    /\ caller' = {}
    /\ UNCHANGED <<consumer, loop, reader, given, from, everPatterns, pruned, moves, rounds>>

\* HistoryMaintain deletes the events past retention, the oldest.
StreamRetention ==
    /\ EventWrites /\ events # {} /\ pruned < MaxEvents - 1
    /\ events' = {e \in events : e.seq # Min(Seqs(events))}
    /\ pruned' = pruned + 1
    /\ UNCHANGED <<sequence, caller, consumer, loop, reader, given, from, everPatterns, moves, rounds>>

-----------------------------------------------------------------------------
(* The consumer.                                                           *)

LatestSeq == IF events = {} THEN 0 ELSE Max(Seqs(events))

\* StreamConsumerUpsert of one that exists changes its pattern alone.
StreamConsumerUpsert(p) ==
    /\ EventWrites /\ moves < MaxMoves
    /\ moves' = moves + 1
    /\ consumer' = [consumer EXCEPT !.pattern = p]
    /\ everPatterns' = everPatterns \cup {p}
    /\ UNCHANGED <<events, sequence, caller, loop, reader, given, from, pruned, rounds>>

\* StreamConsumerSeek: to a position, before the first event since a time, to
\* the start or past every event there is.
StreamConsumerSeek(seen) ==
    /\ EventWrites /\ moves < MaxMoves
    /\ moves' = moves + 1
    /\ seen \in Seqs(events) \cup {e.seq - 1 : e \in events} \cup {0, LatestSeq}
    /\ consumer' = [consumer EXCEPT !.seen = seen, !.position = seen]
    /\ from' = seen /\ given' = <<>>
    /\ UNCHANGED <<events, sequence, caller, loop, reader, everPatterns, pruned, rounds>>

\* streamLoop: a tick, an append or a seek starts a round.
RoundStarts(l) ==
    /\ loop[l] = "idle" /\ rounds < MaxRounds
    /\ rounds' = rounds + 1
    /\ loop' = [loop EXCEPT ![l] = "pump"]
    /\ UNCHANGED <<events, sequence, caller, consumer, reader, given, from, everPatterns, pruned, moves>>

\* What StreamPump delivers, and the seq the consumer has seen after: past
\* every event there is if fewer than a batch matched.
Batch == FirstN({e \in Matching(events, consumer.pattern) : e.seq > consumer.seen}, BatchLimit)
\* Mutant: a full batch moves the consumer past every event too.
SeenPast(batch) == Max({consumer.seen, LatestSeq} \cup Seqs(batch))
SeenAfter(batch) ==
    Max(Seqs(batch) \cup {consumer.seen} \cup (IF Cardinality(batch) < BatchLimit THEN {LatestSeq} ELSE {}))
StreamPump(l) ==
    /\ loop[l] = "pump" /\ EventWrites
    /\ LET batch == Batch IN
       /\ given' = IF batch = {} THEN given ELSE Append(given, Seqs(batch))
       /\ consumer' = [consumer EXCEPT !.seen = SeenAfter(batch),
                                       !.position = IF batch = {} THEN @ ELSE Max(Seqs(batch))]
       /\ loop' = [loop EXCEPT ![l] = IF Cardinality(batch) < BatchLimit THEN "idle" ELSE "pump"]
    /\ UNCHANGED <<events, sequence, caller, reader, from, everPatterns, pruned, moves, rounds>>
PumpFails(l) ==
    /\ loop[l] = "pump"
    /\ loop' = [loop EXCEPT ![l] = "idle"]
    /\ UNCHANGED <<events, sequence, caller, consumer, reader, given, from, everPatterns, pruned, moves, rounds>>

\* StreamRead: a page of the committed events after a position.
StreamRead ==
    LET page == FirstN({e \in events : e.seq > reader.pos}, ReadPage) IN
    /\ page # {}
    /\ reader' = [pos |-> Max(Seqs(page)), got |-> reader.got \cup Seqs(page)]
    /\ UNCHANGED <<events, sequence, caller, consumer, loop, given, from, everPatterns, pruned, moves, rounds>>

SqliteStreamNext ==
    \/ \E t \in Topics : StreamAppend(t) \/ AppendTx(t)
    \/ CallerEnds \/ StreamRetention \/ StreamRead
    \/ \E p \in Patterns : StreamConsumerUpsert(p)
    \/ \E seen \in 0..MaxEvents : StreamConsumerSeek(seen)
    \/ \E l \in StreamLeaders : RoundStarts(l) \/ StreamPump(l) \/ PumpFails(l)
SqliteStreamSpec == SqliteStreamInit /\ [][SqliteStreamNext]_sqliteStreamVars

-----------------------------------------------------------------------------
\* Since the consumer was created or moved, what a batch of it delivers comes
\* after all earlier batches, so no event is delivered twice; it leaves out
\* none that it has seen and that its pattern always matched; and pages read by position skip no event. Seqs given out again
\* after a rollback, retention and batches do not disturb this.
SqliteStreamInOrder ==
    /\ \A i, j \in DOMAIN given : i < j => \A s \in given[i], u \in given[j] : s < u
    /\ \A e \in events :
        /\ (from < e.seq /\ e.seq <= consumer.seen /\ \A p \in everPatterns : e.topic \in p) => e.seq \in UNION Range(given)
        /\ e.seq <= reader.pos => e.seq \in reader.got
=============================================================================
