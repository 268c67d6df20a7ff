----------------------------- MODULE SqliteConn -----------------------------
(***************************************************************************)
(* The connections of the SQLite driver (hoppersqlite/conn.go,             *)
(* executor.go): transactions that take the write lock on their first      *)
(* statement, in turn within a process and by polling across processes;    *)
(* statements run on their own; SQLite ending a transaction itself after   *)
(* an error, or at the caller's COMMIT or ROLLBACK statement; contexts     *)
(* that end while a statement waits; processes that die.  Every write adds *)
(* one to a value its transaction read when it began.                      *)
(***************************************************************************)
EXTENDS Integers, Sequences, SequencesExt, FiniteSets

CONSTANTS Writers,   \* goroutines that write
          Procs,
          ProcOf,    \* Writers -> Procs
          KindOf,    \* "caller": a transaction on DB; "driver": writeLocking's
                     \* own; "statement": one run on its own
          Within,    \* the caller whose code makes the write, or NoWriter
          NoWriter,
          MaxWrites, MaxTries

VARIABLES tx,        \* each writer's transaction
          lock,      \* database.lock: the writer whose token it holds
          queue,     \* the goroutines that wait to send to it
          holder,    \* database.holder
          writer,    \* who has SQLite's write lock, on the file
          value,     \* what is committed
          counted,   \* the writes of the transactions that committed
          alive
connVars == <<tx, lock, queue, holder, writer, value, counted, alive>>

Fresh == [phase |-> "idle", aborted |-> FALSE, endedBy |-> "none", pending |-> 0, writes |-> 0, tries |-> 0]
ConnInit ==
    /\ tx = [t \in Writers |-> Fresh]
    /\ lock = [p \in Procs |-> NoWriter]
    /\ queue = [p \in Procs |-> <<>>]
    /\ holder = [p \in Procs |-> NoWriter]
    /\ writer = NoWriter
    /\ value = 0 /\ counted = 0
    /\ alive = Procs

\* A goroutine blocked in a write of its own code makes no other step.
Busy(t) == \E n \in Writers : Within[n] = t /\ tx[n].phase \notin {"idle", "done"}
ConnRuns(t, phase) == ProcOf[t] \in alive /\ tx[t].phase = phase /\ ~Busy(t)
ConnGoes(t, phase) == tx' = [tx EXCEPT ![t].phase = phase]

\* database.release: the goroutine that has waited longest gets the token.
Release(t) ==
    LET p == ProcOf[t] IN
    /\ holder' = [holder EXCEPT ![p] = NoWriter]
    /\ lock' = [lock EXCEPT ![p] = IF queue[p] = <<>> THEN NoWriter ELSE Head(queue[p])]
    /\ queue' = [queue EXCEPT ![p] = IF @ = <<>> THEN @ ELSE Tail(@)]

-----------------------------------------------------------------------------
(* Taking the lock.                                                        *)

\* BeginTx sends nothing; a write on its own starts with its statement. One
\* made by a caller's code starts while the caller's transaction is open.
Begins(t) ==
    /\ ConnRuns(t, "idle") /\ tx[t].tries < MaxTries
    /\ Within[t] # NoWriter => tx[Within[t]].phase = "open"
    /\ tx' = [tx EXCEPT ![t] = [Fresh EXCEPT !.phase = "begun", !.tries = tx[t].tries + 1]]
    /\ UNCHANGED <<lock, queue, holder, writer, value, counted, alive>>

\* acquire: at once, or after a look at who holds the lock, in turn.
TakesFree(t) ==
    /\ ConnRuns(t, "begun") /\ lock[ProcOf[t]] = NoWriter
    /\ lock' = [lock EXCEPT ![ProcOf[t]] = t]
    /\ ConnGoes(t, "taken")
    /\ UNCHANGED <<queue, holder, writer, value, counted, alive>>
FindsHeld(t) ==
    /\ ConnRuns(t, "begun") /\ lock[ProcOf[t]] # NoWriter
    /\ ConnGoes(t, "checks")
    /\ UNCHANGED <<lock, queue, holder, writer, value, counted, alive>>

\* sameOwner: a caller and the writes its code makes run for one attempt.
SameOwner(h, t) == h # NoWriter /\ Within[t] = h
HeldByOwner(t) == LET h == holder[ProcOf[t]] IN SameOwner(h, t) /\ KindOf[h] = "caller"
\* ErrLockHeldByOwner ends a write of the driver's.
IsRefused(t) ==
    /\ ConnRuns(t, "checks") /\ HeldByOwner(t)
    /\ ConnGoes(t, "idle")
    /\ UNCHANGED <<lock, queue, holder, writer, value, counted, alive>>
Waits(t) ==
    LET p == ProcOf[t] IN
    /\ ConnRuns(t, "checks") /\ ~HeldByOwner(t)
    /\ \/ /\ lock[p] = NoWriter
          /\ lock' = [lock EXCEPT ![p] = t]
          /\ ConnGoes(t, "taken") /\ UNCHANGED queue
       \/ /\ lock[p] # NoWriter
          /\ queue' = [queue EXCEPT ![p] = Append(@, t)]
          /\ ConnGoes(t, "waits") /\ UNCHANGED lock
    /\ UNCHANGED <<holder, writer, value, counted, alive>>
IsServed(t) ==
    /\ ConnRuns(t, "waits") /\ lock[ProcOf[t]] = t
    /\ ConnGoes(t, "taken")
    /\ UNCHANGED <<lock, queue, holder, writer, value, counted, alive>>
\* The context ends first: a caller's transaction is as if no statement had
\* run, and a write of the driver's fails.
GivesUp(t) == IF KindOf[t] = "caller" THEN "begun" ELSE "idle"
WaitEnds(t) ==
    /\ ConnRuns(t, "waits") /\ lock[ProcOf[t]] # t
    /\ queue' = [queue EXCEPT ![ProcOf[t]] = SelectSeq(@, LAMBDA w : w # t)]
    /\ ConnGoes(t, GivesUp(t))
    /\ UNCHANGED <<lock, holder, writer, value, counted, alive>>
TokenHeld(t) ==
    /\ ConnRuns(t, "taken")
    /\ holder' = [holder EXCEPT ![ProcOf[t]] = t]
    /\ ConnGoes(t, "busy")
    /\ UNCHANGED <<lock, queue, writer, value, counted, alive>>

\* BEGIN IMMEDIATE, or the statement on its own, tried again while another
\* process has SQLite's lock.  It reads what is committed.
Locks(t) ==
    /\ ConnRuns(t, "busy") /\ writer = NoWriter
    /\ writer' = t
    /\ tx' = [tx EXCEPT ![t].phase = "open", ![t].pending = value]
    /\ UNCHANGED <<lock, queue, holder, value, counted, alive>>
\* Mutant: an error keeps the token.
KeepsToken(t) ==
    /\ ConnRuns(t, "busy")
    /\ ConnGoes(t, GivesUp(t))
    /\ UNCHANGED <<lock, queue, holder, writer, value, counted, alive>>
BusyEnds(t) ==
    /\ ConnRuns(t, "busy")
    /\ Release(t)
    /\ ConnGoes(t, GivesUp(t))
    /\ UNCHANGED <<writer, value, counted, alive>>

-----------------------------------------------------------------------------
(* Statements, in a transaction that has the lock.                         *)

\* Mutant: a statement after an error that ended the transaction runs.
EndedOnly(t) == tx[t].endedBy # "none"
Refused(t) == tx[t].aborted \/ tx[t].endedBy # "none"

\* A statement writes, in SQLite's transaction while it has one: outside it
\* a statement commits by itself.
Writes(t) ==
    /\ ConnRuns(t, "open") /\ ~Refused(t) /\ tx[t].writes < MaxWrites
    /\ IF writer = t
       THEN /\ tx' = [tx EXCEPT ![t].pending = @ + 1, ![t].writes = @ + 1]
            /\ UNCHANGED value
       ELSE value' = value + 1 /\ UNCHANGED tx
    /\ UNCHANGED <<lock, queue, holder, writer, counted, alive>>

\* Ends SQLite's transaction, committing what it wrote or not.
ConnEnds(t, commits) ==
    /\ writer' = NoWriter
    /\ IF commits
       THEN value' = tx[t].pending /\ counted' = counted + tx[t].writes
       ELSE UNCHANGED <<value, counted>>

\* enter, leave: SQLite rolls back after an error (the rollback hook).
Aborts(t) ==
    /\ ConnRuns(t, "open") /\ ~Refused(t) /\ writer = t /\ KindOf[t] # "statement"
    /\ ConnEnds(t, FALSE)
    /\ tx' = [tx EXCEPT ![t].aborted = TRUE]
    /\ UNCHANGED <<lock, queue, holder, alive>>
\* The caller's own COMMIT or ROLLBACK statement (either hook).
EndsItself(t, how) ==
    /\ ConnRuns(t, "open") /\ ~Refused(t) /\ writer = t /\ KindOf[t] = "caller"
    /\ ConnEnds(t, how = "commit")
    /\ tx' = [tx EXCEPT ![t].endedBy = how]
    /\ UNCHANGED <<lock, queue, holder, alive>>

\* writeLocking in a caller's transaction: what fn wrote after the savepoint
\* is undone if it fails, and the transaction goes on.
SavepointUndone(t) ==
    /\ ConnRuns(t, "open") /\ ~Refused(t) /\ writer = t /\ KindOf[t] = "caller" /\ tx[t].writes > 0
    /\ tx' = [tx EXCEPT ![t].pending = @ - 1, ![t].writes = @ - 1]
    /\ UNCHANGED <<lock, queue, holder, writer, value, counted, alive>>

-----------------------------------------------------------------------------
(* The end of a transaction.                                               *)

\* Commit and Rollback of a transaction whose first statement never ran.
EndsUnbegun(t) ==
    /\ ConnRuns(t, "begun") /\ KindOf[t] = "caller"
    /\ ConnGoes(t, "idle")
    /\ UNCHANGED <<lock, queue, holder, writer, value, counted, alive>>
\* Commit: of one that has ended, nothing is left to commit; a COMMIT that
\* fails is rolled back.
Commit(t) ==
    /\ ConnRuns(t, "open")
    /\ IF Refused(t) THEN UNCHANGED <<writer, value, counted>> ELSE \E ok \in BOOLEAN : ConnEnds(t, ok)
    /\ Release(t)
    /\ ConnGoes(t, "idle")
    /\ UNCHANGED alive
\* Rollback, of the caller, of a failed operation, or by database/sql when
\* the transaction's context ends.
RollbackTx(t) ==
    /\ ProcOf[t] \in alive /\ tx[t].phase = "open" /\ KindOf[t] # "statement"
    /\ IF tx[t].endedBy # "none" \/ writer # t THEN UNCHANGED <<writer, value, counted>> ELSE ConnEnds(t, FALSE)
    /\ Release(t)
    /\ ConnGoes(t, "idle")
    /\ UNCHANGED alive

\* A process dies: SQLite's lock, if it has it, goes with its file handles.
Dies(p) ==
    /\ alive = Procs /\ p \in alive
    /\ alive' = alive \ {p}
    /\ tx' = [t \in Writers |-> IF ProcOf[t] = p THEN [Fresh EXCEPT !.phase = "done"] ELSE tx[t]]
    /\ lock' = [lock EXCEPT ![p] = NoWriter] /\ holder' = [holder EXCEPT ![p] = NoWriter]
    /\ queue' = [queue EXCEPT ![p] = <<>>]
    /\ writer' = IF writer # NoWriter /\ ProcOf[writer] = p THEN NoWriter ELSE writer
    /\ UNCHANGED <<value, counted>>

ConnNext ==
    \/ \E t \in Writers :
        \/ Begins(t) \/ TakesFree(t) \/ FindsHeld(t) \/ IsRefused(t) \/ Waits(t) \/ IsServed(t) \/ WaitEnds(t)
        \/ TokenHeld(t) \/ Locks(t) \/ BusyEnds(t)
        \/ Writes(t) \/ Aborts(t) \/ SavepointUndone(t) \/ EndsUnbegun(t) \/ Commit(t) \/ RollbackTx(t)
        \/ \E how \in {"commit", "rollback"} : EndsItself(t, how)
    \/ \E p \in Procs : Dies(p)

-----------------------------------------------------------------------------
\* No write is lost and none is kept that its transaction did not commit: the
\* value is the writes of the transactions that committed, whichever of them
\* aborted, were ended by a statement or died.  A process's lock is taken
\* exactly while a transaction of it holds or begins to hold SQLite's, or is
\* about to be given it; and no goroutine waits for a lock that its own
\* transaction holds, which would never be released.
WritesSound ==
    /\ value = counted
    /\ \A p \in Procs :
        /\ lock[p] # NoWriter => tx[lock[p]].phase \in {"taken", "busy", "open", "waits"}
        /\ \A t \in Writers :
            /\ (ProcOf[t] = p /\ tx[t].phase \in {"taken", "busy", "open"}) => lock[p] = t
            /\ tx[t].phase = "waits" => lock[ProcOf[t]] # Within[t]
=============================================================================
