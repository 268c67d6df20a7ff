----------------------------- MODULE JobSteps ------------------------------
(***************************************************************************)
(* A job's own steps (steps.go, complete.go, JobRecordProgress): RunSteps  *)
(* resumes after the step the row's progress names and records each step   *)
(* as it finishes, on the pool or, with RecordStepTx, in the transaction   *)
(* of the step's own writes; the last may complete the job in its own      *)
(* (CompleteTx).  The job is rescued and claimed again while an earlier    *)
(* attempt still runs, commits fail or end unknown, and workers fail.      *)
(*                                                                         *)
(* Workers keep RecordStepTx's contract: a step ends its transaction       *)
(* before it returns, and returns an error if it did not commit.           *)
(***************************************************************************)
EXTENDS Naturals, Sequences

CONSTANTS Kinds,        \* how each step records: "pool", "tx" or "complete"
          Items,        \* items of a pool step, with a cursor after each
          StepAttempts  \* the attempts, 1..n: bounds the claims

Steps == 1..Len(Kinds)

\* Only the last step completes the job: CompleteTx ends it, and no step after
\* it could be recorded.
ASSUME StepsAssumption ==
    /\ Kinds \in Seq({"pool", "tx", "complete"})
    /\ \A s \in Steps : Kinds[s] = "complete" => s = Len(Kinds)
    /\ Items \in Nat /\ StepAttempts \subseteq Nat

VARIABLES stepRow,   \* the job's row: state, the attempt that owns it, progress
          stepRuns,  \* each attempt: where it is, its step and item, job.Progress
          effects,   \* what is committed of each step: writes of tx steps, by count
          itemsDone  \* the items each pool step has handled

stepVars == <<stepRow, stepRuns, effects, itemsDone>>

NoProgress == [step |-> 0, cursor |-> 0]

StepInit ==
    /\ stepRow = [state |-> "waiting", owner |-> 0, progress |-> NoProgress]
    /\ stepRuns = [a \in StepAttempts |-> [pc |-> "new", step |-> 0, item |-> 0, progress |-> NoProgress]]
    /\ effects = [s \in Steps |-> 0]
    /\ itemsDone = [s \in Steps |-> {}]

OwnsRow(a) == stepRow.state = "running" /\ stepRow.owner = a
\* The row is locked by the transaction of an attempt that wrote it.
RowHeld == \E a \in StepAttempts : stepRuns[a].pc = "tx"

\* A claim hands the row to the next attempt, whose worker calls RunSteps:
\* it starts after the step the progress names, at its cursor if it has one.
StartSteps(a) ==
    /\ stepRow.state = "waiting" /\ stepRuns[a].pc = "new" /\ stepRow.owner = a - 1
    /\ stepRow' = [stepRow EXCEPT !.state = "running", !.owner = a]
    /\ stepRuns' = [stepRuns EXCEPT ![a] = [pc |-> "step", step |-> stepRow.progress.step + 1,
                                    item |-> stepRow.progress.cursor, progress |-> stepRow.progress]]
    /\ UNCHANGED <<effects, itemsDone>>

\* The lease of its client expires: the job can be claimed again, unless a
\* transaction holds the row.
RescueStepRow ==
    /\ stepRow.state = "running" /\ ~RowHeld
    /\ stepRow' = [stepRow EXCEPT !.state = "waiting"]
    /\ UNCHANGED <<stepRuns, effects, itemsDone>>

AtStep(a, kind) == /\ stepRuns[a].pc = "step" /\ stepRuns[a].step \in Steps
                   /\ Kinds[stepRuns[a].step] = kind

\* The step handles its next item, then calls RecordCursor or goes on.
HandleItem(a) ==
    /\ AtStep(a, "pool") /\ stepRuns[a].item < Items
    /\ itemsDone' = [itemsDone EXCEPT ![stepRuns[a].step] = @ \union {stepRuns[a].item + 1}]
    /\ \E pc \in {"step", "cursor"} :
          stepRuns' = [stepRuns EXCEPT ![a].item = @ + 1, ![a].pc = pc]
    /\ UNCHANGED <<stepRow, effects>>

\* Mutant: the write checks that the job runs, not who runs it.
RecordUnfenced(a, progress) ==
    /\ ~RowHeld /\ stepRow.state = "running"
    /\ stepRow' = [stepRow EXCEPT !.progress = progress]
    /\ stepRuns' = [stepRuns EXCEPT ![a].pc = "step", ![a].progress = progress,
                            ![a].step = progress.step + 1, ![a].item = progress.cursor]
    /\ UNCHANGED <<effects, itemsDone>>

\* record on the pool: the fenced write of JobRecordProgress, which waits
\* for a transaction that holds the row.  ErrJobFenced fails the attempt.
Record(a, progress) ==
    /\ ~RowHeld
    /\ IF OwnsRow(a)
       THEN /\ stepRow' = [stepRow EXCEPT !.progress = progress]
            /\ stepRuns' = [stepRuns EXCEPT ![a].pc = "step", ![a].progress = progress,
                                    ![a].step = progress.step + 1, ![a].item = progress.cursor]
       ELSE /\ stepRuns' = [stepRuns EXCEPT ![a].pc = "failed"]
            /\ UNCHANGED stepRow
    /\ UNCHANGED <<effects, itemsDone>>

\* RecordCursor keeps the row's step; RunSteps' RecordStep clears the cursor.
RecordCursor(a) ==
    /\ stepRuns[a].pc = "cursor"
    /\ Record(a, [step |-> stepRow.progress.step, cursor |-> stepRuns[a].item])
RecordStep(a) ==
    /\ AtStep(a, "pool") /\ stepRuns[a].item = Items
    /\ Record(a, [step |-> stepRuns[a].step, cursor |-> 0])

\* A step's transaction: its writes, and RecordStepTx or CompleteTx, which
\* locks the row if the attempt still owns it.
BeginTx(a) ==
    /\ AtStep(a, "tx") \/ AtStep(a, "complete")
    /\ ~RowHeld
    /\ stepRuns' = [stepRuns EXCEPT ![a].pc = IF OwnsRow(a) THEN "tx" ELSE "failed"]
    /\ UNCHANGED <<stepRow, effects, itemsDone>>

\* Its commit, of which the worker learns or not (then it fails, and so does
\* the attempt), and its rollback.  RunSteps does not record the step again:
\* job.Progress names it, or the job is complete.
CommitTx(a, known) ==
    /\ stepRuns[a].pc = "tx"
    /\ effects' = [effects EXCEPT ![stepRuns[a].step] = @ + 1]
    /\ stepRow' = IF Kinds[stepRuns[a].step] = "tx"
                  THEN [stepRow EXCEPT !.progress = [step |-> stepRuns[a].step, cursor |-> 0]]
                  ELSE [stepRow EXCEPT !.state = "completed"]
    /\ stepRuns' = [stepRuns EXCEPT ![a].pc = IF known THEN "step" ELSE "failed",
                            ![a].step = @ + 1, ![a].progress = [step |-> stepRuns[a].step, cursor |-> 0]]
    /\ UNCHANGED itemsDone
RollbackTx(a) ==
    /\ stepRuns[a].pc = "tx"
    /\ stepRuns' = [stepRuns EXCEPT ![a].pc = "failed"]
    /\ UNCHANGED <<stepRow, effects, itemsDone>>

\* The worker fails, at any point outside a transaction.
FailStep(a) ==
    /\ stepRuns[a].pc = "step" /\ stepRuns[a].step \in Steps
    /\ stepRuns' = [stepRuns EXCEPT ![a].pc = "failed"]
    /\ UNCHANGED <<stepRow, effects, itemsDone>>

\* The attempt's result, fenced like its records.  After the last step the
\* job is complete; a failure keeps the progress for the next attempt.
FinalizeSteps(a) ==
    /\ stepRuns[a].pc = "failed" \/ (stepRuns[a].pc = "step" /\ stepRuns[a].step \notin Steps)
    /\ ~RowHeld
    /\ stepRuns' = [stepRuns EXCEPT ![a].pc = "over"]
    /\ stepRow' = IF OwnsRow(a)
                  THEN [stepRow EXCEPT !.state = IF stepRuns[a].pc = "failed" THEN "waiting" ELSE "completed"]
                  ELSE stepRow
    /\ UNCHANGED <<effects, itemsDone>>

StepNext ==
    \/ RescueStepRow
    \/ \E a \in StepAttempts :
          \/ StartSteps(a) \/ HandleItem(a) \/ RecordCursor(a) \/ RecordStep(a)
          \/ BeginTx(a) \/ RollbackTx(a) \/ FailStep(a) \/ FinalizeSteps(a)
          \/ \E known \in BOOLEAN : CommitTx(a, known)

StepSpec == StepInit /\ [][StepNext]_stepVars

-----------------------------------------------------------------------------
\* "A later attempt neither repeats a step that committed nor skips one that
\* did not" (RecordStepTx): the writes of a step that records in its own
\* transaction commit once if the progress names it or a later step, or the
\* job is complete, and not at all otherwise, whichever attempts ran.
TxStepsCommitOnce ==
    \A s \in Steps : Kinds[s] # "pool" =>
        effects[s] = IF stepRow.progress.step >= s \/ stepRow.state = "completed" THEN 1 ELSE 0

\* No item of a pool step is skipped: the progress passes a step, or its
\* cursor an item, only once the item was handled.
NoItemSkipped ==
    \A s \in Steps : Kinds[s] = "pool" =>
        /\ stepRow.progress.step >= s => itemsDone[s] = 1..Items
        /\ stepRow.progress.step = s - 1 => 1..stepRow.progress.cursor \subseteq itemsDone[s]

\* Both of the above.
StepsExact == TxStepsCommitOnce /\ NoItemSkipped
=============================================================================
