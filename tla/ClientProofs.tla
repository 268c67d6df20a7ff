---------------------------- MODULE ClientProofs ----------------------------
(***************************************************************************)
(* Proofs about what runs beside and under a worker in one client: the     *)
(* watch on a worker that does not return (StuckWatch), the steps a job    *)
(* resumes at (JobSteps) and the queues' state the client follows          *)
(* (QueueControl).                                                         *)
(***************************************************************************)
EXTENDS StuckWatch, JobSteps, QueueControl, TLAPS

\* The time a prover may take on a leaf that names none, on a loaded machine too.
USE SMTT(30), ZenonT(30)

-----------------------------------------------------------------------------
(* The stuck watch.  Its three goroutines meet in four facts: the timer is *)
(* there once the AfterFunc has armed it; it can be loaded once it is      *)
(* stored; done is set by whoever comes first, the worker or the report;   *)
(* and a timer still armed after the worker returned has an AfterFunc left *)
(* to look at done.                                                        *)

StuckInv ==
    /\ canceled \in BOOLEAN /\ stored \in BOOLEAN /\ done \in BOOLEAN /\ reports \in Nat
    /\ after \in {"waiting", "stopped", "arm", "store", "look", "ended"}
    /\ grace \in {"unset", "armed", "stopped", "fired", "ended"}
    /\ worker \in {"running", "stop", "load", "returned"}
    /\ grace = "unset" <=> after \in {"waiting", "stopped", "arm"}
    /\ after \notin {"waiting", "stopped"} => canceled
    /\ stored <=> after \in {"look", "ended"}
    /\ worker # "running" => done
    /\ worker \in {"load", "returned"} => after # "waiting"
    /\ reports > 0 => done
    /\ grace = "armed" /\ worker = "returned" => after # "ended"

LEMMA StuckStart == StuckInit => StuckInv
  <1> SUFFICES ASSUME StuckInit PROVE StuckInv
    BY Zenon
  <1>1. reports \in Nat /\ ~(reports > 0)
    BY SMT DEF StuckInit
  <1>2. ~stored /\ ~done /\ canceled \in BOOLEAN /\ stored \in BOOLEAN /\ done \in BOOLEAN
    BY Zenon DEF StuckInit
  <1> QED
    BY <1>1, <1>2, Zenon DEF StuckInit, StuckInv

LEMMA StuckKeeps == StuckInv /\ [StuckNext]_stuckVars => StuckInv'
  <1> SUFFICES ASSUME StuckInv, [StuckNext]_stuckVars PROVE StuckInv'
    BY Zenon
  <1>1. CASE CancelContext
    BY <1>1, Zenon DEF StuckInv, CancelContext
  <1>2. CASE ArmGrace
    BY <1>2, Zenon DEF StuckInv, ArmGrace
  <1>3. CASE StoreTimer
    BY <1>3, Zenon DEF StuckInv, StoreTimer
  <1>4. CASE LookAtDone
    BY <1>4, Zenon DEF StuckInv, LookAtDone, StopTimer
  <1>5. CASE ReturnedSets
    BY <1>5, Zenon DEF StuckInv, ReturnedSets
  <1>6. CASE ReturnedStops
    BY <1>6, Zenon DEF StuckInv, ReturnedStops
  <1>7. CASE ReturnedLoads
    BY <1>7, Zenon DEF StuckInv, ReturnedLoads, StopTimer
  <1>8. CASE GraceEnds
    BY <1>8, Zenon DEF StuckInv, GraceEnds
  <1>9. CASE ReportStuck
    BY <1>9 DEF StuckInv, ReportStuck
  <1>10. CASE UNCHANGED stuckVars
    BY <1>10, Zenon DEF StuckInv, stuckVars
  <1> QED
    BY <1>1, <1>2, <1>3, <1>4, <1>5, <1>6, <1>7, <1>8, <1>9, <1>10, Zenon DEF StuckNext

\* Only the step that finds done unset reports.
LEMMA ReportsLate ==
  ASSUME StuckInv, [StuckNext]_stuckVars
  PROVE  reports' > reports => worker = "running" /\ canceled /\ reports = 0
  <1>1. CASE ReportStuck
    BY <1>1 DEF StuckInv, ReportStuck
  <1>2. CASE UNCHANGED reports
    BY <1>2 DEF StuckInv
  <1> QED
    BY Zenon, <1>1, <1>2 DEF StuckNext, stuckVars, CancelContext, ArmGrace, StoreTimer, LookAtDone,
       ReturnedSets, ReturnedStops, ReturnedLoads, GraceEnds

\* A worker is reported at most once, only if its context was canceled and it
\* has not returned, and its timer is not left behind, in whatever order the
\* worker, the AfterFunc and the timer run (stuck.go).
THEOREM StuckKept == StuckSpec => StuckSound
  <1>1. StuckInv => NoTimerLeft
    BY Zenon DEF StuckInv, NoTimerLeft
  <1>2. StuckInv /\ StuckInv' /\ [StuckNext]_stuckVars
          => [NoTimerLeft' /\ (reports' > reports => worker = "running" /\ canceled /\ reports = 0)]_stuckVars
    BY <1>1, ReportsLate, Zenon DEF StuckInv, NoTimerLeft
  <1> QED
    BY StuckStart, StuckKeeps, <1>2, PTL DEF StuckSpec, StuckSound

-----------------------------------------------------------------------------
(* The steps of a job.  The owner of the row is at the step after the one  *)
(* the row's progress names; a transaction holds the row only for its      *)
(* owner, so nothing moves the row under it; and an attempt that no longer *)
(* owns the row has handled the items it counts, but can record nothing.   *)

Progress == [step : 0..Len(Kinds), cursor : 0..Items]
StepRowType == [state : {"waiting", "running", "completed"}, owner : Nat, progress : Progress]
StepRunType == [pc : {"new", "step", "cursor", "tx", "failed", "over"}, step : Nat,
                item : 0..Items, progress : Progress]

\* An attempt inside its steps.
Stepping(a) == stepRuns[a].pc \in {"step", "cursor", "tx"}
IsPool(s) == s \in Steps /\ Kinds[s] = "pool"

StepTypeOK ==
    /\ stepRow \in StepRowType
    /\ stepRuns \in [StepAttempts -> StepRunType]
    /\ effects \in [Steps -> Nat]
    /\ itemsDone \in [Steps -> SUBSET (1..Items)]

\* The cursor is of the pool step that is next.
CursorPlaced == stepRow.progress.cursor > 0 => IsPool(stepRow.progress.step + 1)

\* What an attempt may believe of its step.
RunPlaced(a) ==
    /\ stepRuns[a].pc = "tx" => OwnsRow(a) /\ stepRuns[a].step \in Steps /\ ~IsPool(stepRuns[a].step)
    /\ stepRuns[a].pc = "cursor" => IsPool(stepRuns[a].step)
    /\ OwnsRow(a) /\ Stepping(a) => stepRuns[a].step = stepRow.progress.step + 1
    /\ Stepping(a) /\ IsPool(stepRuns[a].step) => 1..stepRuns[a].item \subseteq itemsDone[stepRuns[a].step]
    /\ Stepping(a) /\ stepRuns[a].step \in Steps /\ ~IsPool(stepRuns[a].step) => stepRuns[a].item = 0

StepInv ==
    /\ StepTypeOK
    /\ CursorPlaced
    /\ \A a \in StepAttempts : RunPlaced(a)
    /\ TxStepsCommitOnce
    /\ NoItemSkipped

LEMMA StepStart == StepInit => StepInv
  <1> SUFFICES ASSUME StepInit PROVE StepInv
    BY Zenon
  <1> USE StepsAssumption
  <1>1. Len(Kinds) \in Nat /\ Steps \subseteq Nat \ {0}
    BY DEF Steps
  <1>2. StepTypeOK
    BY <1>1 DEF StepInit, StepTypeOK, StepRowType, StepRunType, Progress, NoProgress
  <1>3. CursorPlaced /\ TxStepsCommitOnce /\ NoItemSkipped
    BY <1>1 DEF StepInit, CursorPlaced, TxStepsCommitOnce, NoItemSkipped, NoProgress
  <1>4. \A a \in StepAttempts : RunPlaced(a)
    BY Zenon DEF StepInit, RunPlaced, Stepping, OwnsRow
  <1> QED
    BY <1>2, <1>3, <1>4, Zenon DEF StepInv

\* What the types say of one attempt.
LEMMA RunFields ==
  ASSUME StepTypeOK, NEW a \in StepAttempts
  PROVE  /\ Len(Kinds) \in Nat /\ Steps \subseteq Nat \ {0} /\ a \in Nat
         /\ stepRow.progress.step \in 0..Len(Kinds) /\ stepRow.progress.cursor \in 0..Items
         /\ stepRuns[a].step \in Nat /\ stepRuns[a].item \in 0..Items
  BY StepsAssumption DEF StepTypeOK, StepRowType, StepRunType, Progress, Steps

\* Rows of the runs, written field by field.
LEMMA HandledRun ==
  ASSUME NEW r \in StepRunType, r.item < Items, NEW pc \in {"step", "cursor"}
  PROVE  LET run == [r EXCEPT !.item = @ + 1, !.pc = pc]
         IN  run \in StepRunType /\ run.item = r.item + 1 /\ run.step = r.step /\ run.pc = pc
  <1>1. r.item \in 0..Items
    BY Zenon DEF StepRunType
  <1>2. r.item + 1 \in 0..Items
    BY <1>1, StepsAssumption
  <1> QED
    BY <1>2, Zenon DEF StepRunType
LEMMA RecordedRun ==
  ASSUME NEW r \in StepRunType, NEW progress \in Progress
  PROVE  LET run == [r EXCEPT !.pc = "step", !.progress = progress,
                              !.step = progress.step + 1, !.item = progress.cursor]
         IN  /\ run \in StepRunType
             /\ run.pc = "step" /\ run.step = progress.step + 1 /\ run.item = progress.cursor
  <1>1. progress.step \in 0..Len(Kinds) /\ progress.cursor \in 0..Items
    BY Zenon DEF Progress
  <1>2. progress.step + 1 \in Nat
    BY <1>1, StepsAssumption
  <1> QED
    BY <1>1, <1>2, Zenon DEF StepRunType
CommittedAs(r, pc, progress) == [r EXCEPT !.pc = pc, !.step = @ + 1, !.progress = progress]
LEMMA CommittedRun ==
  ASSUME NEW r \in StepRunType, NEW progress \in Progress, NEW pc \in {"step", "failed"}
  PROVE  /\ CommittedAs(r, pc, progress) \in StepRunType
         /\ CommittedAs(r, pc, progress).pc = pc
         /\ CommittedAs(r, pc, progress).step = r.step + 1
         /\ CommittedAs(r, pc, progress).item = r.item
  <1>1. r.step + 1 \in Nat
    BY DEF StepRunType
  <1> QED
    BY <1>1, Zenon DEF StepRunType, CommittedAs

\* A claim.
LEMMA StartKeeps ==
  ASSUME StepInv, NEW a \in StepAttempts, StartSteps(a)
  PROVE  StepInv'
  <1> USE StepsAssumption
  <1>0. StepTypeOK /\ CursorPlaced /\ (\A b \in StepAttempts : RunPlaced(b)) /\ TxStepsCommitOnce /\ NoItemSkipped
    BY Zenon DEF StepInv
  <1>1. stepRow' = [stepRow EXCEPT !.state = "running", !.owner = a]
    BY Zenon DEF StartSteps
  <1>2. stepRow'.progress = stepRow.progress /\ stepRow'.state = "running" /\ stepRow'.owner = a
    BY <1>0, <1>1, Zenon DEF StepTypeOK, StepRowType
  <1>3. stepRow.state = "waiting" /\ effects' = effects /\ itemsDone' = itemsDone
    BY Zenon DEF StartSteps
  <1>4. StepTypeOK'
    <2>1. stepRow' \in StepRowType
      BY <1>0, <1>1, RunFields, Zenon DEF StepTypeOK, StepRowType
    <2> DEFINE run == [pc |-> "step", step |-> stepRow.progress.step + 1,
                       item |-> stepRow.progress.cursor, progress |-> stepRow.progress]
    <2>2. run \in StepRunType
      BY <1>0, RunFields DEF StepTypeOK, StepRowType, StepRunType
    <2>3. stepRuns' = [stepRuns EXCEPT ![a] = run]
      BY Zenon DEF StartSteps
    <2> HIDE DEF run
    <2> QED
      BY <1>0, <1>3, <2>1, <2>2, <2>3, Zenon DEF StepTypeOK
  <1>5. CursorPlaced' /\ TxStepsCommitOnce' /\ NoItemSkipped'
    BY <1>0, <1>2, <1>3, Zenon DEF CursorPlaced, TxStepsCommitOnce, NoItemSkipped, IsPool
  <1>6. ASSUME NEW b \in StepAttempts PROVE RunPlaced(b)'
    <2>1. CASE b = a
      <3>1. /\ stepRuns'[a].pc = "step" /\ stepRuns'[a].step = stepRow.progress.step + 1
            /\ stepRuns'[a].item = stepRow.progress.cursor
        BY <1>0, Zenon DEF StartSteps, StepTypeOK
      <3> QED
        BY <1>0, <1>2, <1>3, <2>1, <3>1, RunFields DEF RunPlaced, Stepping, OwnsRow, IsPool, CursorPlaced, NoItemSkipped
    <2>2. CASE b # a
      <3>1. stepRuns'[b] = stepRuns[b]
        BY <1>0, <2>2, Zenon DEF StartSteps, StepTypeOK
      <3> QED
        BY <1>0, <1>2, <1>3, <2>2, <3>1, Zenon DEF RunPlaced, Stepping, OwnsRow, IsPool
    <2> QED
      BY <2>1, <2>2, Zenon
  <1> QED
    BY <1>4, <1>5, <1>6, Zenon DEF StepInv

\* Steps that change only where an attempt is, and the state of a row that no
\* transaction holds.
LEMMA MoveKeeps ==
  ASSUME StepInv, NEW a \in StepAttempts, NEW pc \in {"tx", "failed", "over"},
         stepRuns' = [stepRuns EXCEPT ![a].pc = pc],
         pc = "tx" => OwnsRow(a) /\ stepRuns[a].pc = "step" /\ stepRuns[a].step \in Steps /\ ~IsPool(stepRuns[a].step),
         UNCHANGED <<effects, itemsDone>>,
         \/ UNCHANGED stepRow
         \/ /\ ~RowHeld /\ pc # "tx"
            /\ \E st \in {"waiting", "completed"} : 
                  /\ stepRow' = [stepRow EXCEPT !.state = st]
                  /\ stepRow.state = "running"
                  /\ st = "completed" => stepRow.progress.step = Len(Kinds)
  PROVE  StepInv'
  <1> USE StepsAssumption
  <1>0. StepTypeOK /\ CursorPlaced /\ (\A b \in StepAttempts : RunPlaced(b)) /\ TxStepsCommitOnce /\ NoItemSkipped
    BY Zenon DEF StepInv
  <1>1. StepTypeOK'
    BY <1>0, ZenonT(30) DEF StepTypeOK, StepRowType, StepRunType
  <1>2. stepRow'.progress = stepRow.progress /\ stepRow'.owner = stepRow.owner
    BY <1>0, Zenon DEF StepTypeOK, StepRowType
  <1>3. \/ stepRow'.state = stepRow.state
        \/ /\ ~RowHeld /\ pc # "tx" /\ stepRow.state = "running"
           /\ stepRow'.state # "running"
           /\ stepRow'.state = "completed" => stepRow.progress.step = Len(Kinds)
    BY <1>0, Zenon DEF StepTypeOK, StepRowType
  <1>4. CursorPlaced' /\ NoItemSkipped'
    BY <1>0, <1>2, Zenon DEF CursorPlaced, NoItemSkipped, IsPool
  <1>5. TxStepsCommitOnce'
    BY <1>0, <1>2, <1>3, RunFields DEF TxStepsCommitOnce, Steps
  <1>6. ASSUME NEW b \in StepAttempts PROVE RunPlaced(b)'
    <2>1. /\ stepRuns'[b].step = stepRuns[b].step /\ stepRuns'[b].item = stepRuns[b].item
          /\ stepRuns'[b].pc = IF b = a THEN pc ELSE stepRuns[b].pc
      BY <1>0, Zenon DEF StepTypeOK, StepRunType
    <2>2. stepRuns[b].pc = "tx" /\ b # a => stepRow'.state = "running"
      BY <1>0, <1>3, Zenon DEF RowHeld, RunPlaced, OwnsRow
    <2>3. pc = "tx" => stepRow'.state = "running"
      BY <1>3, Zenon DEF OwnsRow
    <2> QED
      BY <1>0, <1>2, <1>3, <2>1, <2>2, <2>3 DEF RunPlaced, Stepping, OwnsRow, IsPool
  <1> QED
    BY <1>1, <1>4, <1>5, <1>6, Zenon DEF StepInv

LEMMA RescueStepKeeps ==
  ASSUME StepInv, RescueStepRow
  PROVE  StepInv'
  <1>0. StepTypeOK /\ CursorPlaced /\ (\A b \in StepAttempts : RunPlaced(b)) /\ TxStepsCommitOnce /\ NoItemSkipped
    BY Zenon DEF StepInv
  <1>1. StepTypeOK'
    BY <1>0, Zenon DEF StepTypeOK, StepRowType, RescueStepRow
  <1>2. /\ stepRow'.progress = stepRow.progress /\ stepRow'.state = "waiting" /\ stepRow.state = "running"
        /\ stepRuns' = stepRuns /\ effects' = effects /\ itemsDone' = itemsDone /\ ~RowHeld
    BY <1>0, Zenon DEF StepTypeOK, StepRowType, RescueStepRow
  <1>3. CursorPlaced' /\ NoItemSkipped' /\ TxStepsCommitOnce'
    BY <1>0, <1>2, Zenon DEF CursorPlaced, NoItemSkipped, TxStepsCommitOnce, IsPool
  <1>4. \A b \in StepAttempts : RunPlaced(b)'
    BY <1>0, <1>2, Zenon DEF RunPlaced, Stepping, OwnsRow, IsPool, RowHeld
  <1> QED
    BY <1>1, <1>3, <1>4, Zenon DEF StepInv

LEMMA HandleKeeps ==
  ASSUME StepInv, NEW a \in StepAttempts, HandleItem(a)
  PROVE  StepInv'
  <1> USE StepsAssumption
  <1> DEFINE s == stepRuns[a].step
             i == stepRuns[a].item
  <1>0. StepTypeOK /\ CursorPlaced /\ (\A b \in StepAttempts : RunPlaced(b)) /\ TxStepsCommitOnce /\ NoItemSkipped
    BY Zenon DEF StepInv
  <1>1. /\ stepRuns[a].pc = "step" /\ IsPool(s) /\ i \in 0..Items /\ i < Items
        /\ stepRow' = stepRow /\ effects' = effects
    BY <1>0, RunFields, Zenon DEF HandleItem, AtStep, IsPool
  <1>2. PICK pc \in {"step", "cursor"} : stepRuns' = [stepRuns EXCEPT ![a].item = @ + 1, ![a].pc = pc]
    BY Zenon DEF HandleItem
  <1>3. /\ itemsDone' = [itemsDone EXCEPT ![s] = @ \cup {i + 1}]
        /\ i + 1 \in 1..Items
    BY <1>1 DEF HandleItem
  <1>4. /\ itemsDone' \in [Steps -> SUBSET (1..Items)]
        /\ itemsDone'[s] = itemsDone[s] \cup {i + 1}
        /\ \A t \in Steps : itemsDone[t] \subseteq itemsDone'[t]
    BY <1>0, <1>1, <1>3, Zenon DEF StepTypeOK, IsPool
  <1>5. StepTypeOK'
    <2>1. stepRuns[a] \in StepRunType
      BY <1>0, Zenon DEF StepTypeOK
    <2> DEFINE run == [stepRuns[a] EXCEPT !.item = @ + 1, !.pc = pc]
    <2>2. run \in StepRunType
      BY <1>1, <2>1, HandledRun, Zenon
    <2>3. stepRuns' = [stepRuns EXCEPT ![a] = run]
      BY <1>0, <1>2, Zenon DEF StepTypeOK
    <2> HIDE DEF run
    <2> QED
      BY <1>0, <1>1, <1>4, <2>2, <2>3, Zenon DEF StepTypeOK
  <1>6. CursorPlaced' /\ TxStepsCommitOnce'
    BY <1>0, <1>1, Zenon DEF CursorPlaced, TxStepsCommitOnce, IsPool
  <1>7. NoItemSkipped'
    BY <1>0, <1>1, <1>4, Zenon DEF NoItemSkipped, StepTypeOK
  <1>8. ASSUME NEW b \in StepAttempts PROVE RunPlaced(b)'
    <2>1. CASE b = a
      <3>1. stepRuns'[a].step = s /\ stepRuns'[a].item = i + 1 /\ stepRuns'[a].pc \in {"step", "cursor"}
        BY <1>0, <1>2, Zenon DEF StepTypeOK, StepRunType
      <3>2. 1..i \subseteq itemsDone[s]
        BY <1>0, <1>1, Zenon DEF RunPlaced, Stepping
      <3>3. 1..(i + 1) \subseteq itemsDone'[s]
        BY <1>1, <1>4, <3>2
      <3> QED
        BY <1>0, <1>1, <2>1, <3>1, <3>3, Zenon DEF RunPlaced, Stepping, OwnsRow, IsPool
    <2>2. CASE b # a
      <3>1. stepRuns'[b] = stepRuns[b]
        BY <1>0, <1>2, <2>2, Zenon DEF StepTypeOK
      <3> QED
        BY <1>0, <1>1, <1>4, <3>1 DEF RunPlaced, Stepping, OwnsRow, IsPool
    <2> QED
      BY <2>1, <2>2, Zenon
  <1> QED
    BY <1>5, <1>6, <1>7, <1>8, Zenon DEF StepInv

\* The fenced write of the owner: it moves the cursor in its pool step, or ends
\* the step once its items are handled.
LEMMA RecordKeeps ==
  ASSUME StepInv, NEW a \in StepAttempts, OwnsRow(a), NEW progress \in Progress,
         Record(a, progress), Stepping(a), IsPool(stepRuns[a].step),
         \/ /\ progress.step = stepRow.progress.step
            /\ progress.cursor = stepRuns[a].item
         \/ /\ progress.step = stepRuns[a].step /\ progress.cursor = 0
            /\ stepRuns[a].item = Items
  PROVE  StepInv'
  <1> USE StepsAssumption
  <1> DEFINE s == stepRuns[a].step
             i == stepRuns[a].item
  <1>0. StepTypeOK /\ CursorPlaced /\ (\A b \in StepAttempts : RunPlaced(b)) /\ TxStepsCommitOnce /\ NoItemSkipped
    BY Zenon DEF StepInv
  <1>1. /\ ~RowHeld /\ effects' = effects /\ itemsDone' = itemsDone
        /\ stepRow' = [stepRow EXCEPT !.progress = progress]
        /\ stepRuns' = [stepRuns EXCEPT ![a].pc = "step", ![a].progress = progress,
                                        ![a].step = progress.step + 1, ![a].item = progress.cursor]
    BY Zenon DEF Record
  <1>2. s = stepRow.progress.step + 1 /\ 1..i \subseteq itemsDone[s]
    BY <1>0, Zenon DEF RunPlaced
  <1>3. progress.step \in 0..Len(Kinds) /\ progress.cursor \in 0..Items
    BY Zenon DEF Progress
  <1> DEFINE run == [stepRuns[a] EXCEPT !.pc = "step", !.progress = progress,
                                        !.step = progress.step + 1, !.item = progress.cursor]
  <1>10. /\ run \in StepRunType /\ run.pc = "step"
         /\ run.step = progress.step + 1 /\ run.item = progress.cursor
    <2>1. stepRuns[a] \in StepRunType
      BY <1>0, Zenon DEF StepTypeOK
    <2> QED
      BY <2>1, RecordedRun, Zenon
  <1>11. stepRuns' = [stepRuns EXCEPT ![a] = run]
    BY <1>0, <1>1, Zenon DEF StepTypeOK
  <1> HIDE DEF run
  <1>12. stepRow' = [stepRow EXCEPT !.progress = progress] /\ UNCHANGED <<effects, itemsDone>>
    BY <1>1, Zenon
  <1>4. StepTypeOK'
    BY <1>0, <1>12, <1>10, <1>11, Zenon DEF StepTypeOK, StepRowType
  <1>5. stepRow'.progress = progress /\ stepRow'.state = "running" /\ stepRow'.owner = a /\ stepRow.state = "running"
    BY <1>0, <1>1, Zenon DEF StepTypeOK, StepRowType, OwnsRow
  <1>6. CursorPlaced'
    BY <1>2, <1>5 DEF CursorPlaced, IsPool
  <1>7. TxStepsCommitOnce'
    BY <1>0, <1>1, <1>2, <1>5, RunFields DEF TxStepsCommitOnce, IsPool
  <1>8. NoItemSkipped'
    <2> SUFFICES ASSUME NEW t \in Steps, Kinds[t] = "pool"
                 PROVE  /\ progress.step >= t => itemsDone[t] = 1..Items
                        /\ progress.step = t - 1 => 1..progress.cursor \subseteq itemsDone[t]
      BY <1>1, <1>5, Zenon DEF NoItemSkipped
    <2>1. itemsDone[t] \subseteq 1..Items
      BY <1>0, Zenon DEF StepTypeOK
    <2>2. t \in Nat /\ t >= 1 /\ s \in Nat /\ stepRow.progress.step \in Nat
      BY <1>0, RunFields DEF Steps
    <2>3. stepRow.progress.step >= t => itemsDone[t] = 1..Items
      BY <1>0, Zenon DEF NoItemSkipped
    <2>4. CASE progress.step = stepRow.progress.step /\ progress.cursor = i
      <3>1. progress.step = t - 1 => t = s
        BY <1>2, <2>2, <2>4
      <3> QED
        BY <1>2, <2>3, <2>4, <3>1, Zenon
    <2>5. CASE progress.step = s /\ progress.cursor = 0 /\ i = Items
      <3>1. progress.step >= t => stepRow.progress.step >= t \/ t = s
        BY <1>2, <2>2, <2>5
      <3>2. 1..progress.cursor = {}
        BY <2>5
      <3> QED
        BY <1>2, <2>1, <2>3, <2>5, <3>1, <3>2, Zenon
    <2> QED
      BY <2>4, <2>5, Zenon
  <1>9. ASSUME NEW b \in StepAttempts PROVE RunPlaced(b)'
    <2>1. CASE b = a
      <3>1. /\ stepRuns'[a].step = progress.step + 1 /\ stepRuns'[a].item = progress.cursor
            /\ stepRuns'[a].pc = "step"
        BY <1>0, <1>10, <1>11, Zenon DEF StepTypeOK
      <3> QED
        BY <1>2, <1>3, <1>5, <1>12, <2>1, <3>1 DEF RunPlaced, Stepping, OwnsRow, IsPool
    <2>2. CASE b # a
      <3>1. stepRuns'[b] = stepRuns[b]
        BY <1>0, <1>1, <2>2, Zenon DEF StepTypeOK
      <3>2. stepRuns[b].pc # "tx" /\ RunPlaced(b)
        BY <1>0, <1>1, <2>2, Zenon DEF RunPlaced, OwnsRow
      <3> QED
        BY <1>0, <1>1, <1>5, <2>2, <3>1, <3>2, Zenon DEF RunPlaced, Stepping, OwnsRow, IsPool
    <2> QED
      BY <2>1, <2>2, Zenon
  <1> QED
    BY <1>4, <1>6, <1>7, <1>8, <1>9, Zenon DEF StepInv

\* The commit of a step that records in its own transaction.
LEMMA CommitKeeps ==
  ASSUME StepInv, NEW a \in StepAttempts, NEW known \in BOOLEAN, CommitTx(a, known)
  PROVE  StepInv'
  <1> USE StepsAssumption
  <1> DEFINE s == stepRuns[a].step
             progress == [step |-> s, cursor |-> 0]
             pc == IF known THEN "step" ELSE "failed"
             run == CommittedAs(stepRuns[a], pc, progress)
  <1>0. StepTypeOK /\ CursorPlaced /\ (\A b \in StepAttempts : RunPlaced(b)) /\ TxStepsCommitOnce /\ NoItemSkipped
    BY Zenon DEF StepInv
  <1>1. /\ OwnsRow(a) /\ s \in Steps /\ Kinds[s] # "pool" /\ s = stepRow.progress.step + 1
        /\ stepRuns[a].item = 0
    BY <1>0, Zenon DEF CommitTx, RunPlaced, Stepping, IsPool
  <1>2. s \in Nat /\ s >= 1 /\ s <= Len(Kinds) /\ Len(Kinds) \in Nat /\ stepRow.progress.step \in Nat
    BY <1>0, <1>1, RunFields DEF Steps
  <1>3. progress \in Progress /\ stepRuns[a] \in StepRunType
    BY <1>0, <1>2 DEF Progress, StepTypeOK
  <1>4. run \in StepRunType /\ run.pc = pc /\ run.step = s + 1 /\ run.item = 0
    <2>1. pc \in {"step", "failed"}
      BY Zenon
    <2>2. /\ run \in StepRunType
          /\ run.pc = pc /\ run.step = stepRuns[a].step + 1 /\ run.item = stepRuns[a].item
      <3> HIDE DEF progress, pc
      <3> QED
        BY <1>3, <2>1, CommittedRun, ZenonT(30)
    <2> HIDE DEF run
    <2> QED
      BY <1>1, <2>2, Zenon
  <1>5. stepRuns' = [stepRuns EXCEPT ![a] = run]
    BY <1>0, Zenon DEF CommitTx, StepTypeOK, CommittedAs
  <1> HIDE DEF run
  <1>6. effects' = [effects EXCEPT ![s] = @ + 1] /\ itemsDone' = itemsDone
    BY Zenon DEF CommitTx
  <1>7. stepRow' = IF Kinds[s] = "tx" THEN [stepRow EXCEPT !.progress = progress]
                   ELSE [stepRow EXCEPT !.state = "completed"]
    BY Zenon DEF CommitTx
  <1>8. StepTypeOK'
    <2>1. stepRow' \in StepRowType
      <3> HIDE DEF progress
      <3> QED
        BY <1>0, <1>3, <1>7, SMTT(30) DEF StepTypeOK, StepRowType
    <2>2. effects' \in [Steps -> Nat]
      BY <1>0, <1>1, <1>6 DEF StepTypeOK
    <2>3. stepRuns' \in [StepAttempts -> StepRunType]
      BY <1>0, <1>4, <1>5, Zenon DEF StepTypeOK
    <2> QED
      BY <1>0, <1>6, <2>1, <2>2, <2>3, Zenon DEF StepTypeOK
  <1>9. \/ /\ Kinds[s] = "tx" /\ stepRow'.state = "running" /\ stepRow'.owner = a
           /\ stepRow'.progress.step = s /\ stepRow'.progress.cursor = 0
        \/ /\ s = Len(Kinds) /\ stepRow'.state = "completed" /\ stepRow'.progress = stepRow.progress
    <2>1. Kinds[s] \in {"tx", "complete"}
      BY <1>1, <1>2 DEF Steps
    <2> QED
      BY <1>0, <1>1, <1>7, <2>1, Zenon DEF StepTypeOK, StepRowType, OwnsRow
  <1>10. CursorPlaced'
    BY <1>0, <1>9 DEF CursorPlaced, IsPool
  <1>11. TxStepsCommitOnce'
    <2> SUFFICES ASSUME NEW t \in Steps, Kinds[t] # "pool"
                 PROVE  effects'[t] = IF stepRow'.progress.step >= t \/ stepRow'.state = "completed" THEN 1 ELSE 0
      BY Zenon DEF TxStepsCommitOnce
    <2>1. effects[t] = IF stepRow.progress.step >= t THEN 1 ELSE 0
      BY <1>0, <1>1, Zenon DEF TxStepsCommitOnce, OwnsRow
    <2>2. effects'[t] = IF t = s THEN effects[t] + 1 ELSE effects[t]
      BY <1>0, <1>1, <1>6, Zenon DEF StepTypeOK
    <2>3. t \in Nat /\ t >= 1 /\ t <= Len(Kinds)
      BY DEF Steps
    <2> QED
      BY <1>1, <1>2, <1>9, <2>1, <2>2, <2>3
  <1>12. NoItemSkipped'
    <2> SUFFICES ASSUME NEW t \in Steps, Kinds[t] = "pool"
                 PROVE  /\ stepRow'.progress.step >= t => itemsDone[t] = 1..Items
                        /\ stepRow'.progress.step = t - 1 => 1..stepRow'.progress.cursor \subseteq itemsDone[t]
      BY <1>6, Zenon DEF NoItemSkipped
    <2>1. t \in Nat /\ t >= 1 /\ t # s
      BY <1>1 DEF Steps
    <2>2. /\ stepRow.progress.step >= t => itemsDone[t] = 1..Items
          /\ stepRow.progress.step = t - 1 => 1..stepRow.progress.cursor \subseteq itemsDone[t]
      BY <1>0, Zenon DEF NoItemSkipped
    <2> QED
      BY <1>1, <1>2, <1>9, <2>1, <2>2
  <1>13. ASSUME NEW b \in StepAttempts PROVE RunPlaced(b)'
    <2>1. CASE b = a
      <3>1. stepRuns'[a].pc = pc /\ stepRuns'[a].step = s + 1 /\ stepRuns'[a].item = 0
        BY <1>0, <1>4, <1>5, Zenon DEF StepTypeOK
      <3> QED
        BY <1>2, <1>6, <1>9, <2>1, <3>1 DEF RunPlaced, Stepping, OwnsRow, IsPool
    <2>2. CASE b # a
      <3>1. stepRuns'[b] = stepRuns[b]
        BY <1>0, <1>5, <2>2, Zenon DEF StepTypeOK
      <3>2. stepRuns[b].pc # "tx"
        BY <1>0, <1>1, <2>2, Zenon DEF RunPlaced, OwnsRow
      <3>3. stepRow'.state # "running" \/ stepRow'.owner # b
        BY <1>9, <2>2, Zenon
      <3> QED
        BY <1>0, <1>6, <3>1, <3>2, <3>3, ZenonT(30) DEF RunPlaced, Stepping, OwnsRow, IsPool
    <2> QED
      BY <2>1, <2>2, Zenon
  <1> QED
    BY <1>8, <1>10, <1>11, <1>12, <1>13, Zenon DEF StepInv

LEMMA StepKeeps == StepInv /\ [StepNext]_stepVars => StepInv'
  <1> SUFFICES ASSUME StepInv, [StepNext]_stepVars PROVE StepInv'
    BY Zenon
  <1>0. StepTypeOK /\ \A b \in StepAttempts : RunPlaced(b)
    BY Zenon DEF StepInv
  <1>1. CASE UNCHANGED stepVars
    BY Zenon, <1>1 DEF StepInv, stepVars, StepTypeOK, CursorPlaced, RunPlaced, Stepping, OwnsRow, IsPool,
       TxStepsCommitOnce, NoItemSkipped
  <1>2. CASE RescueStepRow
    BY <1>2, RescueStepKeeps, Zenon
  <1>3. ASSUME NEW a \in StepAttempts, RecordCursor(a) \/ RecordStep(a) PROVE StepInv'
    <2> DEFINE cursor == [step |-> stepRow.progress.step, cursor |-> stepRuns[a].item]
               step == [step |-> stepRuns[a].step, cursor |-> 0]
    <2>1. CASE ~OwnsRow(a)
      BY <1>3, <2>1, MoveKeeps, Zenon DEF RecordCursor, RecordStep, Record
    <2>2. CASE OwnsRow(a) /\ RecordCursor(a)
      <3>1. cursor \in Progress /\ cursor.step = stepRow.progress.step /\ cursor.cursor = stepRuns[a].item
        BY <1>0, RunFields, Zenon DEF Progress
      <3>2. Stepping(a) /\ IsPool(stepRuns[a].step) /\ Record(a, cursor)
        BY <1>0, <2>2, Zenon DEF RecordCursor, RunPlaced, Stepping
      <3> QED
        BY <2>2, <3>1, <3>2, RecordKeeps, Zenon
    <2>3. CASE OwnsRow(a) /\ RecordStep(a)
      <3>1. Stepping(a) /\ IsPool(stepRuns[a].step) /\ Record(a, step) /\ stepRuns[a].item = Items
        BY <2>3, Zenon DEF RecordStep, AtStep, IsPool, Stepping
      <3>2. step \in Progress /\ step.step = stepRuns[a].step /\ step.cursor = 0
        BY <3>1, StepsAssumption DEF Progress, IsPool, Steps
      <3> QED
        BY <2>3, <3>1, <3>2, RecordKeeps, Zenon
    <2> QED
      BY <1>3, <2>1, <2>2, <2>3, Zenon
  <1>4. ASSUME NEW a \in StepAttempts, BeginTx(a) \/ RollbackTx(a) \/ FailStep(a) PROVE StepInv'
    <2>1. CASE BeginTx(a)
      BY <2>1, MoveKeeps, Zenon DEF BeginTx, AtStep, IsPool
    <2>2. CASE RollbackTx(a) \/ FailStep(a)
      BY <2>2, MoveKeeps, Zenon DEF RollbackTx, FailStep
    <2> QED
      BY <1>4, <2>1, <2>2, Zenon
  <1>5. ASSUME NEW a \in StepAttempts, FinalizeSteps(a) PROVE StepInv'
    <2>1. CASE ~OwnsRow(a)
      BY <1>5, <2>1, MoveKeeps, Zenon DEF FinalizeSteps
    <2>2. CASE OwnsRow(a)
      <3>1. stepRuns[a].pc # "failed" => stepRow.progress.step = Len(Kinds)
        BY <1>0, <1>5, <2>2, RunFields DEF FinalizeSteps, RunPlaced, Stepping, Steps
      <3> QED
        BY <1>5, <2>2, <3>1, MoveKeeps, Zenon DEF FinalizeSteps, OwnsRow
    <2> QED
      BY <2>1, <2>2, Zenon
  <1> QED
    BY <1>1, <1>2, <1>3, <1>4, <1>5, StartKeeps, HandleKeeps, CommitKeeps, Zenon DEF StepNext

\* For any list of steps, any number of items and any number of attempts, which
\* may overlap, fail and not learn of their commits: a step that records in its
\* own transaction commits exactly once by the time the progress names it or
\* the job is complete, and no item of a pool step is skipped (steps.go,
\* complete.go, JobRecordProgress).
THEOREM StepsKept == StepSpec => []StepsExact
  <1>1. StepInv => StepsExact
    BY Zenon DEF StepInv, StepsExact
  <1> QED
    BY StepStart, StepKeeps, <1>1, PTL DEF StepSpec
-----------------------------------------------------------------------------
(* The queues' state.  A reading that may still be applied, one whose      *)
(* controlSeq is the current one, was taken after every change a caller    *)
(* was told of; and a reading whose controlSeq is newer than the first one *)
(* of a call was taken after that call's change.  So what is applied holds *)
(* the changes of the calls that return, of the one that applies it and of *)
(* those it overtakes.                                                     *)

Reading == [Queues -> Nat]
CallType == [pc : {"idle", "works", "begin", "list", "apply", "again"}, queue : Queues \cup {NoQueue},
             change : Nat, first : Nat, seq : Nat, reading : Reading, reads : Nat, adds : Nat]

QueueTypeOK ==
    /\ rows \in Reading /\ acked \in Reading
    /\ DOMAIN producers \subseteq Queues /\ producers \in [DOMAIN producers -> Nat]
    /\ seqs \in [control : Nat, appliedFrom : Nat]
    /\ calls \in [Goroutines -> CallType]
    /\ renewal \in [pc : {"idle", "renew", "apply"}, seq : Nat, reading : Reading]
    /\ adding \in [queue : Queues \cup {NoQueue}, reading : Reading]

\* The queue is worked and the call re-reads; it has read controlSeq.
Rereads(c) == c.pc \in {"begin", "list", "apply", "again"}
HasFirst(c) == c.pc \in {"list", "apply", "again"}

\* What is acknowledged or waited for is in the table.
ChangesStored ==
    /\ \A q \in Queues : acked[q] <= rows[q]
    /\ \A g \in Goroutines : calls[g].pc # "idle" =>
          calls[g].queue \in Queues /\ calls[g].change <= rows[calls[g].queue]

\* controlSeq only grows, and passes what was applied.
SeqsOrdered ==
    /\ seqs.appliedFrom < seqs.control \/ seqs.appliedFrom = 0
    /\ \A g \in Goroutines :
          /\ HasFirst(calls[g]) => calls[g].first <= seqs.control
          /\ calls[g].pc \in {"list", "apply"} => calls[g].first <= calls[g].seq /\ calls[g].seq <= seqs.control
    /\ renewal.pc # "idle" => renewal.seq <= seqs.control

\* A reading taken after controlSeq was seq has what it must have if applied.
Fresh(seq, reading) ==
    /\ seq = seqs.control => \A q \in DOMAIN producers : reading[q] >= acked[q]
    /\ \A g \in Goroutines : HasFirst(calls[g]) /\ seq > calls[g].first =>
          reading[calls[g].queue] >= calls[g].change
ReadingsFresh ==
    /\ \A g \in Goroutines : calls[g].pc = "apply" =>
          /\ Fresh(calls[g].seq, calls[g].reading)
          /\ calls[g].reading[calls[g].queue] >= calls[g].change
    /\ renewal.pc = "apply" => Fresh(renewal.seq, renewal.reading)

\* What a newer reading has overtaken is applied.
OvertakenApplied ==
    \A g \in Goroutines :
        HasFirst(calls[g]) /\ seqs.appliedFrom > calls[g].first /\ calls[g].queue \in DOMAIN producers =>
            producers[calls[g].queue] >= calls[g].change

\* While Queues().Add holds c.mu, its reading stays new enough to start with.
AddFresh ==
    ~MuFree => /\ adding.queue \in Queues
               /\ \A q \in Queues : adding.reading[q] >= acked[q]
               /\ \A g \in Goroutines : Rereads(calls[g]) => adding.reading[calls[g].queue] >= calls[g].change

\* A reading beyond the two was made possible by an Add.
ReadsPaid(c) ==
    /\ c.pc \in {"idle", "works", "begin"} => c.reads = 0
    /\ c.pc = "list" => c.reads <= 1 + c.adds
    /\ c.pc = "again" => c.reads <= 1 + c.adds /\ seqs.control > c.first
    /\ c.pc = "apply" => c.reads <= 2 + c.adds
    /\ (c.pc = "list" /\ c.reads = 1 + c.adds) \/ (c.pc = "apply" /\ c.reads = 2 + c.adds) =>
          c.seq > c.first /\ (c.seq = seqs.control \/ seqs.appliedFrom >= c.seq)

QueueInv ==
    /\ QueueTypeOK /\ ChangesStored /\ SeqsOrdered /\ ReadingsFresh /\ OvertakenApplied /\ AddFresh
    /\ ChangesStayApplied
    /\ \A g \in Goroutines : ReadsPaid(calls[g])

LEMMA QueueStart == QueueInit => QueueInv
  <1> SUFFICES ASSUME QueueInit PROVE QueueInv
    BY Zenon
  <1> USE QueuesAssumption
  <1>1. NoReading \in Reading
    BY Zenon DEF NoReading, Reading
  <1>2. NoCall \in CallType /\ NoCall.pc = "idle" /\ NoCall.reads = 0
    BY <1>1, Zenon DEF NoCall, CallType
  <1>3. \A g \in Goroutines : calls[g] = NoCall
    BY Zenon DEF QueueInit
  <1>4. PICK read \in {0, 1} : producers = [q \in Configured |-> read]
    BY Zenon DEF QueueInit
  <1>5. QueueTypeOK
    <2>1. rows \in Reading /\ acked \in Reading /\ seqs \in [control : Nat, appliedFrom : Nat]
      BY Zenon DEF QueueInit, Reading
    <2>2. calls \in [Goroutines -> CallType]
      BY <1>2, Zenon DEF QueueInit
    <2>3. DOMAIN producers \subseteq Queues /\ producers \in [DOMAIN producers -> Nat]
      BY <1>4
    <2>4. /\ renewal \in [pc : {"idle", "renew", "apply"}, seq : Nat, reading : Reading]
          /\ adding \in [queue : Queues \cup {NoQueue}, reading : Reading]
      BY <1>1, Zenon DEF QueueInit, NoRenewal, NoAdd
    <2> QED
      BY <2>1, <2>2, <2>3, <2>4, Zenon DEF QueueTypeOK
  <1>6. ChangesStored /\ ChangesStayApplied
    BY <1>2, <1>3, <1>4 DEF QueueInit, ChangesStored, ChangesStayApplied
  <1>7. SeqsOrdered
    BY <1>2, <1>3, Zenon DEF QueueInit, SeqsOrdered, HasFirst, NoRenewal
  <1>8. ReadingsFresh /\ OvertakenApplied /\ AddFresh
    BY <1>2, <1>3, Zenon DEF QueueInit, ReadingsFresh, OvertakenApplied, AddFresh, HasFirst, NoRenewal, MuFree
  <1>9. \A g \in Goroutines : ReadsPaid(calls[g])
    BY <1>2, <1>3, Zenon DEF ReadsPaid
  <1> QED
    BY <1>5, <1>6, <1>7, <1>8, <1>9, Zenon DEF QueueInv

\* What the types say of one call, and of the readings.
LEMMA CallFields ==
  ASSUME QueueTypeOK
  PROVE  /\ \A g \in Goroutines :
               /\ calls[g] \in CallType
               /\ calls[g].change \in Nat /\ calls[g].first \in Nat /\ calls[g].seq \in Nat
               /\ calls[g].reads \in Nat /\ calls[g].adds \in Nat
               /\ \A q \in Queues : calls[g].reading[q] \in Nat
         /\ renewal.seq \in Nat /\ \A q \in Queues : renewal.reading[q] \in Nat
         /\ \A q \in Queues : adding.reading[q] \in Nat /\ rows[q] \in Nat /\ acked[q] \in Nat
         /\ \A q \in DOMAIN producers : q \in Queues /\ producers[q] \in Nat
         /\ seqs.control \in Nat /\ seqs.appliedFrom \in Nat
  BY DEF QueueTypeOK, CallType, Reading

\* A goroutine's call goes on, and the table may change under it.
LEMMA CallMoves ==
  ASSUME QueueInv, NEW g \in Goroutines, NEW c \in CallType,
         calls' = [calls EXCEPT ![g] = c],
         rows' \in Reading, \A q \in Queues : rows[q] <= rows'[q],
         UNCHANGED <<producers, seqs, renewal, adding, acked>>,
         c.pc # "idle" => c.queue \in Queues /\ c.change <= rows'[c.queue],
         Rereads(c) => \/ MuFree
                       \/ Rereads(calls[g]) /\ c.queue = calls[g].queue /\ c.change = calls[g].change,
         HasFirst(c) => \/ c.first = seqs.control
                        \/ /\ HasFirst(calls[g]) /\ c.queue = calls[g].queue
                           /\ c.change = calls[g].change /\ c.first = calls[g].first,
         c.pc \in {"list", "apply"} => c.first <= c.seq /\ c.seq <= seqs.control,
         c.pc = "apply" => c.reading = rows /\ rows' = rows,
         ReadsPaid(c)
  PROVE  QueueInv'
  <1>0. /\ QueueTypeOK /\ ChangesStored /\ SeqsOrdered /\ ReadingsFresh /\ OvertakenApplied /\ AddFresh
        /\ ChangesStayApplied /\ \A h \in Goroutines : ReadsPaid(calls[h])
    BY Zenon DEF QueueInv
  <1>1. \A h \in Goroutines : calls'[h] = IF h = g THEN c ELSE calls[h]
    BY <1>0, Zenon DEF QueueTypeOK
  <1>2. QueueTypeOK'
    BY <1>0, Zenon DEF QueueTypeOK
  <1>3. c.first \in Nat /\ c.seq \in Nat /\ c.change \in Nat
    BY Zenon DEF CallType
  <1>4. \A q \in Queues : rows'[q] \in Nat
    BY Zenon DEF Reading
  <1>5. ChangesStored'
    BY <1>0, <1>1, <1>4, CallFields DEF ChangesStored
  <1>6. SeqsOrdered'
    BY <1>0, <1>1, <1>3, CallFields DEF SeqsOrdered, HasFirst
  <1>7. ASSUME NEW seq \in Nat, NEW reading, Fresh(seq, reading), seq <= seqs.control
        PROVE  Fresh(seq, reading)'
    BY <1>0, <1>1, <1>3, <1>7, CallFields DEF Fresh, HasFirst
  <1>8. ReadingsFresh'
    <2>1. renewal.pc = "apply" => Fresh(renewal.seq, renewal.reading)'
      BY <1>0, <1>7, CallFields, Zenon DEF ReadingsFresh, SeqsOrdered
    <2>2. ASSUME NEW h \in Goroutines, h # g, calls[h].pc = "apply"
          PROVE  Fresh(calls[h].seq, calls[h].reading)' /\ calls[h].reading[calls[h].queue] >= calls[h].change
      <3>1. Fresh(calls[h].seq, calls[h].reading) /\ calls[h].seq <= seqs.control /\ calls[h].seq \in Nat
        BY <1>0, <2>2, CallFields, Zenon DEF ReadingsFresh, SeqsOrdered
      <3>2. \A n \in Nat : \A r : Fresh(n, r) /\ n <= seqs.control => Fresh(n, r)'
        BY <1>7, Zenon
      <3>3. PICK n, r : n \in Nat /\ n = calls[h].seq /\ r = calls[h].reading
        BY <3>1, Zenon
      <3>4. calls'[h].seq = n /\ calls'[h].reading = r
        BY <1>1, <2>2, <3>3, Zenon
      <3> QED
        BY <1>0, <2>2, <3>1, <3>2, <3>3, <3>4, Zenon DEF ReadingsFresh
    <2>3. c.pc = "apply" => Fresh(c.seq, c.reading)' /\ c.reading[c.queue] >= c.change
      <3> SUFFICES ASSUME c.pc = "apply" PROVE Fresh(c.seq, c.reading)' /\ c.reading[c.queue] >= c.change
        BY Zenon
      <3>1. c.reading = rows /\ rows' = rows
        BY Zenon
      <3>2. \A q \in DOMAIN producers : rows[q] >= acked[q]
        BY <1>0, CallFields, Zenon DEF ChangesStored
      <3>3. \A h \in Goroutines : HasFirst(calls'[h]) => rows[calls'[h].queue] >= calls'[h].change
        BY <1>1, <1>5, <3>1, CallFields, <1>2, Zenon DEF ChangesStored, HasFirst, QueueTypeOK, CallType, Reading
      <3>4. c.reading[c.queue] >= c.change
        BY <1>3, <1>4, <3>1, Zenon
      <3> QED
        BY <3>1, <3>2, <3>3, <3>4, Zenon DEF Fresh
    <2>4. ASSUME NEW h \in Goroutines, calls'[h].pc = "apply"
          PROVE  Fresh(calls[h].seq, calls[h].reading)' /\ calls'[h].reading[calls'[h].queue] >= calls'[h].change
      <3>1. CASE h = g
        <4>1. calls'[h] = c
          BY <1>1, <3>1, Zenon
        <4> QED
          BY <2>3, <2>4, <4>1, Zenon DEF Fresh
      <3>2. CASE h # g
        <4>1. calls'[h] = calls[h]
          BY <1>1, <3>2, Zenon
        <4> QED
          BY <2>2, <2>4, <3>2, <4>1, Zenon
      <3> QED
        BY <3>1, <3>2, Zenon
    <2> QED
      BY <2>1, <2>4, Zenon DEF ReadingsFresh
  <1>9. OvertakenApplied'
    BY <1>0, <1>1, <1>3, CallFields DEF OvertakenApplied, HasFirst, SeqsOrdered
  <1>10. AddFresh'
    BY <1>0, <1>1 DEF AddFresh, Rereads, MuFree
  <1>11. ChangesStayApplied' /\ \A h \in Goroutines : ReadsPaid(calls[h])'
    BY <1>0, <1>1 DEF ChangesStayApplied, ReadsPaid
  <1> QED
    BY <1>2, <1>5, <1>6, <1>8, <1>9, <1>10, <1>11, Zenon DEF QueueInv

\* Another client writes the table.
LEMMA ElsewhereKeeps ==
  ASSUME QueueInv, NEW q \in Queues, ChangeElsewhere(q)
  PROVE  QueueInv'
  <1>0. /\ QueueTypeOK /\ ChangesStored /\ SeqsOrdered /\ ReadingsFresh /\ OvertakenApplied /\ AddFresh
        /\ ChangesStayApplied /\ \A h \in Goroutines : ReadsPaid(calls[h])
    BY Zenon DEF QueueInv
  <1>1. rows' \in Reading /\ \A p \in Queues : rows[p] <= rows'[p]
    BY <1>0 DEF ChangeElsewhere, QueueTypeOK, Reading
  <1>2. UNCHANGED <<producers, seqs, calls, renewal, adding, acked>>
    BY Zenon DEF ChangeElsewhere
  <1>3. QueueTypeOK'
    BY <1>0, <1>1, <1>2, Zenon DEF QueueTypeOK
  <1>4. ChangesStored'
    BY <1>0, <1>1, <1>2, <1>3, CallFields DEF ChangesStored, QueueTypeOK, Reading
  <1>5. /\ SeqsOrdered' /\ ReadingsFresh' /\ OvertakenApplied' /\ AddFresh'
        /\ ChangesStayApplied' /\ \A h \in Goroutines : ReadsPaid(calls[h])'
    BY Zenon, <1>0, <1>2 DEF SeqsOrdered, ReadingsFresh, Fresh, OvertakenApplied, AddFresh, MuFree,
       ChangesStayApplied, ReadsPaid
  <1> QED
    BY <1>3, <1>4, <1>5, Zenon DEF QueueInv

\* Queues().Add reads the table and gives up; Remove takes a producer out.
LEMMA AddKeeps ==
  ASSUME QueueInv, NEW q \in Queues, Add(q) \/ AddFails \/ RemoveQueue(q)
  PROVE  QueueInv'
  <1>0. /\ QueueTypeOK /\ ChangesStored /\ SeqsOrdered /\ ReadingsFresh /\ OvertakenApplied /\ AddFresh
        /\ ChangesStayApplied /\ \A h \in Goroutines : ReadsPaid(calls[h])
    BY Zenon DEF QueueInv
  <1>1. UNCHANGED <<rows, seqs, calls, renewal, acked>>
    BY Zenon DEF Add, AddFails, RemoveQueue
  <1>2. adding' = adding \/ adding' = NoAdd \/ adding' = [queue |-> q, reading |-> rows]
    BY Zenon DEF Add, AddFails, RemoveQueue
  <1>3. producers' = producers \/ producers' = [p \in DOMAIN producers \ {q} |-> producers[p]]
    BY Zenon DEF Add, AddFails, RemoveQueue
  <1>4. DOMAIN producers' \subseteq DOMAIN producers /\ \A p \in DOMAIN producers' : producers'[p] = producers[p]
    BY <1>3, Zenon
  <1>5. QueueTypeOK'
    <2>1. producers' \in [DOMAIN producers' -> Nat]
      BY <1>0, <1>3, Zenon DEF QueueTypeOK
    <2>2. adding' \in [queue : Queues \cup {NoQueue}, reading : Reading]
      BY <1>0, <1>2 DEF QueueTypeOK, NoAdd, NoReading, Reading
    <2> QED
      BY <1>0, <1>1, <1>4, <2>1, <2>2, Zenon DEF QueueTypeOK
  <1>6. ChangesStored' /\ SeqsOrdered' /\ \A h \in Goroutines : ReadsPaid(calls[h])'
    BY <1>0, <1>1, Zenon DEF ChangesStored, SeqsOrdered, ReadsPaid
  <1>7. ReadingsFresh' /\ OvertakenApplied' /\ ChangesStayApplied'
    BY <1>0, <1>1, <1>4, Zenon DEF ReadingsFresh, Fresh, OvertakenApplied, ChangesStayApplied
  <1>8. AddFresh'
    <2>1. CASE adding' = NoAdd
      BY <2>1, Zenon DEF AddFresh, MuFree
    <2>2. CASE adding' = adding
      BY <1>0, <1>1, <2>2, Zenon DEF AddFresh, MuFree
    <2>3. CASE adding' = [queue |-> q, reading |-> rows]
      BY <1>0, <1>1, <2>3, CallFields, ZenonT(30) DEF AddFresh, ChangesStored, Rereads
    <2> QED
      BY <1>2, <2>1, <2>2, <2>3, Zenon
  <1> QED
    BY <1>5, <1>6, <1>7, <1>8, Zenon DEF QueueInv

\* The lease loop reads controlSeq, and then the table.
LEMMA RenewKeeps ==
  ASSUME QueueInv, RenewBegin \/ Renew
  PROVE  QueueInv'
  <1>0. /\ QueueTypeOK /\ ChangesStored /\ SeqsOrdered /\ ReadingsFresh /\ OvertakenApplied /\ AddFresh
        /\ ChangesStayApplied /\ \A h \in Goroutines : ReadsPaid(calls[h])
    BY Zenon DEF QueueInv
  <1>1. UNCHANGED <<rows, producers, seqs, calls, adding, acked>>
    BY Zenon DEF RenewBegin, Renew
  <1>2. \/ renewal'.pc = "renew" /\ renewal'.seq = seqs.control
        \/ /\ renewal.pc = "renew" /\ renewal'.pc = "apply"
           /\ renewal'.seq = renewal.seq /\ renewal'.reading = rows
    BY <1>0, Zenon DEF RenewBegin, Renew, QueueTypeOK
  <1>3. QueueTypeOK'
    BY <1>0, <1>1, ZenonT(30) DEF QueueTypeOK, RenewBegin, Renew
  <1>4. /\ ChangesStored' /\ OvertakenApplied' /\ ChangesStayApplied' /\ AddFresh'
        /\ \A h \in Goroutines : ReadsPaid(calls[h])'
    BY <1>0, <1>1, Zenon DEF ChangesStored, OvertakenApplied, ChangesStayApplied, AddFresh, MuFree, ReadsPaid
  <1>5. SeqsOrdered'
    BY <1>0, <1>1, <1>2, CallFields DEF SeqsOrdered
  <1>6. Fresh(renewal.seq, rows)
    BY <1>0, CallFields, Zenon DEF Fresh, ChangesStored, HasFirst
  <1>7. ReadingsFresh'
    BY <1>0, <1>1, <1>2, <1>6, Zenon DEF ReadingsFresh, Fresh
  <1> QED
    BY <1>3, <1>4, <1>5, <1>7, Zenon DEF QueueInv

\* A call returns for a change that is applied, or is of a queue that is not
\* worked here.
LEMMA ReturnKeeps ==
  ASSUME QueueInv, NEW g \in Goroutines, calls[g].pc # "idle", MuFree, Returned(g),
         \/ calls[g].queue \notin DOMAIN producers
         \/ HasFirst(calls[g]) /\ seqs.appliedFrom > calls[g].first,
         UNCHANGED <<rows, producers, seqs, renewal, adding>>
  PROVE  QueueInv'
  <1>0. /\ QueueTypeOK /\ ChangesStored /\ SeqsOrdered /\ ReadingsFresh /\ OvertakenApplied /\ AddFresh
        /\ ChangesStayApplied /\ \A h \in Goroutines : ReadsPaid(calls[h])
    BY Zenon DEF QueueInv
  <1> DEFINE w == calls[g].queue
             n == calls[g].change
  <1>1. w \in Queues /\ n <= rows[w] /\ n \in Nat
    BY <1>0, CallFields, Zenon DEF ChangesStored
  <1>2. \A h \in Goroutines : calls'[h] = IF h = g THEN NoCall ELSE calls[h]
    BY <1>0, Zenon DEF Returned, QueueTypeOK
  <1>3. NoCall \in CallType /\ NoCall.pc = "idle" /\ NoCall.reads = 0
    BY Zenon DEF NoCall, CallType, NoReading, Reading
  <1>4. acked' = [acked EXCEPT ![w] = Larger(@, n)]
    BY Zenon DEF Returned
  <1>5. \A q \in Queues : acked'[q] = IF q = w THEN Larger(acked[w], n) ELSE acked[q]
    BY <1>0, <1>4, Zenon DEF QueueTypeOK, Reading
  <1>6. Larger(acked[w], n) \in {acked[w], n}
    BY Zenon DEF Larger
  <1>7. QueueTypeOK'
    <2>1. Larger(acked[w], n) \in Nat
      BY <1>0, <1>1, <1>6, CallFields, Zenon
    <2>2. acked' \in Reading
      BY <1>0, <1>4, <2>1, Zenon DEF QueueTypeOK, Reading
    <2>3. calls' \in [Goroutines -> CallType]
      BY <1>0, <1>3, Zenon DEF QueueTypeOK, Returned
    <2> QED
      BY <1>0, <2>2, <2>3, Zenon DEF QueueTypeOK
  <1>8. ChangesStored'
    BY <1>0, <1>1, <1>2, <1>3, <1>5, <1>6, Zenon DEF ChangesStored
  <1>9. SeqsOrdered' /\ OvertakenApplied' /\ \A h \in Goroutines : ReadsPaid(calls[h])'
    BY <1>0, <1>2, <1>3, ZenonT(30) DEF SeqsOrdered, OvertakenApplied, ReadsPaid, HasFirst
  <1>10. AddFresh'
    BY Zenon DEF AddFresh, MuFree
  <1>11. ChangesStayApplied'
    BY <1>0, <1>1, <1>5, <1>6, CallFields, ZenonT(30) DEF ChangesStayApplied, OvertakenApplied
  <1>12. ASSUME NEW seq \in Nat, NEW reading, Fresh(seq, reading), seq <= seqs.control
         PROVE  Fresh(seq, reading)'
    <2>1. seq = seqs.control /\ w \in DOMAIN producers => reading[w] >= n
      BY <1>0, <1>12, CallFields DEF Fresh, SeqsOrdered
    <2>2. seq = seqs.control => \A q \in DOMAIN producers : reading[q] >= acked'[q]
      BY <1>5, <1>6, <1>12, <2>1, CallFields, <1>0, Zenon DEF Fresh
    <2> QED
      BY <1>2, <1>3, <1>12, <2>2, ZenonT(30) DEF Fresh, HasFirst
  <1>13. ReadingsFresh'
    <2>1. renewal.pc = "apply" => Fresh(renewal.seq, renewal.reading)'
      BY <1>0, <1>12, CallFields, Zenon DEF ReadingsFresh, SeqsOrdered
    <2>2. ASSUME NEW h \in Goroutines, calls'[h].pc = "apply"
          PROVE  Fresh(calls[h].seq, calls[h].reading)' /\ calls'[h].reading[calls'[h].queue] >= calls'[h].change
      <3>1. calls'[h] = calls[h]
        BY <1>2, <1>3, <2>2, Zenon
      <3>2. Fresh(calls[h].seq, calls[h].reading) /\ calls[h].seq <= seqs.control /\ calls[h].seq \in Nat
        BY <1>0, <2>2, <3>1, CallFields, Zenon DEF ReadingsFresh, SeqsOrdered
      <3>3. \A k \in Nat : \A r : Fresh(k, r) /\ k <= seqs.control => Fresh(k, r)'
        BY <1>12, Zenon
      <3>4. PICK k, r : k \in Nat /\ k = calls[h].seq /\ r = calls[h].reading
        BY <3>2, Zenon
      <3> QED
        BY <1>0, <2>2, <3>1, <3>2, <3>3, <3>4, Zenon DEF ReadingsFresh
    <2> QED
      BY <2>1, <2>2, Zenon DEF ReadingsFresh
  <1> QED
    BY <1>7, <1>8, <1>9, <1>10, <1>11, <1>13, Zenon DEF QueueInv

\* A reading is applied, by a renewal or by a call that returns with it.
LEMMA ApplyKeeps ==
  ASSUME QueueInv, MuFree, NEW seq \in Nat, NEW reading \in Reading, Fresh(seq, reading),
         ApplyQueueState(seq, reading), UNCHANGED <<rows, adding>>,
         \/ UNCHANGED <<calls, acked>> /\ renewal' = NoRenewal
         \/ \E g \in Goroutines : /\ calls[g].pc = "apply" /\ reading = calls[g].reading
                                  /\ Returned(g) /\ UNCHANGED renewal
  PROVE  QueueInv'
  <1>0. /\ QueueTypeOK /\ ChangesStored /\ SeqsOrdered /\ ReadingsFresh /\ OvertakenApplied /\ AddFresh
        /\ ChangesStayApplied /\ \A h \in Goroutines : ReadsPaid(calls[h])
    BY Zenon DEF QueueInv
  <1>1. NoCall \in CallType /\ NoCall.pc = "idle" /\ NoCall.reads = 0
    BY Zenon DEF NoCall, CallType, NoReading, Reading
  <1>2. seqs.control = seq /\ seqs'.control = seq + 1 /\ seqs'.appliedFrom = seq
    BY Zenon DEF ApplyQueueState
  <1>3. DOMAIN producers' = DOMAIN producers /\ \A q \in DOMAIN producers : producers'[q] = reading[q]
    BY Zenon DEF ApplyQueueState, SetQueueState
  <1>4. calls' \in [Goroutines -> CallType] /\ \A h \in Goroutines : calls'[h] \in {calls[h], NoCall}
    <2>1. CASE calls' = calls
      BY <1>0, <2>1, Zenon DEF QueueTypeOK
    <2>2. ASSUME NEW g \in Goroutines, Returned(g)
          PROVE  calls' \in [Goroutines -> CallType] /\ \A h \in Goroutines : calls'[h] \in {calls[h], NoCall}
      BY <1>0, <1>1, <2>2, Zenon DEF QueueTypeOK, Returned
    <2> QED
      BY <2>1, <2>2, Zenon
  <1>5. /\ acked' \in Reading
        /\ \A q \in Queues : acked'[q] <= rows[q]
        /\ \A q \in DOMAIN producers : reading[q] >= acked'[q]
    <2>1. \A q \in DOMAIN producers : reading[q] >= acked[q]
      BY <1>2, Zenon DEF Fresh
    <2>2. CASE acked' = acked
      BY <1>0, <2>1, <2>2, Zenon DEF QueueTypeOK, ChangesStored
    <2>3. ASSUME NEW g \in Goroutines, calls[g].pc = "apply", reading = calls[g].reading, Returned(g)
          PROVE  <1>5!1 /\ <1>5!2 /\ <1>5!3
      <3> DEFINE w == calls[g].queue
                 n == calls[g].change
      <3>1. w \in Queues /\ n <= rows[w] /\ n \in Nat /\ reading[w] >= n
        BY <1>0, <2>3, CallFields, Zenon DEF ChangesStored, ReadingsFresh
      <3>2. acked' = [acked EXCEPT ![w] = Larger(@, n)] /\ Larger(acked[w], n) \in {acked[w], n}
        BY <2>3, Zenon DEF Returned, Larger
      <3>3. acked' \in Reading
        BY <1>0, <3>1, <3>2, CallFields, Zenon DEF QueueTypeOK, Reading
      <3>4. \A q \in Queues : acked'[q] \in {acked[q], IF q = w THEN n ELSE acked[q]}
        BY <1>0, <3>2, Zenon DEF QueueTypeOK, Reading
      <3> QED
        BY <1>0, <2>1, <3>1, <3>3, <3>4, Zenon DEF ChangesStored, QueueTypeOK
    <2> QED
      BY <2>2, <2>3, Zenon
  <1>6. QueueTypeOK'
    <2>1. seqs' \in [control : Nat, appliedFrom : Nat]
      BY <1>0, CallFields DEF ApplyQueueState
    <2>2. producers' \in [DOMAIN producers' -> Nat] /\ DOMAIN producers' \subseteq Queues
      BY <1>0, Zenon DEF QueueTypeOK, ApplyQueueState, SetQueueState, Reading
    <2>3. renewal' \in [pc : {"idle", "renew", "apply"}, seq : Nat, reading : Reading]
      BY <1>0 DEF QueueTypeOK, NoRenewal, NoReading, Reading
    <2> QED
      BY <1>0, <1>4, <1>5, <2>1, <2>2, <2>3, Zenon DEF QueueTypeOK
  <1>7. ChangesStored'
    BY <1>0, <1>1, <1>4, <1>5, ZenonT(30) DEF ChangesStored
  <1>8. SeqsOrdered'
    BY <1>0, <1>1, <1>2, <1>4, CallFields DEF SeqsOrdered, HasFirst, NoRenewal
  <1>9. ASSUME NEW k \in Nat, NEW r, Fresh(k, r), k <= seqs.control
        PROVE  Fresh(k, r)'
    BY <1>1, <1>2, <1>4, <1>9 DEF Fresh, HasFirst
  <1>10. ReadingsFresh'
    <2>1. renewal'.pc = "apply" => Fresh(renewal.seq, renewal.reading)'
      BY <1>0, <1>9, <1>2, CallFields DEF ReadingsFresh, SeqsOrdered, NoRenewal
    <2>2. ASSUME NEW h \in Goroutines, calls'[h].pc = "apply"
          PROVE  Fresh(calls[h].seq, calls[h].reading)' /\ calls'[h].reading[calls'[h].queue] >= calls'[h].change
      <3>1. /\ calls[h].pc = "apply" /\ calls'[h].seq = calls[h].seq /\ calls'[h].reading = calls[h].reading
            /\ calls'[h].queue = calls[h].queue /\ calls'[h].change = calls[h].change
        BY <1>1, <1>4, <2>2, Zenon
      <3>2. Fresh(calls[h].seq, calls[h].reading) /\ calls[h].seq <= seqs.control /\ calls[h].seq \in Nat
        BY <1>0, <3>1, CallFields, Zenon DEF ReadingsFresh, SeqsOrdered
      <3>3. \A k \in Nat : \A r : Fresh(k, r) /\ k <= seqs.control => Fresh(k, r)'
        BY <1>9, Zenon
      <3>4. PICK k, r : k \in Nat /\ k = calls[h].seq /\ r = calls[h].reading
        BY <3>2, Zenon
      <3> QED
        BY <1>0, <3>1, <3>2, <3>3, <3>4, Zenon DEF ReadingsFresh
    <2> QED
      BY <2>1, <2>2, Zenon DEF ReadingsFresh
  <1>11. OvertakenApplied'
    BY <1>0, <1>1, <1>2, <1>3, <1>4, CallFields, ZenonT(30) DEF OvertakenApplied, HasFirst, Fresh
  <1>12. AddFresh' /\ ChangesStayApplied'
    BY <1>3, <1>5, Zenon DEF AddFresh, MuFree, ChangesStayApplied
  <1>13. ASSUME NEW h \in Goroutines PROVE ReadsPaid(calls[h])'
    <2>1. CASE calls'[h] = NoCall
      BY <1>1, <2>1, Zenon DEF ReadsPaid
    <2>2. CASE calls'[h] = calls[h]
      <3>1. ReadsPaid(calls[h])
        BY <1>0, Zenon
      <3>2. calls[h].pc \in {"list", "apply"} => calls[h].seq <= seqs.control
        BY <1>0, Zenon DEF SeqsOrdered
      <3> QED
        BY <1>0, <1>2, <2>2, <3>1, <3>2, CallFields DEF ReadsPaid
    <2> QED
      BY <1>4, <2>1, <2>2, Zenon
  <1> QED
    BY <1>6, <1>7, <1>8, <1>10, <1>11, <1>12, <1>13, Zenon DEF QueueInv

\* Queues().Add starts its producer.
LEMMA AddStartsKeeps ==
  ASSUME QueueInv, AddStarts
  PROVE  QueueInv'
  <1>0. /\ QueueTypeOK /\ ChangesStored /\ SeqsOrdered /\ ReadingsFresh /\ OvertakenApplied /\ AddFresh
        /\ ChangesStayApplied /\ \A h \in Goroutines : ReadsPaid(calls[h])
    BY Zenon DEF QueueInv
  <1> DEFINE w == adding.queue
  <1>1. /\ w \in Queues /\ (\A q \in Queues : adding.reading[q] >= acked[q])
        /\ \A g \in Goroutines : Rereads(calls[g]) => adding.reading[calls[g].queue] >= calls[g].change
    BY <1>0, Zenon DEF AddStarts, AddFresh
  <1>2. UNCHANGED <<rows, renewal, acked>> /\ adding' = NoAdd
    BY Zenon DEF AddStarts
  <1>3. seqs'.control = seqs.control + 1 /\ seqs'.appliedFrom = seqs.appliedFrom
    BY <1>0, Zenon DEF AddStarts, QueueTypeOK
  <1>4. /\ DOMAIN producers' = DOMAIN producers \cup {w}
        /\ \A q \in DOMAIN producers' : producers'[q] = IF q = w THEN adding.reading[q] ELSE producers[q]
    BY Zenon DEF AddStarts
  <1>5. \A h \in Goroutines :
          /\ calls'[h].pc = calls[h].pc /\ calls'[h].queue = calls[h].queue /\ calls'[h].change = calls[h].change
          /\ calls'[h].first = calls[h].first /\ calls'[h].seq = calls[h].seq
          /\ calls'[h].reading = calls[h].reading /\ calls'[h].reads = calls[h].reads
          /\ calls'[h].adds = IF HasFirst(calls[h]) THEN calls[h].adds + 1 ELSE calls[h].adds
          /\ calls'[h] \in CallType
    <2> TAKE h \in Goroutines
    <2>1. calls[h] \in CallType
      BY <1>0, Zenon DEF QueueTypeOK
    <2>2. calls'[h] = IF HasFirst(calls[h]) THEN [calls[h] EXCEPT !.adds = @ + 1] ELSE calls[h]
      BY <2>1, Zenon DEF AddStarts, HasFirst, CallType
    <2> QED
      BY <2>1, <2>2 DEF CallType
  <1>6. QueueTypeOK'
    <2>1. calls' \in [Goroutines -> CallType]
      BY <1>5, Zenon DEF AddStarts
    <2>2. producers' \in [DOMAIN producers' -> Nat] /\ DOMAIN producers' \subseteq Queues
      BY <1>0, <1>1, <1>4, CallFields, Zenon DEF AddStarts, QueueTypeOK
    <2>3. seqs' \in [control : Nat, appliedFrom : Nat]
      BY <1>0 DEF AddStarts, QueueTypeOK
    <2>4. adding' \in [queue : Queues \cup {NoQueue}, reading : Reading]
      BY <1>2, Zenon DEF NoAdd, NoReading, Reading
    <2> QED
      BY <1>0, <1>2, <2>1, <2>2, <2>3, <2>4, Zenon DEF QueueTypeOK
  <1>7. ChangesStored'
    BY <1>0, <1>2, <1>5, ZenonT(30) DEF ChangesStored
  <1>8. SeqsOrdered'
    BY <1>0, <1>2, <1>3, <1>5, CallFields DEF SeqsOrdered, HasFirst
  <1>9. ASSUME NEW k \in Nat, NEW r, Fresh(k, r), k <= seqs.control
        PROVE  Fresh(k, r)'
    BY <1>0, <1>3, <1>5, <1>9, CallFields DEF Fresh, HasFirst
  <1>10. ReadingsFresh'
    <2>1. renewal'.pc = "apply" => Fresh(renewal.seq, renewal.reading)'
      BY <1>0, <1>9, <1>2, CallFields, ZenonT(30) DEF ReadingsFresh, SeqsOrdered, NoRenewal
    <2>2. ASSUME NEW h \in Goroutines, calls'[h].pc = "apply"
          PROVE  Fresh(calls[h].seq, calls[h].reading)' /\ calls'[h].reading[calls'[h].queue] >= calls'[h].change
      <3>1. /\ calls[h].pc = "apply" /\ calls'[h].seq = calls[h].seq /\ calls'[h].reading = calls[h].reading
            /\ calls'[h].queue = calls[h].queue /\ calls'[h].change = calls[h].change
        BY <1>5, <2>2, Zenon
      <3>2. Fresh(calls[h].seq, calls[h].reading) /\ calls[h].seq <= seqs.control /\ calls[h].seq \in Nat
        BY <1>0, <3>1, CallFields, Zenon DEF ReadingsFresh, SeqsOrdered
      <3>3. \A k \in Nat : \A r : Fresh(k, r) /\ k <= seqs.control => Fresh(k, r)'
        BY <1>9, Zenon
      <3>4. PICK k, r : k \in Nat /\ k = calls[h].seq /\ r = calls[h].reading
        BY <3>2, ZenonT(30)
      <3> QED
        BY <1>0, <3>1, <3>2, <3>3, <3>4, Zenon DEF ReadingsFresh
    <2> QED
      BY <2>1, <2>2, Zenon DEF ReadingsFresh
  <1>11. OvertakenApplied'
    BY <1>0, <1>1, <1>3, <1>4, <1>5 DEF OvertakenApplied, HasFirst, Rereads
  <1>12. AddFresh' /\ ChangesStayApplied'
    BY <1>0, <1>1, <1>2, <1>4, ZenonT(30) DEF AddFresh, MuFree, ChangesStayApplied
  <1>13. \A h \in Goroutines : ReadsPaid(calls[h])'
    BY <1>0, <1>3, <1>5, CallFields DEF ReadsPaid, HasFirst
  <1> QED
    BY <1>6, <1>7, <1>8, <1>10, <1>11, <1>12, <1>13, Zenon DEF QueueInv

\* The fields of the calls the actions write.
BegunFor(q, n) == [NoCall EXCEPT !.pc = "works", !.queue = q, !.change = n]
MovedTo(c, pc) == [c EXCEPT !.pc = pc]
WithSeq(c, m, n) == [c EXCEPT !.pc = "list", !.seq = m, !.first = n]
WithReading(c, r) == [c EXCEPT !.pc = "apply", !.reading = r, !.reads = @ + 1]

LEMMA NoCallFields == NoCall \in CallType /\ NoCall.pc = "idle" /\ NoCall.reads = 0
  BY Zenon DEF NoCall, CallType, NoReading, Reading
LEMMA BegunFields ==
  ASSUME NEW q \in Queues, NEW n \in Nat
  PROVE  /\ BegunFor(q, n) \in CallType /\ BegunFor(q, n).pc = "works"
         /\ BegunFor(q, n).queue = q /\ BegunFor(q, n).change = n /\ BegunFor(q, n).reads = 0
  <1>1. NoReading \in Reading
    BY Zenon DEF NoReading, Reading
  <1> QED
    BY <1>1, Zenon DEF BegunFor, NoCall, CallType
LEMMA MovedFields ==
  ASSUME NEW c \in CallType, NEW pc \in {"begin", "again"}
  PROVE  /\ MovedTo(c, pc) \in CallType /\ MovedTo(c, pc).pc = pc
         /\ MovedTo(c, pc).queue = c.queue /\ MovedTo(c, pc).change = c.change
         /\ MovedTo(c, pc).first = c.first /\ MovedTo(c, pc).reads = c.reads /\ MovedTo(c, pc).adds = c.adds
  BY Zenon DEF MovedTo, CallType
LEMMA SeqFields ==
  ASSUME NEW c \in CallType, NEW m \in Nat, NEW n \in Nat
  PROVE  /\ WithSeq(c, m, n) \in CallType /\ WithSeq(c, m, n).pc = "list"
         /\ WithSeq(c, m, n).queue = c.queue /\ WithSeq(c, m, n).change = c.change
         /\ WithSeq(c, m, n).first = n /\ WithSeq(c, m, n).seq = m
         /\ WithSeq(c, m, n).reads = c.reads /\ WithSeq(c, m, n).adds = c.adds
  BY Zenon DEF WithSeq, CallType
LEMMA ReadingFields ==
  ASSUME NEW c \in CallType, NEW r \in Reading
  PROVE  /\ WithReading(c, r) \in CallType /\ WithReading(c, r).pc = "apply" /\ WithReading(c, r).reading = r
         /\ WithReading(c, r).queue = c.queue /\ WithReading(c, r).change = c.change
         /\ WithReading(c, r).first = c.first /\ WithReading(c, r).seq = c.seq
         /\ WithReading(c, r).reads = c.reads + 1 /\ WithReading(c, r).adds = c.adds
  <1>1. c.reads + 1 \in Nat
    BY DEF CallType
  <1> QED
    BY <1>1, Zenon DEF WithReading, CallType

\* A change commits, or a notification names one: the call begins.
LEMMA CallBegins ==
  ASSUME QueueInv, NEW g \in Goroutines, NEW q \in Queues,
         (Change(g, q) /\ g \in Callers) \/ (Control(q) /\ g = Listener)
  PROVE  QueueInv'
  <1> DEFINE n == IF Change(g, q) THEN rows[q] + 1 ELSE rows[q]
             c == BegunFor(q, n)
  <1>0. QueueTypeOK
    BY Zenon DEF QueueInv
  <1>1. UNCHANGED <<producers, seqs, renewal, adding, acked>>
    BY Zenon DEF Change, Control
  <1>2. rows' = IF Change(g, q) THEN [rows EXCEPT ![q] = @ + 1] ELSE rows
    BY Zenon DEF Change, Control
  <1>3. rows' \in Reading /\ n \in Nat /\ n = rows'[q] /\ \A p \in Queues : rows[p] <= rows'[p]
    BY <1>0, <1>2 DEF QueueTypeOK, Reading
  <1>4. calls' = [calls EXCEPT ![g] = c]
    BY Zenon DEF Change, Control, BegunFor
  <1>5. calls[g] \in CallType
    BY <1>0, Zenon DEF QueueTypeOK
  <1>6. c \in CallType /\ c.pc = "works" /\ c.queue = q /\ c.change = n /\ c.reads = 0
    <2> HIDE DEF n
    <2> QED
      BY <1>3, BegunFields
  <1> HIDE DEF c, n
  <1>7. ReadsPaid(c) /\ ~Rereads(c) /\ ~HasFirst(c) /\ c.pc \notin {"list", "apply"} /\ c.change <= rows'[c.queue]
    BY <1>3, <1>6 DEF ReadsPaid, Rereads, HasFirst
  <1> QED
    BY <1>1, <1>3, <1>4, <1>6, <1>7, CallMoves, Zenon

\* refreshQueue decides, and refreshQueueState reads controlSeq.
LEMMA CallReads ==
  ASSUME QueueInv, NEW g \in Goroutines, RefreshQueue(g) \/ ReadSeq(g) \/ List(g) \/ ListFails(g)
  PROVE  QueueInv'
  <1>0. QueueTypeOK /\ ChangesStored /\ SeqsOrdered /\ ReadsPaid(calls[g])
    BY Zenon DEF QueueInv
  <1>1. /\ calls[g] \in CallType /\ rows \in Reading /\ \A q \in Queues : rows[q] <= rows[q]
        /\ calls[g].first \in Nat /\ calls[g].seq \in Nat /\ seqs.control \in Nat
        /\ calls[g].reads \in Nat /\ calls[g].adds \in Nat
    BY <1>0, CallFields DEF QueueTypeOK
  <1>2. calls[g].pc # "idle" => calls[g].queue \in Queues /\ calls[g].change <= rows[calls[g].queue]
    BY <1>0, Zenon DEF ChangesStored
  <1>3. CASE RefreshQueue(g)
    <2>1. CASE calls[g].queue \in DOMAIN producers
      <3> DEFINE c == MovedTo(calls[g], "begin")
      <3>1. /\ calls' = [calls EXCEPT ![g] = c] /\ rows' = rows /\ MuFree /\ calls[g].pc = "works"
            /\ UNCHANGED <<producers, seqs, renewal, adding, acked>>
        BY <1>3, <2>1, Zenon DEF RefreshQueue, MovedTo
      <3>2. /\ c \in CallType /\ c.pc = "begin" /\ c.queue = calls[g].queue /\ c.change = calls[g].change
            /\ c.reads = calls[g].reads
        BY <1>1, MovedFields, ZenonT(30)
      <3> HIDE DEF c
      <3>3. ReadsPaid(c)
        BY <1>0, <3>1, <3>2, Zenon DEF ReadsPaid
      <3> QED
        BY <1>1, <1>2, <3>1, <3>2, <3>3, CallMoves, Zenon DEF HasFirst
    <2>2. CASE calls[g].queue \notin DOMAIN producers
      BY <1>3, <2>2, ReturnKeeps, Zenon DEF RefreshQueue
    <2> QED
      BY <2>1, <2>2, Zenon
  <1>4. CASE ReadSeq(g)
    <2> DEFINE m == seqs.control
               n == IF calls[g].pc = "begin" THEN seqs.control ELSE calls[g].first
               c == WithSeq(calls[g], m, n)
    <2>1. /\ calls' = [calls EXCEPT ![g] = c] /\ rows' = rows /\ calls[g].pc \in {"begin", "again"}
          /\ UNCHANGED <<producers, seqs, renewal, adding, acked>>
      BY <1>4, Zenon DEF ReadSeq, WithSeq
    <2>2. m \in Nat /\ n \in Nat /\ n <= m /\ (calls[g].pc = "begin" => n = m)
          /\ (calls[g].pc = "again" => n = calls[g].first /\ n < m)
      BY <1>0, <1>1, <2>1 DEF ReadsPaid
    <2>3. /\ c \in CallType /\ c.pc = "list" /\ c.queue = calls[g].queue /\ c.change = calls[g].change
          /\ c.first = n /\ c.seq = m /\ c.reads = calls[g].reads /\ c.adds = calls[g].adds
      <3>1. calls[g] \in CallType /\ m \in Nat /\ n \in Nat
        BY <1>1, <2>2, Zenon
      <3> HIDE DEF m, n
      <3> QED
        BY <3>1, SeqFields
    <2> HIDE DEF c, n
    <2>4. ReadsPaid(c)
      BY <1>0, <1>1, <2>1, <2>2, <2>3 DEF ReadsPaid
    <2>5. c.queue \in Queues /\ c.change <= rows'[c.queue]
      BY <1>2, <2>1, <2>3, ZenonT(30)
    <2>6. c.first <= c.seq /\ c.seq <= seqs.control
      BY <1>1, <2>2, <2>3
    <2>7. Rereads(calls[g]) /\ (c.first = seqs.control \/ (HasFirst(calls[g]) /\ c.first = calls[g].first))
      BY <2>1, <2>2, <2>3, Zenon DEF HasFirst, Rereads
    <2>8. c.pc # "apply"
      BY <2>3, Zenon
    <2> HIDE DEF m
    <2> QED
      BY <1>1, <2>1, <2>3, <2>4, <2>5, <2>6, <2>7, <2>8, CallMoves, Zenon
  <1>5. CASE List(g)
    <2> DEFINE c == WithReading(calls[g], rows)
    <2>1. /\ calls' = [calls EXCEPT ![g] = c] /\ rows' = rows /\ calls[g].pc = "list"
          /\ UNCHANGED <<producers, seqs, renewal, adding, acked>>
      BY <1>5, ZenonT(30) DEF List, WithReading
    <2>2. /\ c \in CallType /\ c.pc = "apply" /\ c.queue = calls[g].queue /\ c.change = calls[g].change
          /\ c.reading = rows /\ c.first = calls[g].first /\ c.seq = calls[g].seq
          /\ c.reads = calls[g].reads + 1 /\ c.adds = calls[g].adds
      BY <1>1, ReadingFields, ZenonT(30)
    <2> HIDE DEF c
    <2>3. ReadsPaid(c) /\ c.first <= c.seq /\ c.seq <= seqs.control
      BY <1>0, <1>1, <2>1, <2>2 DEF ReadsPaid, SeqsOrdered
    <2> QED
      BY <1>1, <1>2, <2>1, <2>2, <2>3, CallMoves, Zenon DEF HasFirst, Rereads
  <1>6. CASE ListFails(g)
    <2>1. /\ calls' = [calls EXCEPT ![g] = NoCall] /\ rows' = rows
          /\ UNCHANGED <<producers, seqs, renewal, adding, acked>>
      BY <1>6, Zenon DEF ListFails
    <2>2. NoCall \in CallType /\ NoCall.pc = "idle" /\ ReadsPaid(NoCall)
      BY NoCallFields, Zenon DEF ReadsPaid
    <2> QED
      BY <1>1, <2>1, <2>2, CallMoves, Zenon DEF HasFirst, Rereads
  <1> QED
    BY <1>3, <1>4, <1>5, <1>6, Zenon

\* refreshQueueState and applyRenewed come to apply what they read.
LEMMA AppliesKeep ==
  ASSUME QueueInv, (\E g \in Goroutines : Apply(g)) \/ ApplyRenewed
  PROVE  QueueInv'
  <1>0. QueueTypeOK /\ ChangesStored /\ SeqsOrdered /\ ReadingsFresh
    BY Zenon DEF QueueInv
  <1>1. CASE ApplyRenewed
    <2>1. /\ renewal.seq \in Nat /\ renewal.reading \in Reading /\ Fresh(renewal.seq, renewal.reading)
          /\ MuFree /\ renewal' = NoRenewal /\ UNCHANGED <<rows, calls, adding, acked>>
      BY <1>0, <1>1, Zenon DEF ApplyRenewed, QueueTypeOK, ReadingsFresh
    <2>2. CASE ApplyQueueState(renewal.seq, renewal.reading)
      BY <2>1, <2>2, ApplyKeeps, Zenon
    <2>3. CASE UNCHANGED <<seqs, producers>>
      <3>1. renewal'.pc = "idle" /\ renewal' \in [pc : {"idle", "renew", "apply"}, seq : Nat, reading : Reading]
        BY <2>1, Zenon DEF NoRenewal, NoReading, Reading
      <3>2. QueueTypeOK'
        BY <1>0, <2>1, <2>3, <3>1, Zenon DEF QueueTypeOK
      <3> QED
        BY ZenonT(30), <2>1, <2>3, <3>1, <3>2 DEF QueueInv, ChangesStored, SeqsOrdered, ReadingsFresh, Fresh, OvertakenApplied,
           AddFresh, MuFree, ChangesStayApplied, ReadsPaid
    <2> QED
      BY <1>1, <2>2, <2>3, Zenon DEF ApplyRenewed
  <1>2. ASSUME NEW g \in Goroutines, Apply(g) PROVE QueueInv'
    <2>1. /\ calls[g].seq \in Nat /\ calls[g].reading \in Reading /\ Fresh(calls[g].seq, calls[g].reading)
          /\ calls[g].pc = "apply" /\ calls[g] \in CallType /\ MuFree /\ UNCHANGED <<rows, renewal, adding>>
      BY <1>0, <1>2, Zenon DEF Apply, QueueTypeOK, ReadingsFresh, CallType
    <2>2. CASE ApplyQueueState(calls[g].seq, calls[g].reading) /\ Returned(g)
      BY <2>1, <2>2, ApplyKeeps, Zenon
    <2>3. CASE seqs.control # calls[g].seq /\ UNCHANGED <<seqs, producers>> /\ OvertakenByNewer(g) /\ Returned(g)
      BY <2>1, <2>3, ReturnKeeps, Zenon DEF OvertakenByNewer, HasFirst
    <2>4. CASE /\ seqs.control # calls[g].seq /\ UNCHANGED <<seqs, producers>> /\ ~OvertakenByNewer(g)
               /\ calls' = [calls EXCEPT ![g].pc = "again"] /\ UNCHANGED acked
      <3> DEFINE c == MovedTo(calls[g], "again")
      <3>1. /\ calls' = [calls EXCEPT ![g] = c] /\ rows' = rows
            /\ UNCHANGED <<producers, seqs, renewal, adding, acked>>
        BY <2>1, <2>4, Zenon DEF MovedTo
      <3>2. /\ c \in CallType /\ c.pc = "again" /\ c.queue = calls[g].queue /\ c.change = calls[g].change
            /\ c.first = calls[g].first /\ c.reads = calls[g].reads /\ c.adds = calls[g].adds
        BY <2>1, MovedFields, Zenon
      <3> HIDE DEF c
      <3>3. /\ calls[g].first <= calls[g].seq /\ calls[g].seq <= seqs.control /\ ~(seqs.appliedFrom > calls[g].first)
            /\ calls[g].queue \in Queues /\ calls[g].change <= rows[calls[g].queue] /\ ReadsPaid(calls[g])
        BY <1>0, <2>1, <2>4, Zenon DEF SeqsOrdered, OvertakenByNewer, ChangesStored, QueueInv
      <3>4. ReadsPaid(c)
        BY <1>0, <2>1, <2>4, <3>2, <3>3, CallFields DEF ReadsPaid
      <3>5. rows \in Reading /\ \A q \in Queues : rows[q] <= rows[q]
        BY <1>0, CallFields DEF QueueTypeOK
      <3> QED
        BY <2>1, <3>1, <3>2, <3>3, <3>4, <3>5, CallMoves, Zenon DEF HasFirst, Rereads
    <2> QED
      BY <1>2, <2>2, <2>3, <2>4, Zenon DEF Apply
  <1> QED
    BY <1>1, <1>2, Zenon

LEMMA QueueKeeps == QueueInv /\ [QueueNext]_queueVars => QueueInv'
  <1> SUFFICES ASSUME QueueInv, [QueueNext]_queueVars PROVE QueueInv'
    BY Zenon
  <1>1. CASE UNCHANGED queueVars
    BY ZenonT(30), <1>1 DEF QueueInv, queueVars, QueueTypeOK, ChangesStored, SeqsOrdered, ReadingsFresh, Fresh,
       OvertakenApplied, AddFresh, MuFree, ChangesStayApplied, ReadsPaid
  <1>2. ASSUME NEW q \in Queues, ChangeElsewhere(q) \/ Control(q) \/ Add(q) \/ RemoveQueue(q) PROVE QueueInv'
    BY <1>2, ElsewhereKeeps, CallBegins, AddKeeps, Zenon DEF Goroutines
  <1>3. ASSUME NEW g \in Callers, NEW q \in Queues, Change(g, q) PROVE QueueInv'
    BY <1>3, CallBegins, Zenon DEF Goroutines
  <1>4. CASE AddFails
    <2>1. adding.queue \in Queues
      BY <1>4, Zenon DEF AddFails, QueueInv, AddFresh
    <2> QED
      BY <1>4, <2>1, AddKeeps, Zenon
  <1> QED
    BY <1>1, <1>2, <1>3, <1>4, CallReads, AppliesKeep, RenewKeeps, AddStartsKeeps, Zenon DEF QueueNext

\* Whatever changes, notifications, renewals, Adds and Removes interleave: a
\* change a call has returned for is never set back by an older reading, and a
\* re-read ends after two readings but for the Adds that overtake it
\* (control.go, refreshQueueState and applyQueueState).
THEOREM QueuesFollowed == QueueSpec => []FollowsQueue
  <1>1. QueueInv => FollowsQueue
    BY CallFields DEF QueueInv, FollowsQueue, RereadsBounded, ReadsPaid, QueueTypeOK, CallType
  <1> QED
    BY QueueStart, QueueKeeps, <1>1, PTL DEF QueueSpec
=============================================================================
