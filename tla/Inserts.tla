------------------------------- MODULE Inserts -------------------------------
(***************************************************************************)
(* Inserts: of jobs and batches, and of a workflow that a caller builds.   *)
(***************************************************************************)
EXTENDS Integers, Sequences, FiniteSets

(***************************************************************************)
(* Client.InsertMany and Batch.Insert (insert.go, unique.go, batch.go,     *)
(* InsertOpts.merge in job.go), over SQLite's JobInsertMany (jobs.go).     *)
(* One call builds its jobs' parameters, folds the duplicates among them,  *)
(* runs a statement for each round and conflict action, and wakes the      *)
(* queues.  A pool call's statements commit one by one, so that workers    *)
(* and other calls come in between; a call in the caller's transaction     *)
(* holds SQLite's write lock until the transaction ends.                   *)
(*                                                                         *)
(* All jobs are of one kind.  A unique key is the tuple of the parts the   *)
(* options select; the period part does not change during a run.           *)
(***************************************************************************)
CONSTANTS
  Callers,        \* the goroutines that insert, one call each
  InsertLists,    \* the lists of inputs a call may have
  ConfigAttempts, \* Config.MaxAttempts
  CopyThreshold,  \* tuning.copyThreshold
  MaxStored       \* the most jobs stored

VARIABLES
  stored,       \* hopper_jobs and hopper_job_history, by the job's number
  pending,      \* hopper_batches.pending of each caller's batch
  call,         \* each caller's call
  wakes,        \* the queues woken so far
  writeTx       \* the caller whose transaction holds the write lock, and what
                \* the tables held before it

insertVars == <<stored, pending, call, wakes, writeTx>>

LiveStates == {"waiting", "running"}
Finals == {"completed", "canceled", "discarded"}

NoTx == [by |-> "none", stored |-> <<>>, pending |-> [c \in Callers |-> 0]]

-----------------------------------------------------------------------------
(* One input: its args, the options its args have and those of the call.   *)
(* Options are [queue, maxAttempts, unique], with "" and 0 for unset, and  *)
(* unique [on, byArgs, byQueue, replace, finished].                        *)

merge(opts, over) ==
  [queue       |-> IF over.queue # "" THEN over.queue ELSE opts.queue,
   maxAttempts |-> IF over.maxAttempts # 0 THEN over.maxAttempts ELSE opts.maxAttempts,
   unique      |-> IF over.unique.on THEN over.unique ELSE opts.unique]

effectiveOpts(p) == merge(p.own, p.over)

QueueOf(opts) == IF opts.queue = "" THEN "default" ELSE opts.queue
AttemptsOf(opts) == IF opts.maxAttempts = 0 THEN ConfigAttempts ELSE opts.maxAttempts

\* The parts come in a fixed order, and an absent one is not in the key.
UniqueKeyOf(u, args, queue) ==
  IF ~u.on THEN <<>>
  ELSE LET a == IF u.byArgs THEN <<"a", args.tagged>> ELSE <<>>
           q == IF u.byQueue THEN <<"q", queue>> ELSE <<>>
       IN  IF a \o q = <<>> THEN <<"*">> ELSE a \o q

Builds(p) ==
  LET u == effectiveOpts(p).unique
  IN  AttemptsOf(effectiveOpts(p)) >= 1 /\ (u.on => u.finished \subseteq Finals)

buildInsertParams(p, batch) ==
  LET opts == effectiveOpts(p)
      u    == opts.unique
  IN  [args |-> p.args, queue |-> QueueOf(opts), batch |-> batch,
       key |-> UniqueKeyOf(u, p.args, QueueOf(opts)),
       finished |-> IF u.on THEN u.finished ELSE {},
       action |-> IF u.on /\ u.replace THEN "replace" ELSE "skip"]

-----------------------------------------------------------------------------
(* The plan of a call: which inputs resolve to an earlier one, and the      *)
(* round each of the others is inserted in.                                *)

EarlierInput(ps, i) == {j \in 1 .. i - 1 : ps[i].key # <<>> /\ ps[j].key = ps[i].key}
LastEarlier(ps, i) ==
  IF EarlierInput(ps, i) = {} THEN 0
  ELSE CHOOSE j \in EarlierInput(ps, i) : \A k \in EarlierInput(ps, i) : k <= j

\* The mutant that folds inputs of one key whatever states they count.
FoldsAnyStates(ps, i) == LastEarlier(ps, i)

\* The input i resolves to, 0 for none: the one before of the same key, if
\* it counts the same finished states.
DupOf(ps, i) ==
  LET j == LastEarlier(ps, i)
  IN  IF j > 0 /\ ps[j].finished = ps[i].finished THEN j ELSE 0

Rounds(ps) ==
  LET round[i \in 1 .. Len(ps)] ==
        LET j == LastEarlier(ps, i)
        IN  IF j = 0 THEN 0 ELSE IF DupOf(ps, i) = j THEN round[j] ELSE round[j] + 1
  IN  round

\* The statements of a call: the inputs of each round and conflict action.
Statements(ps) ==
  LET round == Rounds(ps)
      of(r, a) == {i \in 1 .. Len(ps) : DupOf(ps, i) = 0 /\ round[i] = r /\ ps[i].action = a}
  IN  {[round |-> r, inputs |-> of(r, a), action |-> a] :
         <<r, a>> \in {<<round[i], ps[i].action>> : i \in {k \in 1 .. Len(ps) : DupOf(ps, k) = 0}}}

-----------------------------------------------------------------------------
(* JobInsertMany, one input after another under the write lock.            *)

LiveWith(rows, key) == {j \in DOMAIN rows : rows[j].key = key /\ rows[j].state \in LiveStates}
FinishedWith(rows, p) ==
  {j \in DOMAIN rows : rows[j].key = p.key /\ rows[j].state \in p.finished}
Newest(js) == CHOOSE j \in js : \A k \in js : k <= j

NewRow(p, c, i) ==
  [state |-> "waiting", key |-> p.key, queue |-> p.queue, args |-> p.args,
   batch |-> p.batch, by |-> <<c, i>>]

\* x is [rows, pending, results]; the result keeps the state the job was
\* found in.
InsertOne(x, c, p, i, action) ==
  LET live == IF p.key = <<>> THEN {} ELSE LiveWith(x.rows, p.key)
      done == IF p.key = <<>> THEN {} ELSE FinishedWith(x.rows, p)
      result(j, dup, state) == [x.results EXCEPT ![i] = [job |-> j, dup |-> dup, state |-> state]]
  IN  CASE live # {} ->
             LET j == Newest(live)
             IN  [rows |-> IF action = "replace" /\ x.rows[j].state # "running"
                             THEN [x.rows EXCEPT ![j].args = p.args] ELSE x.rows,
                  pending |-> x.pending,
                  results |-> result(j, TRUE, x.rows[j].state)]
        [] live = {} /\ done # {} ->
             [rows |-> x.rows,
              pending |-> IF p.batch = "none" THEN x.pending
                          ELSE [x.pending EXCEPT ![p.batch] = @ - 1],
              results |-> result(Newest(done), TRUE, x.rows[Newest(done)].state)]
        [] OTHER ->
             [rows |-> Append(x.rows, NewRow(p, c, i)),
              pending |-> x.pending,
              results |-> result(Len(x.rows) + 1, FALSE, "waiting")]

\* COPY, on Postgres through pgx, checks no key: it is for lists without
\* unique jobs.
CopyOne(x, c, p, i) ==
  [rows |-> Append(x.rows, NewRow(p, c, i)), pending |-> x.pending,
   results |-> [x.results EXCEPT ![i] =
                 [job |-> Len(x.rows) + 1, dup |-> FALSE, state |-> "waiting"]]]

\* The mutant that looks for unique keys in the statement's first job alone.
CopiesByFirst(c, s) ==
  LET first == CHOOSE i \in s.inputs : \A k \in s.inputs : i <= k
  IN  call[c].params[first].key = <<>> /\ Cardinality(s.inputs) >= CopyThreshold

Copies(c, s) ==
  /\ \A i \in DOMAIN call[c].params : call[c].params[i].key = <<>>
  /\ Cardinality(s.inputs) >= CopyThreshold

JobInsertMany(c, s) ==
  LET ps == call[c].params
      run[i \in 0 .. Len(ps)] ==
        IF i = 0 THEN [rows |-> stored, pending |-> pending, results |-> call[c].results]
        ELSE IF i \notin s.inputs THEN run[i - 1]
        ELSE IF Copies(c, s) THEN CopyOne(run[i - 1], c, ps[i], i)
        ELSE InsertOne(run[i - 1], c, ps[i], i, s.action)
  IN  run[Len(ps)]

-----------------------------------------------------------------------------
NoCall == [pc |-> "idle", inTx |-> FALSE, params |-> <<>>, todo |-> {}, results |-> <<>>]

InsertsInit ==
  /\ stored = <<>>
  /\ pending = [c \in Callers |-> 0]
  /\ call = [c \in Callers |-> NoCall]
  /\ wakes = {}
  /\ writeTx = NoTx

MayWrite(c) == writeTx.by \in {"none", c}

\* Batch.insert and insertDirect up to the first statement.  The batch's row
\* is committed before its jobs' parameters are built.
InsertCalled(c) ==
  /\ call[c].pc = "idle"
  /\ MayWrite(c)
  /\ \E ins \in InsertLists, batched \in BOOLEAN, inTx \in BOOLEAN :
       LET ps == [i \in DOMAIN ins |-> buildInsertParams(ins[i], IF batched THEN c ELSE "none")]
       IN  /\ pending' = IF batched THEN [pending EXCEPT ![c] = Len(ins)] ELSE pending
           /\ writeTx' = IF inTx THEN [by |-> c, stored |-> stored, pending |-> pending]
                         ELSE writeTx
           /\ call' = [call EXCEPT ![c] =
                IF \E i \in DOMAIN ins : ~Builds(ins[i])
                  THEN [NoCall EXCEPT !.pc = "failed", !.inTx = inTx]
                  ELSE [pc |-> "inserts", inTx |-> inTx, params |-> ps,
                        todo |-> Statements(ps),
                        results |-> [i \in DOMAIN ins |-> [job |-> 0, dup |-> FALSE, state |-> ""]]]]
  /\ UNCHANGED <<stored, wakes>>

\* The statements of a round run in the order the map yields them.
InsertStatement(c) ==
  /\ call[c].pc = "inserts"
  /\ MayWrite(c)
  /\ \E s \in call[c].todo :
       /\ \A u \in call[c].todo : s.round <= u.round
       /\ Len(stored) + Cardinality(s.inputs) <= MaxStored
       /\ LET x == JobInsertMany(c, s)
          IN  /\ stored' = x.rows
              /\ pending' = x.pending
              /\ call' = [call EXCEPT ![c].todo = @ \ {s}, ![c].results = x.results]
  /\ UNCHANGED <<wakes, writeTx>>

InsertFails(c) ==
  /\ call[c].pc = "inserts"
  /\ call[c].todo # {}
  /\ call' = [call EXCEPT ![c].pc = "failed"]
  /\ UNCHANGED <<stored, pending, wakes, writeTx>>

\* The results of the folded inputs, from the first on: a result may be a
\* folded one's in turn.
Resolved(c) ==
  LET ps == call[c].params
      res[i \in DOMAIN ps] ==
        IF DupOf(ps, i) = 0 THEN call[c].results[i]
        ELSE [res[DupOf(ps, i)] EXCEPT !.dup = TRUE]
  IN  res

\* The call returns; a pool call wakes the queues of what it inserted, and of
\* what it replaced if its first input replaces.
InsertReturns(c) ==
  /\ call[c].pc = "inserts"
  /\ call[c].todo = {}
  /\ LET res == Resolved(c)
         changed == {i \in DOMAIN res :
                       \/ ~res[i].dup
                       \/ call[c].params[1].action = "replace" /\ res[i].state \in LiveStates}
     IN  /\ call' = [call EXCEPT ![c].pc = "returned", ![c].results = res]
         /\ wakes' = IF call[c].inTx THEN wakes
                     ELSE wakes \cup {stored[res[i].job].queue : i \in changed}
  /\ UNCHANGED <<stored, pending, writeTx>>

\* The caller's transaction ends: its commit delivers the notifications its
\* statements made, of the queues of their inputs, those of duplicates
\* included, but not of the inputs folded before; its rollback undoes them.
InsertTxEnds(c) ==
  /\ writeTx.by = c
  /\ call[c].pc \in {"returned", "failed"}
  /\ \/ /\ call[c].pc = "returned"
        /\ LET ps == call[c].params
           IN  wakes' = wakes \cup {ps[i].queue : i \in {k \in DOMAIN ps : DupOf(ps, k) = 0}}
        /\ UNCHANGED <<stored, pending, call>>
     \/ /\ stored' = writeTx.stored
        /\ pending' = writeTx.pending
        /\ call' = [call EXCEPT ![c].pc = "undone"]
        /\ UNCHANGED wakes
  /\ writeTx' = NoTx

\* A worker claims a job, and finishes it, counting it in its batch.
StoredRuns(j) ==
  /\ writeTx = NoTx
  /\ stored[j].state = "waiting"
  /\ stored' = [stored EXCEPT ![j].state = "running"]
  /\ UNCHANGED <<pending, call, wakes, writeTx>>

StoredEnds(j, state) ==
  /\ writeTx = NoTx
  /\ stored[j].state = "running"
  /\ stored' = [stored EXCEPT ![j].state = state]
  /\ pending' = IF stored[j].batch = "none" THEN pending
                ELSE [pending EXCEPT ![stored[j].batch] = @ - 1]
  /\ UNCHANGED <<call, wakes, writeTx>>

InsertsNext ==
  \/ \E c \in Callers : \/ InsertCalled(c) \/ InsertStatement(c) \/ InsertFails(c)
                        \/ InsertReturns(c) \/ InsertTxEnds(c)
  \/ \E j \in DOMAIN stored : StoredRuns(j)
  \/ \E j \in DOMAIN stored, s \in {"completed", "discarded"} : StoredEnds(j, s)

-----------------------------------------------------------------------------
\* A result is right for the input it answers: a new job is the one inserted
\* for it, and a duplicate has its key and was live, or finished in a state
\* that this input counts, when it was found.
ResultHolds(c, i) ==
  LET r == call[c].results[i]
      p == call[c].params[i]
  IN  /\ r.job \in DOMAIN stored
      /\ ~r.dup => stored[r.job].by = <<c, i>>
      /\ r.dup => stored[r.job].key = p.key /\ r.state \in LiveStates \cup p.finished

\* Every input of a call that returned is answered by a job that is right for
\* it, however the list's duplicates were folded and whatever ran between the
\* statements; no two live jobs share a unique key, whether a statement or
\* COPY inserted them; and a waiting job of a pool call that returned had its
\* queue woken (insertDirect in insert.go).
InsertsSound ==
  /\ \A c \in Callers : call[c].pc = "returned" =>
       \A i \in DOMAIN call[c].params : ResultHolds(c, i)
  /\ \A j, k \in DOMAIN stored :
       j # k /\ stored[j].key # <<>> /\ stored[j].key = stored[k].key
         => ~(stored[j].state \in LiveStates /\ stored[k].state \in LiveStates)
  /\ \A j \in DOMAIN stored :
       LET c == stored[j].by[1]
       IN  call[c].pc = "returned" /\ writeTx.by # c => stored[j].queue \in wakes

\* What a batch's counting is for ("The job never joins the batch, which would
\* otherwise wait for it forever", recordInBatches in pgsql/jobs.go; the same
\* in insertJobs on SQLite): once the jobs of all its results have finished,
\* nothing of the batch is pending.
BatchNotStranded ==
  \A c \in Callers :
    /\ call[c].pc = "returned"
    /\ writeTx.by # c
    /\ \A i \in DOMAIN call[c].params :
         call[c].params[i].batch = c /\ stored[call[c].results[i].job].state \in Finals
    => pending[c] = 0

-----------------------------------------------------------------------------
(***************************************************************************)
(* Building a workflow and inserting it: Workflow.Add and insertWorkflow   *)
(* (workflow.go), CheckDependencies and EdgePolicy (jobcodec.go), and the  *)
(* engines' WorkflowInsert, which keeps one row for each pair of steps,    *)
(* the first given.  A step's options are the sequences of steps it waits  *)
(* for, a step being [wf, i] as the handle Add returned.                   *)
(***************************************************************************)
CONSTANTS
  StepChoices,  \* the options a step may be added with
  MaxSteps,     \* the most steps of a workflow
  MaxGroups     \* maxAnyOfGroups

VARIABLES
  steps,        \* Workflow.steps, each [after, afterAny, policy, reads, name]
  build,        \* "building", "refused" or "stored"
  edges,        \* hopper_job_deps
  held          \* the steps inserted pending

buildVars == <<steps, build, edges, held>>

BuildInit ==
  /\ steps = <<>>
  /\ build = "building"
  /\ edges = {}
  /\ held = {}

Add ==
  /\ build = "building"
  /\ Len(steps) < MaxSteps
  /\ \E opts \in StepChoices : steps' = Append(steps, opts)
  /\ UNCHANGED <<build, edges, held>>

-----------------------------------------------------------------------------
Elements(s) == {s[k] : k \in DOMAIN s}

\* A handle of another workflow, or of a step not added yet.
Foreign(ref, i) == ref.wf # "w" \/ ref.i >= i

Dep(i, ref, g) ==
  [job |-> i, on |-> ref.i, policy |-> steps[i].policy, reads |-> steps[i].reads, anyOf |-> g]

AfterDeps(i) == {Dep(i, r, 0) : r \in Elements(steps[i].after)}

AfterRefused(i) == \E r \in Elements(steps[i].after) : Foreign(r, i)

\* Where a step of group g of step i was seen before: in After, 0, or in an
\* earlier group.
Where(i, ref, g) ==
  {0 : r \in {r \in Elements(steps[i].after) : r.i = ref.i}} \cup
  {k \in 1 .. g - 1 : \E r \in Elements(steps[i].afterAny[k]) : r.i = ref.i}

\* The mutant that skips a step already waited for in another place.
AnyOfSkips(i) ==
  \/ Len(steps[i].afterAny) > MaxGroups
  \/ \E g \in DOMAIN steps[i].afterAny :
       \/ steps[i].afterAny[g] = <<>>
       \/ \E r \in Elements(steps[i].afterAny[g]) : Foreign(r, i)

AnyOfRefused(i) ==
  \/ Len(steps[i].afterAny) > MaxGroups
  \/ \E g \in DOMAIN steps[i].afterAny :
       \/ steps[i].afterAny[g] = <<>>
       \/ \E r \in Elements(steps[i].afterAny[g]) : Foreign(r, i) \/ Where(i, r, g) # {}

\* A step repeated within a group is one edge.
AnyOfDeps(i) ==
  UNION {{Dep(i, r, g) : r \in {r \in Elements(steps[i].afterAny[g]) : Where(i, r, g) = {}}} :
           g \in DOMAIN steps[i].afterAny}

NamesRefused ==
  \E i, j \in DOMAIN steps : i # j /\ steps[i].name # "" /\ steps[i].name = steps[j].name

-----------------------------------------------------------------------------
EdgePolicy(d) ==
  LET policy == IF d.policy = "" THEN "cancel" ELSE d.policy
  IN  IF d.anyOf # 0 THEN <<"any", policy>> ELSE <<policy>>

\* CheckDependencies: the edges are in range, an edge given twice is in one
\* place, and a group has one policy.
DepsRefused(deps) ==
  \/ \E d \in deps : d.job \notin DOMAIN steps \/ d.on \notin DOMAIN steps \/ d.job = d.on
  \/ \E d \in deps : d.anyOf < 0 \/ d.anyOf > MaxGroups
  \/ \E d, e \in deps : d.job = e.job /\ d.on = e.on /\ d.anyOf # e.anyOf
  \/ \E d, e \in deps :
       d.anyOf # 0 /\ d.job = e.job /\ d.anyOf = e.anyOf /\ EdgePolicy(d) # EdgePolicy(e)

\* The row of an edge; the step's name is stored for a dependent that reads.
EdgeRow(d) ==
  [job |-> d.job, on |-> d.on, policy |-> EdgePolicy(d), anyOf |-> d.anyOf,
   step |-> IF d.reads THEN steps[d.on].name ELSE ""]

\* The mutant that holds only the steps with an ordinary edge.
HeldByAfter(deps) == {d.job : d \in {e \in deps : e.anyOf = 0}}

\* The steps CheckDependencies has inserted pending.
Held(deps) == {d.job : d \in deps}

InsertWorkflow ==
  /\ build = "building"
  /\ LET deps == UNION {AfterDeps(i) \cup AnyOfDeps(i) : i \in DOMAIN steps}
         refused == \/ steps = <<>>
                    \/ NamesRefused
                    \/ \E i \in DOMAIN steps : AfterRefused(i) \/ AnyOfRefused(i)
                    \/ DepsRefused(deps)
     IN  /\ build' = IF refused THEN "refused" ELSE "stored"
         /\ edges' = IF refused THEN {} ELSE {EdgeRow(d) : d \in deps}
         /\ held' = IF refused THEN {} ELSE Held(deps)
  /\ UNCHANGED steps

BuildNext == Add \/ InsertWorkflow

-----------------------------------------------------------------------------
\* What a step's options say it waits for, by place: 0 for After and the
\* number of a group for AfterAny.
WaitsFor(i, g) ==
  {r.i : r \in Elements(IF g = 0 THEN steps[i].after ELSE steps[i].afterAny[g])}

\* The edges the tables hold of a place.
Stored(i, g) == {e.on : e \in {x \in edges : x.job = i /\ x.anyOf = g}}

\* A stored workflow is the graph its options say: each step waits for
\* exactly the steps of its After and of each group, all added before it, and
\* a step no other waits in line for is not held, nor one with a dependency
\* left free; and a workflow is refused only for a step waited for in two
\* places or not its own, an empty group, a repeated name or no steps
\* (insertWorkflow in workflow.go).
GraphAsBuilt ==
  LET places(i) == 0 .. Len(steps[i].afterAny)
      refs(i) == UNION {Elements(steps[i].afterAny[g]) : g \in DOMAIN steps[i].afterAny}
                   \cup Elements(steps[i].after)
      clear == /\ steps # <<>>
               /\ \A i \in DOMAIN steps :
                    /\ \A r \in refs(i) : r.wf = "w" /\ r.i < i
                    /\ \A g \in DOMAIN steps[i].afterAny : WaitsFor(i, g) # {}
                    /\ \A g, h \in places(i) : g # h => WaitsFor(i, g) \cap WaitsFor(i, h) = {}
                    /\ \A j \in DOMAIN steps :
                         steps[i].name = steps[j].name => i = j \/ steps[i].name = ""
  IN  /\ build = "refused" => ~clear
      /\ build = "stored" =>
           /\ \A i \in DOMAIN steps, g \in 0 .. MaxGroups :
                Stored(i, g) = IF g \in places(i) THEN WaitsFor(i, g) ELSE {}
           /\ \A e \in edges : e.on < e.job
           /\ held = {i \in DOMAIN steps : refs(i) # {}}
=============================================================================
