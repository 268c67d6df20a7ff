----------------------------- MODULE MCWorkflow -----------------------------
(***************************************************************************)
(* Workflows, for TLC, in both engines: chains, a diamond and groups, with  *)
(* the policies that make them behave differently, of four jobs in SQLite;  *)
(* and one of three jobs in PostgreSQL, finished by statements that run at  *)
(* once.  A behavior is of the engine it starts with, and leaves the        *)
(* other in a first state of its.                                           *)
(***************************************************************************)
EXTENDS Workflow, PgWorkflow

CONSTANT Parts
VARIABLE part

MCVars == <<part, workflowVars, pgVars>>

After(j, on, policy) == [job |-> j, on |-> on, policy |-> policy, anyOf |-> 0, reads |-> FALSE]
Reads(j, on, policy) == [After(j, on, policy) EXCEPT !.reads = TRUE]
AnyOf(j, on, policy, g) == [After(j, on, policy) EXCEPT !.anyOf = g]

\* 2 and 3 follow 1, and 4 follows both.
Diamonds == {
    {After(2, 1, "cancel"), After(3, 1, p), After(4, 2, q), Reads(4, 3, q)}
        : p \in {"cancel", "ignore"}, q \in {"cancel", "ignore"}}

\* 4 runs after the first of its group that completes.  Job 3 may follow 1,
\* so that a cascade ends the group it is in itself, and 4 may be behind an
\* ordinary edge or a second group too.
GroupsWith(p) == {
    {AnyOf(4, 1, p, 1), AnyOf(4, 2, p, 1), AnyOf(4, 3, p, 1)},
    {After(3, 1, "cancel"), AnyOf(4, 2, p, 1), AnyOf(4, 3, p, 1)},
    {AnyOf(3, 1, p, 1), AnyOf(3, 2, p, 1), Reads(4, 3, "cancel")},
    {AnyOf(4, 1, p, 1), AnyOf(4, 2, p, 1), Reads(4, 3, "ignore")},
    {AnyOf(3, 1, "any_ignore", 1), AnyOf(4, 1, p, 1), AnyOf(4, 2, p, 1), AnyOf(4, 3, "any_cancel", 2)}}

\* A chain below a job that can be made to run ahead of its dependency.
Chain == {After(2, 1, "cancel"), Reads(3, 2, "cancel"), After(4, 3, "ignore")}

AllGraphs == Diamonds \cup GroupsWith("any_cancel") \cup GroupsWith("any_ignore") \cup {Chain}

\* Job 3 follows two jobs, whose results two clients write.
OneAfterTwo == {[n |-> 3, retries |-> 0,
    edges |-> {[job |-> 3, on |-> on, policy |-> "cancel", group |-> 0] : on \in {1, 2}}]}

-----------------------------------------------------------------------------
MCInit ==
    /\ part \in Parts
    /\ WorkflowInit /\ PgInit

MCNext ==
    /\ UNCHANGED part
    /\ \/ part = "sqlite" /\ WorkflowNext /\ UNCHANGED pgVars
       \/ part = "pg" /\ PgNext /\ UNCHANGED workflowVars

MCSpec == MCInit /\ [][MCNext]_MCVars

\* WorkflowFairness and PgFair, each of its part.
MCFair ==
    /\ WF_workflowVars(part = "sqlite" /\ WorkflowInsert)
    /\ \A j \in Jobs : WF_workflowVars(part = "sqlite" /\ Claim(j))
    /\ FinalizeFairness
    /\ WF_pgVars(part = "pg" /\ Works)
    /\ \A s \in PgSessions : SF_pgVars(FinalizeCommit(s)) /\ WF_pgVars(Ends(s) \/ Abandon(s))
    /\ WF_pgVars(Ends(PgLeader))
    /\ SF_pgVars(part = "pg" /\ SettleBegin(PgLeader)) /\ SF_pgVars(part = "pg" /\ PromoteBegin(PgLeader))
MCFairSpec == MCSpec /\ MCFair

-----------------------------------------------------------------------------
\* Every workflow completes, whatever fails, is canceled, deleted or retried
\* (Workflow, WorkflowCompletes), and though every client drops its follow-ups
\* (PgWorkflow, WorkflowEnds).
WorkflowsComplete == <>[](/\ part = "sqlite" => batch.completed
                          /\ part = "pg" => Ended)
=============================================================================
