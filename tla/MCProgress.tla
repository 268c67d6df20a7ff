----------------------------- MODULE MCProgress -----------------------------
(***************************************************************************)
(* What must eventually happen, for TLC: the rescue of a lost client's job, *)
(* the write of a result, a client's stop, an Await, a followed log, the    *)
(* history index and SQLite's notifications.  A behavior is of the part it  *)
(* starts with, and leaves the others in a first state of theirs.           *)
(***************************************************************************)
EXTENDS MCJobStore, FinalizeWrite, Client, Await, LogFollow, PgHistoryIndex, SqliteListen

CONSTANTS Parts, a1, b1
VARIABLE part

MCVars == <<part, vars, writeVars, clientVars, awaitVars, followVars, indexVars, listenVars>>

\* An attempt each of two jobs, one of a queue that keeps no completed jobs.
OfTwoJobs == a1 :> j1 @@ b1 :> j2
FirstFences == a1 :> 1 @@ b1 :> 1

MCInit ==
    /\ part \in Parts
    /\ Init /\ WriteInit /\ ClientInit /\ AwaitInit /\ FollowInit /\ IndexInit /\ ListenInit
    \* one first state for the other parts
    /\ part # "follow" => watch.state = "on"

Others(p) ==
    /\ UNCHANGED part
    /\ p # "jobs" => UNCHANGED vars
    /\ p # "write" => UNCHANGED writeVars
    /\ p # "client" => UNCHANGED clientVars
    /\ p # "await" => UNCHANGED awaitVars
    /\ p # "follow" => UNCHANGED followVars
    /\ p # "index" => UNCHANGED indexVars
    /\ p # "listen" => UNCHANGED listenVars

MCNext ==
    \/ part = "jobs" /\ Next /\ Others("jobs")
    \/ part = "write" /\ WriteNext /\ Others("write")
    \/ part = "client" /\ ClientNext /\ Others("client")
    \/ part = "await" /\ AwaitNext /\ Others("await")
    \/ part = "follow" /\ FollowNext /\ Others("follow")
    \/ part = "index" /\ IndexNext /\ Others("index")
    \/ part = "listen" /\ ListenNext /\ Others("listen")

\* The fairness of each part.  Where an action of it could be taken in the
\* state the other parts leave it in, it is asked for in its part alone.
MCFair ==
    /\ RescueFair /\ WriteFairness /\ ClientFair /\ AwaitFair
    /\ WF_followVars(part = "follow" /\ expired /\ \E f \in 1..MaxRun : Deleted(f))
    /\ WF_followVars(part = "follow" /\ FollowLists)
    /\ WF_followVars(part = "follow" /\ FollowReads)
    /\ WF_followVars(part = "follow" /\ Polls)
    /\ \A l \in Indexers : WF_indexVars(part = "index" /\ IndexStep(l))
    /\ \A l \in Indexers : WF_indexVars(part = "index" /\ (DropChecks(l) \/ DropEnds(l) \/ CreateEnds(l)))
    /\ \A l \in Indexers, p \in OldPartitions : WF_indexVars(part = "index" /\ DropStarts(l, p))
    /\ WF_indexVars(part = "index" /\ (LockOut \/ MigrationEnds))
    /\ SF_indexVars(part = "index" /\ LockOut /\ migration' = "script")
    /\ WF_listenVars(part = "listen" /\ Listens)

MCSpec == MCInit /\ [][MCNext]_MCVars
MCFairSpec == MCSpec /\ MCFair

-----------------------------------------------------------------------------
\* Stop ends (Client), and Await returns though its notification is lost
\* (Await).
ClientEnds == StopEnds /\ AwaitReturns

\* The leader's passes complete the history index (PgHistoryIndex), a reader
\* that follows a log catches up (LogFollow), and a listener hears every
\* notification (SqliteListen).
CatchesUp == <>[](/\ part = "index" => Indexed
                  /\ part = "follow" => CaughtUp
                  /\ part = "listen" => HeardAll)
=============================================================================
