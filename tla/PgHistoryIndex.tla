--------------------------- MODULE PgHistoryIndex ---------------------------
(***************************************************************************)
(* An index that a Postgres schema upgrade declared on an outcome table of *)
(* history (pgsql/history.go): the leader's HistoryIndex builds and        *)
(* attaches it partition by partition, while retention drops partitions,   *)
(* maintenance creates them, and a migration cancels the build under way.  *)
(* Advisory locks keep them apart: the schema's HistoryIndexLockKey, the   *)
(* same key of the table, HistoryIndexCancelKey and HistoryLockKey.        *)
(*                                                                         *)
(* Partitions are numbered by their period, DEFAULT is 0: the order of a   *)
(* pass, newest first and DEFAULT last, is descending.                     *)
(***************************************************************************)
EXTENDS Integers, FiniteSets, FiniteSetsExt

CONSTANTS Indexers,      \* the leaders whose terms overlap
          OldPartitions, NewPartition,
          Revalidates,   \* whether the server's re-attach revalidates: a subset of BOOLEAN
          MaxIndexFaults,     \* cancels, timeouts and failures of any kind
          MaxMigrations

Default == 0
Partitions == {Default, NewPartition} \cup OldPartitions
NoOne == "no one"
Migrator == "migrator"

VARIABLES parts,       \* the partitions attached to the table
          indexOf,     \* each one's index: none, building, invalid, valid, attached
          parentValid, \* indisvalid of the table's index
          revalidates,
          schemaKey,   \* HistoryIndexLockKey of the schema: who holds it
          tableKey,    \* of the table: the transactions holding it, <<leader, whose, shared>>
          cancelKey,   \* HistoryIndexCancelKey, held by the migration
          historyKey,  \* HistoryLockKey
          builder,     \* each leader's HistoryIndex
          keeper,      \* each leader's maintainGroup
          horizon,     \* the newest partition past retention
          migration, indexFaults, migrations
indexVars == <<parts, indexOf, parentValid, revalidates, schemaKey, tableKey, cancelKey, historyKey,
               builder, keeper, horizon, migration, indexFaults, migrations>>

Keys == <<schemaKey, tableKey, cancelKey, historyKey>>
Tables == <<parts, indexOf, parentValid>>
IdleIndexer == [pc |-> "idle", todo |-> {}, leaf |-> Default, complete |-> TRUE]
Kept == [pc |-> "idle", lacking |-> {}, expired |-> {}, leaf |-> Default]

IndexInit ==
    /\ parts = {Default} \cup OldPartitions
    /\ indexOf = [p \in Partitions |-> "none"]
    /\ parentValid = FALSE
    /\ revalidates \in Revalidates
    /\ schemaKey = NoOne /\ tableKey = {} /\ cancelKey = FALSE /\ historyKey = NoOne
    /\ builder = [l \in Indexers |-> IdleIndexer]
    /\ keeper = [l \in Indexers |-> Kept]
    /\ horizon = 0
    /\ migration = "idle" /\ indexFaults = 0 /\ migrations = 0

\* unindexedPartitions.
Unindexed == {p \in parts : indexOf[p] # "attached"}
\* Whether the table's key can be had in a mode beside its holders.
TableFree(shared) == IF shared THEN \A h \in tableKey : h[3] ELSE tableKey = {}

IndexFault == indexFaults < MaxIndexFaults /\ indexFaults' = indexFaults + 1

-----------------------------------------------------------------------------
(* HistoryIndex, one leader's pass.                                        *)

IndexLists(l) ==
    /\ builder[l].pc = "idle"
    /\ builder' = [builder EXCEPT ![l] = [IdleIndexer EXCEPT !.pc = "next", !.todo = Unindexed]]
    /\ UNCHANGED <<Tables, Keys, revalidates, keeper, horizon, migration, indexFaults, migrations>>

\* A partition whose build timed out is skipped until its backoff ends.
IndexSkips(l) ==
    /\ builder[l].pc = "next" /\ builder[l].todo # {} /\ IndexFault
    /\ builder' = [builder EXCEPT ![l].todo = @ \ {Max(@)}, ![l].complete = FALSE]
    /\ UNCHANGED <<Tables, Keys, revalidates, keeper, horizon, migration, migrations>>

\* indexHistoryPartitionLocked tries the schema's key; another holder ends the pass.
TakesSchema(l) ==
    /\ builder[l].pc = "next" /\ builder[l].todo # {}
    /\ IF schemaKey = NoOne
       THEN /\ schemaKey' = l
            /\ builder' = [builder EXCEPT ![l].pc = "table", ![l].leaf = Max(builder[l].todo)]
       ELSE /\ builder' = [builder EXCEPT ![l] = IdleIndexer]
            /\ UNCHANGED schemaKey
    /\ UNCHANGED <<Tables, tableKey, cancelKey, historyKey, revalidates, keeper, horizon, migration, indexFaults, migrations>>

\* Mutant: DEFAULT's build shares the table's key too.
TakesTableShared(l) ==
    /\ builder[l].pc = "table" /\ TableFree(TRUE)
    /\ tableKey' = tableKey \cup {<<l, "index", TRUE>>}
    /\ builder' = [builder EXCEPT ![l].pc = "check"]
    /\ UNCHANGED <<Tables, schemaKey, cancelKey, historyKey, revalidates, keeper, horizon, migration, indexFaults, migrations>>
\* It waits for the table's, exclusively for DEFAULT.
TakesTable(l) ==
    /\ builder[l].pc = "table" /\ TableFree(builder[l].leaf # Default)
    /\ tableKey' = tableKey \cup {<<l, "index", builder[l].leaf # Default>>}
    /\ builder' = [builder EXCEPT ![l].pc = "check"]
    /\ UNCHANGED <<Tables, schemaKey, cancelKey, historyKey, revalidates, keeper, horizon, migration, indexFaults, migrations>>

\* What follows a partition: its transaction ends, and with it the keys.
Releases(l) ==
    /\ schemaKey' = IF schemaKey = l THEN NoOne ELSE schemaKey
    /\ tableKey' = {h \in tableKey : ~(h[1] = l /\ h[2] = "index")}
    /\ UNCHANGED <<cancelKey, historyKey>>
LeafDone(l, done) ==
    /\ Releases(l)
    /\ builder' = [builder EXCEPT ![l].pc = "next", ![l].todo = @ \ {builder[l].leaf},
                       ![l].complete = @ /\ done]

\* The table's key is not free in time: errBuildDeferred.
TableDeferred(l) ==
    /\ builder[l].pc = "table" /\ ~TableFree(builder[l].leaf # Default)
    /\ LeafDone(l, FALSE)
    /\ UNCHANGED <<Tables, revalidates, keeper, horizon, migration, indexFaults, migrations>>

\* buildHistoryIndex: a partition dropped since is skipped, an invalid index
\* dropped, a valid one only attached.
BuildStarts(l) ==
    /\ builder[l].pc = "check"
    /\ LET p == builder[l].leaf IN
       \/ /\ p \notin parts
          /\ LeafDone(l, TRUE) /\ UNCHANGED indexOf
       \/ /\ p \in parts /\ indexOf[p] \in {"valid", "attached"}
          /\ builder' = [builder EXCEPT ![l].pc = "attach"] /\ UNCHANGED <<Keys, indexOf>>
       \/ /\ p \in parts /\ indexOf[p] \in {"none", "invalid"}
          /\ indexOf' = [indexOf EXCEPT ![p] = "building"]
          /\ builder' = [builder EXCEPT ![l].pc = "building"] /\ UNCHANGED Keys
    /\ UNCHANGED <<parts, parentValid, revalidates, keeper, horizon, migration, indexFaults, migrations>>
BuildEnds(l) ==
    /\ builder[l].pc = "building"
    /\ indexOf' = [indexOf EXCEPT ![builder[l].leaf] = "valid"]
    /\ builder' = [builder EXCEPT ![l].pc = "attach"]
    /\ UNCHANGED <<parts, parentValid, Keys, revalidates, keeper, horizon, migration, indexFaults, migrations>>

\* The build is canceled by its timeout or an operator.
BuildCanceled(l) ==
    /\ builder[l].pc = "building" /\ IndexFault
    /\ indexOf' = [indexOf EXCEPT ![builder[l].leaf] = "invalid"]
    /\ builder' = [builder EXCEPT ![l].pc = "canceled"]
    /\ UNCHANGED <<parts, parentValid, Keys, revalidates, keeper, horizon, migration, migrations>>
\* A migration's mark ends the pass; else the invalid index is dropped.
CancelChecked(l) ==
    /\ builder[l].pc = "canceled"
    /\ IF cancelKey
       THEN /\ Releases(l) /\ builder' = [builder EXCEPT ![l] = IdleIndexer]
            /\ UNCHANGED indexOf
       ELSE /\ LeafDone(l, FALSE)
            /\ indexOf' = [indexOf EXCEPT ![builder[l].leaf] = "none"]
    /\ UNCHANGED <<parts, parentValid, revalidates, keeper, horizon, migration, indexFaults, migrations>>
\* The deadlock detector ends the build (errBuildDeferred), or it fails.
BuildFails(l) ==
    /\ builder[l].pc = "building" /\ IndexFault
    /\ indexOf' = [indexOf EXCEPT ![builder[l].leaf] = "invalid"]
    /\ \/ LeafDone(l, FALSE)
       \/ Releases(l) /\ builder' = [builder EXCEPT ![l] = IdleIndexer]
    /\ UNCHANGED <<parts, parentValid, revalidates, keeper, horizon, migration, migrations>>

\* Postgres: the attach that completes the table's index marks it valid.
Attached(p) ==
    /\ indexOf' = [indexOf EXCEPT ![p] = "attached"]
    /\ parentValid' = (parentValid \/ \A q \in parts : indexOf'[q] = "attached")
\* attachIndex, under HistoryLockKey, or deferred with the index built.
AttachIndex(l) ==
    /\ builder[l].pc = "attach" /\ historyKey = NoOne
    /\ Attached(builder[l].leaf)
    /\ LeafDone(l, TRUE)
    /\ UNCHANGED <<parts, revalidates, keeper, horizon, migration, indexFaults, migrations>>
AttachDeferred(l) ==
    /\ builder[l].pc = "attach" /\ (historyKey # NoOne \/ indexFaults < MaxIndexFaults)
    /\ indexFaults' = IF historyKey # NoOne THEN indexFaults ELSE indexFaults + 1
    /\ LeafDone(l, FALSE)
    /\ UNCHANGED <<Tables, revalidates, keeper, horizon, migration, migrations>>

\* revalidateIndex, after a pass that left no partition out: the newest
\* partition's index is attached again, where the server counts again.
PassEnded(l) ==
    /\ builder[l].pc = "next" /\ builder[l].todo = {}
    /\ builder' = [builder EXCEPT ![l] = IdleIndexer]
    /\ parentValid' = (parentValid \/ /\ builder[l].complete /\ revalidates /\ historyKey = NoOne
                                      /\ \A p \in parts : indexOf[p] = "attached")
    /\ UNCHANGED <<parts, indexOf, Keys, revalidates, keeper, horizon, migration, indexFaults, migrations>>

\* The term ends: the pass's context, and its statement with it.
TermOver(l) ==
    /\ builder[l].pc # "idle" /\ IndexFault
    /\ Releases(l)
    /\ builder' = [builder EXCEPT ![l] = IdleIndexer]
    /\ indexOf' = IF builder[l].pc = "building" THEN [indexOf EXCEPT ![builder[l].leaf] = "invalid"] ELSE indexOf
    /\ UNCHANGED <<parts, parentValid, revalidates, keeper, horizon, migration, migrations>>

-----------------------------------------------------------------------------
(* Retention and creation (maintainGroup).                                 *)

TimePasses ==
    /\ horizon < Cardinality(OldPartitions)
    /\ horizon' = horizon + 1
    /\ UNCHANGED <<Tables, Keys, revalidates, builder, keeper, migration, indexFaults, migrations>>

\* The partitions past retention, and lackingInvalidIndexes, read once.
RetentionLists(l) ==
    /\ keeper[l].pc = "idle"
    /\ \E p \in parts : p # Default /\ p <= horizon
    /\ keeper' = [keeper EXCEPT ![l] = [pc |-> "drops", leaf |-> Default,
                                        expired |-> {p \in parts : p # Default /\ p <= horizon},
                                        lacking |-> IF parentValid THEN {} ELSE Unindexed]]
    /\ UNCHANGED <<Tables, Keys, revalidates, builder, horizon, migration, indexFaults, migrations>>

Needs(l, p) == p \in keeper[l].lacking
NextDrop(l, p) == keeper' = [keeper EXCEPT ![l].expired = @ \ {p},
                                 ![l].pc = IF keeper[l].expired = {p} THEN "idle" ELSE "drops"]

\* dropPartition takes the table's key, or keeps the partition. One that lacks
\* the index is kept, too, once DEFAULT does not.
DropStarts(l, p) ==
    /\ keeper[l].pc = "drops" /\ p \in keeper[l].expired
    /\ IF (Needs(l, p) => Needs(l, Default)) /\ TableFree(~Needs(l, p))
       THEN /\ tableKey' = tableKey \cup {<<l, "maintain", ~Needs(l, p)>>}
            /\ keeper' = [keeper EXCEPT ![l].pc = "check", ![l].leaf = p]
       ELSE NextDrop(l, p) /\ UNCHANGED tableKey
    /\ UNCHANGED <<Tables, schemaKey, cancelKey, historyKey, revalidates, builder, horizon, migration, indexFaults, migrations>>
DropReleases(l) ==
    tableKey' = tableKey \ {<<l, "maintain", ~Needs(l, keeper[l].leaf)>>}
\* Mutant: DEFAULT is not looked at again.
DropUnchecked(l) ==
    /\ keeper[l].pc = "check"
    /\ keeper' = [keeper EXCEPT ![l].pc = "dropping"]
    /\ UNCHANGED <<Tables, Keys, revalidates, builder, horizon, migration, indexFaults, migrations>>
\* Under the key, DEFAULT is looked at again.
DropChecks(l) ==
    /\ keeper[l].pc = "check"
    /\ IF Needs(l, keeper[l].leaf) /\ indexOf[Default] = "attached"
       THEN NextDrop(l, keeper[l].leaf) /\ DropReleases(l)
       ELSE keeper' = [keeper EXCEPT ![l].pc = "dropping"] /\ UNCHANGED tableKey
    /\ UNCHANGED <<Tables, schemaKey, cancelKey, historyKey, revalidates, builder, horizon, migration, indexFaults, migrations>>
\* DROP TABLE, or deferred; the drop of the last partition an index lacks does
\* not mark it valid.
DropEnds(l) ==
    /\ keeper[l].pc = "dropping"
    /\ \/ /\ parts' = parts \ {keeper[l].leaf}
          /\ indexOf' = [indexOf EXCEPT ![keeper[l].leaf] = "none"]
          /\ UNCHANGED indexFaults
       \/ IndexFault /\ UNCHANGED <<parts, indexOf>>
    /\ NextDrop(l, keeper[l].leaf) /\ DropReleases(l)
    /\ UNCHANGED <<parentValid, schemaKey, cancelKey, historyKey, revalidates, builder, horizon, migration, migrations>>

\* createPartition: HistoryLockKey, and the table's key in share mode, or deferred.
CreateStarts(l) ==
    /\ keeper[l].pc = "idle" /\ NewPartition \notin parts
    /\ historyKey = NoOne /\ TableFree(TRUE)
    /\ historyKey' = l
    /\ tableKey' = tableKey \cup {<<l, "maintain", TRUE>>}
    /\ keeper' = [keeper EXCEPT ![l].pc = "creating", ![l].lacking = {}, ![l].leaf = NewPartition]
    /\ UNCHANGED <<Tables, schemaKey, cancelKey, revalidates, builder, horizon, migration, indexFaults, migrations>>
\* The attach gives the partition its index.
CreateEnds(l) ==
    /\ keeper[l].pc = "creating"
    /\ \/ /\ parts' = parts \cup {NewPartition}
          /\ indexOf' = [indexOf EXCEPT ![NewPartition] = "attached"]
          /\ UNCHANGED indexFaults
       \/ IndexFault /\ UNCHANGED <<parts, indexOf>>
    /\ historyKey' = NoOne
    /\ DropReleases(l)
    /\ keeper' = [keeper EXCEPT ![l] = Kept]
    /\ UNCHANGED <<parentValid, schemaKey, cancelKey, revalidates, builder, horizon, migration, migrations>>

-----------------------------------------------------------------------------
(* MigrationApply.                                                         *)

\* lockOutIndexBuilds tries the schema's key; held, it marks the cancel key
\* and cancels the build that holds it.
MigrationTries ==
    /\ migration = "idle" /\ migrations < MaxMigrations
    /\ migrations' = migrations + 1
    /\ migration' = "locking"
    /\ UNCHANGED <<Tables, Keys, revalidates, builder, keeper, horizon, indexFaults>>
LockOut ==
    /\ migration = "locking"
    /\ \/ /\ schemaKey = NoOne
          /\ schemaKey' = Migrator /\ migration' = "script"
          /\ UNCHANGED <<cancelKey, indexOf, builder>>
       \/ /\ schemaKey \in Indexers
          /\ cancelKey' = TRUE
          /\ IF builder[schemaKey].pc = "building"
             THEN /\ indexOf' = [indexOf EXCEPT ![builder[schemaKey].leaf] = "invalid"]
                  /\ builder' = [builder EXCEPT ![schemaKey].pc = "canceled"]
             ELSE UNCHANGED <<indexOf, builder>>
          /\ UNCHANGED <<schemaKey, migration>>
    /\ UNCHANGED <<parts, parentValid, tableKey, historyKey, revalidates, keeper, horizon, indexFaults, migrations>>
\* It commits, or fails, or gave up at its deadline; its keys go with it.
MigrationEnds ==
    /\ \/ migration = "script" /\ UNCHANGED indexFaults
       \/ migration = "locking" /\ IndexFault
    /\ migration' = "idle" /\ cancelKey' = FALSE
    /\ schemaKey' = IF schemaKey = Migrator THEN NoOne ELSE schemaKey
    /\ UNCHANGED <<Tables, tableKey, historyKey, revalidates, builder, keeper, horizon, migrations>>

IndexStep(l) ==
    \/ IndexLists(l) \/ TakesSchema(l) \/ TakesTable(l) \/ TableDeferred(l)
    \/ BuildStarts(l) \/ BuildEnds(l) \/ CancelChecked(l) \/ AttachIndex(l) \/ AttachDeferred(l) \/ PassEnded(l)
IndexNext ==
    \/ \E l \in Indexers :
        \/ IndexStep(l) \/ IndexSkips(l) \/ BuildCanceled(l) \/ BuildFails(l) \/ TermOver(l)
        \/ RetentionLists(l) \/ DropChecks(l) \/ DropEnds(l) \/ CreateStarts(l) \/ CreateEnds(l)
        \/ \E p \in OldPartitions : DropStarts(l, p)
    \/ TimePasses \/ MigrationTries \/ LockOut \/ MigrationEnds

-----------------------------------------------------------------------------
\* The table's index is valid once no partition lacks it: retention never
\* drops the last one lacking it, which would leave it invalid for good where
\* the server does not revalidate. A drop past its check of the key runs beside
\* no build of its partition or of DEFAULT, and a creation beside none of
\* DEFAULT; a migration's script runs beside no build.
IndexSound ==
    /\ (\A p \in parts : indexOf[p] = "attached") => parentValid
    /\ \A l \in Indexers, m \in Indexers :
        builder[m].pc = "building" =>
            /\ keeper[l].pc = "dropping" => builder[m].leaf \notin {keeper[l].leaf, Default}
            /\ keeper[l].pc = "creating" => builder[m].leaf # Default
            /\ migration # "script"

\* A pass is run every interval, and a lock given up by whoever holds it. The
\* migration polls the schema's key every 50 ms, much oftener than a pass ended
\* by its cancel is run again.
IndexFair ==
    /\ \A l \in Indexers : WF_indexVars(IndexStep(l))
    /\ \A l \in Indexers : WF_indexVars(DropChecks(l) \/ DropEnds(l) \/ CreateEnds(l))
    /\ \A l \in Indexers, p \in OldPartitions : WF_indexVars(DropStarts(l, p))
    /\ WF_indexVars(LockOut \/ MigrationEnds)
    /\ SF_indexVars(LockOut /\ migration' = "script")

\* The index the upgrade declared is completed, whatever was canceled, dropped
\* or deferred meanwhile, and a migration gets its turn.
Indexed == parentValid /\ migration # "locking"
IndexCompletes == <>[]Indexed
=============================================================================
