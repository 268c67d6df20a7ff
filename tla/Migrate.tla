------------------------------- MODULE Migrate -------------------------------
(***************************************************************************)
(* Schema migrations (hoppermigrate.go) run by several processes at once,  *)
(* each of a release that knows the versions up to its own latest, under   *)
(* the engine's migration lock: an advisory lock and a transaction a       *)
(* version on Postgres (MigrationApply in pgsql/history.go, the migrators  *)
(* of hopperpgx and hoppersql), the write lock and a savepoint a version   *)
(* on SQLite (migrator in hoppersqlite.go), which commits when it closes.  *)
(* Clients start beside them if their schema is current (checkSchema).     *)
(***************************************************************************)
EXTENDS Integers, FiniteSets

CONSTANTS
  Migrators,    \* the processes
  Latest,       \* the newest version each process's release knows
  MigrationEngines, \* "pg", "sqlite"
  MaxMigrates,  \* the most migration runs of a process
  MaxCrashes    \* the most processes that die at a migration

\* One release is the newest.
ASSUME MigrateAssumption ==
  /\ "none" \notin Migrators
  /\ Latest \in [Migrators -> Nat]
  /\ \E p \in Migrators : \A q \in Migrators : Latest[q] <= Latest[p]

VARIABLES
  dbEngine,
  schema,       \* the committed schema: the versions hopper_schema records and
                \* the versions whose scripts' objects are there
  open,         \* the schema as the lock holder's open transaction sees it
  lockedBy,     \* the holder of the migration lock
  mig,          \* each process's run
  started,      \* the processes whose client has started
  reverted,     \* whether a Down has been run since the newest version was last
                \* there with all before it
  cut,          \* whether a Down of a release that does not know the newest
                \* version there has been run since a run last left no gap
  crashes

migrateVars == <<dbEngine, schema, open, lockedBy, mig, started, reverted, cut, crashes>>

NewestRelease == CHOOSE v \in {Latest[p] : p \in Migrators} :
                   \A p \in Migrators : Latest[p] <= v

Highest(vs) == IF vs = {} THEN 0 ELSE CHOOSE v \in vs : \A u \in vs : u <= v

NoRun == [pc |-> "idle", up |-> TRUE, target |-> 0, todo |-> {}, version |-> 0, runs |-> 0]

MigrateInit ==
  /\ dbEngine \in MigrationEngines
  /\ schema = [versions |-> {}, scripts |-> {}]
  /\ open = schema
  /\ lockedBy = "none"
  /\ mig = [p \in Migrators |-> NoRun]
  /\ started = {}
  /\ reverted = FALSE
  /\ cut = FALSE
  /\ crashes = 0

\* run is called, with the default target or one of its own, to migrate up or
\* down, by any release.
MigrateCalled(p) ==
  /\ mig[p].pc = "idle"
  /\ mig[p].runs < MaxMigrates
  /\ \E up \in BOOLEAN, t \in 0 .. Latest[p] :
       mig' = [mig EXCEPT ![p] = [pc |-> "lock", up |-> up,
                 target |-> IF up /\ t = 0 THEN Latest[p] ELSE t,
                 todo |-> {}, version |-> 0, runs |-> @.runs + 1]]
  /\ UNCHANGED <<dbEngine, schema, open, lockedBy, started, reverted, cut, crashes>>

\* The mutant that does not wait for another process's lock.
LockAnyway == TRUE

LockFree == lockedBy = "none"

\* Migrator.Lock.  On SQLite it begins the transaction that ends at Close.
MigrateLocks(p) ==
  /\ mig[p].pc = "lock"
  /\ LockFree
  /\ lockedBy' = p
  /\ open' = schema
  /\ mig' = [mig EXCEPT ![p].pc = "read"]
  /\ UNCHANGED <<dbEngine, schema, started, reverted, cut, crashes>>

\* The versions to apply, or to revert.
Unapplied(p, versions) ==
  IF mig[p].up
    THEN {v \in 1 .. Latest[p] : v <= mig[p].target /\ v \notin versions}
    ELSE {v \in 1 .. Latest[p] : v > mig[p].target /\ v \in versions}

\* Executor.Versions under the lock.
MigrateReads(p) ==
  /\ mig[p].pc = "read"
  /\ mig' = [mig EXCEPT ![p].pc = "apply", ![p].todo = Unapplied(p, open.versions),
                        ![p].version = Highest(open.versions)]
  /\ reverted' = (reverted \/ ~mig[p].up)
  /\ cut' = (cut \/ (~mig[p].up /\ Highest(open.versions) > Latest[p]))
  /\ UNCHANGED <<dbEngine, schema, open, lockedBy, started, crashes>>

\* The versions in order: ascending to apply, descending to revert.
NextVersion(p) ==
  CHOOSE v \in mig[p].todo :
    \A u \in mig[p].todo : IF mig[p].up THEN v <= u ELSE u <= v

\* Apply's first half: the script, up, or the removal of the version's row.
ApplyStarts(p) ==
  /\ mig[p].pc = "apply"
  /\ mig[p].todo # {}
  /\ LET v == NextVersion(p)
     IN  open' = IF mig[p].up THEN [open EXCEPT !.scripts = @ \cup {v}]
                 ELSE [open EXCEPT !.versions = @ \ {v}]
  /\ mig' = [mig EXCEPT ![p].pc = "record"]
  /\ UNCHANGED <<dbEngine, schema, lockedBy, started, reverted, cut, crashes>>

\* The mutant whose two halves commit apart.
AppliedApart(v) == schema' = [open EXCEPT !.scripts = schema.scripts]

\* A version's transaction commits on Postgres; its savepoint is released on
\* SQLite.
Applied(v) == schema' = IF dbEngine = "pg" THEN open' ELSE schema

\* Apply's second half: the version's row, or the down script.
ApplyEnds(p) ==
  /\ mig[p].pc = "record"
  /\ LET v == NextVersion(p)
     IN  /\ open' = IF mig[p].up THEN [open EXCEPT !.versions = @ \cup {v}]
                    ELSE [open EXCEPT !.scripts = @ \ {v}]
         /\ mig' = [mig EXCEPT ![p].pc = "apply", ![p].todo = @ \ {v},
                               ![p].version = IF mig[p].up THEN v ELSE v - 1]
         /\ Applied(v)
  /\ UNCHANGED <<dbEngine, lockedBy, started, reverted, cut, crashes>>

\* Apply fails and rolls back its transaction or savepoint; run returns the
\* error through Close, which commits what applied before on SQLite.
ApplyFails(p) ==
  /\ mig[p].pc = "record"
  /\ LET v == NextVersion(p)
     IN  open' = IF mig[p].up THEN [open EXCEPT !.scripts = @ \ {v}]
                 ELSE [open EXCEPT !.versions = @ \cup {v}]
  /\ mig' = [mig EXCEPT ![p].pc = "failed"]
  /\ UNCHANGED <<dbEngine, schema, lockedBy, started, reverted, cut, crashes>>

\* MigrationExecutor.Close: the lock is released, and on SQLite the
\* transaction commits.
MigrateCloses(p) ==
  /\ \/ mig[p].pc = "apply" /\ mig[p].todo = {}
     \/ mig[p].pc = "failed"
  /\ schema' = open
  /\ lockedBy' = "none"
  /\ mig' = [mig EXCEPT ![p].pc = "idle"]
  /\ reverted' = (reverted /\ open.versions # 1 .. NewestRelease)
  /\ cut' = (cut /\ open.versions # 1 .. Highest(open.versions))
  /\ UNCHANGED <<dbEngine, open, started, crashes>>

\* The process dies: the engine ends its transaction and its lock.
MigratorDies(p) ==
  /\ crashes < MaxCrashes
  /\ mig[p].pc # "idle"
  /\ crashes' = crashes + 1
  /\ lockedBy' = IF lockedBy = p THEN "none" ELSE lockedBy
  /\ open' = IF lockedBy = p THEN schema ELSE open
  /\ mig' = [mig EXCEPT ![p].pc = "idle"]
  /\ started' = started \ {p}
  /\ UNCHANGED <<dbEngine, schema, reverted, cut>>

\* Client.Start's checkSchema.
ReleaseStarts(p) ==
  /\ p \notin started
  /\ Highest(schema.versions) >= Latest[p]
  /\ started' = started \cup {p}
  /\ UNCHANGED <<dbEngine, schema, open, lockedBy, mig, reverted, cut, crashes>>

MigrateNext ==
  \E p \in Migrators :
    \/ MigrateCalled(p) \/ MigrateLocks(p) \/ MigrateReads(p)
    \/ ApplyStarts(p) \/ ApplyEnds(p) \/ ApplyFails(p) \/ MigrateCloses(p)
    \/ MigratorDies(p) \/ ReleaseStarts(p)

MigrateSpec == MigrateInit /\ [][MigrateNext]_migrateVars

-----------------------------------------------------------------------------
\* What Result.Version says of a run that ended well: the schema version
\* afterwards.  It holds of every run until a release reverts under versions it
\* does not know (run in hoppermigrate.go).
VersionReported ==
  \A p \in Migrators :
    mig[p].pc = "apply" /\ mig[p].todo = {} => mig[p].version = Highest(open.versions)

\* Whoever migrates up or down at once, fails or dies: the committed schema has
\* exactly the objects of the versions it records.  Unless a release reverted
\* under versions it does not know, these are the first ones without a gap, and
\* a run that ended well reports the version it left.  A client that started
\* has the objects its release relies on, unless a Down took them away (run in
\* hoppermigrate.go, checkSchema in client.go).
SchemaWhole ==
  /\ schema.scripts = schema.versions
  /\ ~cut => schema.versions = 1 .. Highest(schema.versions) /\ VersionReported
  /\ ~reverted => \A p \in started : 1 .. Latest[p] \subseteq schema.scripts
=============================================================================
