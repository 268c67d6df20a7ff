------------------------------ MODULE MCLeading ------------------------------
(***************************************************************************)
(* The leader and its schedule, for TLC: the election, the slots of a       *)
(* periodic job, the definitions clients share, the cron schedules, and the *)
(* migration of the schema all of it rests on.  A behavior is of the part   *)
(* it starts with, and leaves the others in a first state of theirs.        *)
(***************************************************************************)
EXTENDS LeaderElection, Periodic, Cron, Migrate, TLC

CONSTANT Parts
VARIABLE part

MCVars == <<part, leaderVars, periodicVars, setsVars, cronVars, migrateVars>>

\* Release a decodes one of the two definitions, release b both.
NewerDecodesMore == [c \in {"a", "b"} |-> IF c = "a" THEN {"d1"} ELSE {"d1", "d2"}]

\* Release q has one migration more.
NewerHasMore == [m \in {"p", "q"} |-> IF m = "p" THEN 2 ELSE 3]

-----------------------------------------------------------------------------
(* Cron: hours of two minutes of two seconds, days of four hours (16        *)
(* seconds), weeks of three days, and a year of two months.                 *)

TwoMonths == <<3, 2>>
Star == [star |-> TRUE, start |-> 0, end |-> -1, step |-> 0]
AnyOne == <<Star>>
Value(x) == <<[star |-> FALSE, start |-> x, end |-> -1, step |-> 0]>>
SomeSpecs == {<<Value(0), minute, hour, day, month, weekday>> :
    minute \in {Value(1), <<[Star EXCEPT !.step = 2]>>},
    hour \in {Value(1), <<[star |-> FALSE, start |-> 2, end |-> 3, step |-> 0]>>},
    day \in {AnyOne, Value(3)}, month \in {AnyOne, Value(2)}, weekday \in {AnyOne, Value(3), Value(1)}}
MidnightSpecs == {<<Value(0), Value(0), Value(1), Value(3), AnyOne, AnyOne>>}

\* A clock that is before UTC by one offset, by another from an instant on.
Zone(before, after, at) == [before |-> before, after |-> after, at |-> at]
\* No change; an hour skipped west and east of UTC; one repeated, in the
\* morning, at night and at midnight.  Day 7 begins at 112, local time.
SomeZones == {
    Zone(0, 0, 0), Zone(-8, -4, 112 + 4 + 8), Zone(4, 8, 112 + 4 - 4), Zone(-4, -8, 112 + 8 + 4),
    Zone(8, 4, 112 + 8 - 8), Zone(-4, -8, 112 + 4 + 4), Zone(-4, -8, 112 + 4)}
\* The hour of midnight is skipped west of UTC.
MidnightZones == {Zone(-8, -4, 112 + 8)}
SomeInstants == {80 + 3 * i : i \in 0..26}

-----------------------------------------------------------------------------
MCInit ==
    /\ part \in Parts
    /\ LeaderInit /\ PeriodicInit /\ SetsInit /\ CronInit /\ MigrateInit
    \* one first state for the other parts
    /\ part # "slots" => opts.catchUp = 0 /\ ~opts.runOnStart
    /\ part # "sets" => own = [c \in Members |-> NoDef]
    /\ part # "migrate" => dbEngine = "pg"

Others(p) ==
    /\ UNCHANGED part
    /\ p # "leader" => UNCHANGED leaderVars
    /\ p # "slots" => UNCHANGED periodicVars
    /\ p # "sets" => UNCHANGED setsVars
    /\ p # "cron" => UNCHANGED cronVars
    /\ p # "migrate" => UNCHANGED migrateVars

MCNext ==
    \/ part = "leader" /\ LeaderNext /\ Others("leader")
    \/ part = "slots" /\ PeriodicNext /\ Others("slots")
    \/ part = "sets" /\ SetsNext /\ Others("sets")
    \/ part = "cron" /\ CronNext /\ Others("cron")
    \/ part = "migrate" /\ MigrateNext /\ Others("migrate")

MCSpec == MCInit /\ [][MCNext]_MCVars
MCCronSpec == MCSpec /\ CronFair

-----------------------------------------------------------------------------
\* No slot of a periodic job is lost or run twice, and of the definitions of
\* it the newest that can be decoded is scheduled, once (Periodic):
\* periodic.go and periodic_shared.go.
ScheduleKept == [][/\ part = "slots" => SlotStep
                   /\ part = "sets" => ScheduleStep]_MCVars
=============================================================================
