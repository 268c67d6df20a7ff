----------------------------- MODULE MCInserting -----------------------------
(***************************************************************************)
(* What puts jobs into the database and finds them there again, for TLC:    *)
(* the unique keys of stored jobs, the inserting calls, the workflows a     *)
(* caller builds, the deliveries of published messages and the listing of   *)
(* jobs.  A behavior is of the part it starts with, and leaves the others   *)
(* in a first state of theirs.                                              *)
(***************************************************************************)
EXTENDS MCJobStore, Inserts, Messaging, JobListing

CONSTANT Parts
VARIABLE part

MCVars == <<part, vars, insertVars, buildVars, messagingVars, listingVars>>

-----------------------------------------------------------------------------
(* Inputs of an insert: with and without a unique key, which leaves out     *)
(* args, is of the queue, replaces, or counts finished jobs.                *)

NotUnique == [on |-> FALSE, byArgs |-> FALSE, byQueue |-> FALSE, replace |-> FALSE, finished |-> {}]
ByArgs(finished) == [NotUnique EXCEPT !.on = TRUE, !.byArgs = TRUE, !.finished = finished]
Replacing(finished) == [ByArgs(finished) EXCEPT !.replace = TRUE]
ByQueue == [NotUnique EXCEPT !.on = TRUE, !.byQueue = TRUE]
Opts(queue, attempts, unique) == [queue |-> queue, maxAttempts |-> attempts, unique |-> unique]
NoOpts == Opts("", 0, NotUnique)
Input(rest, own, over) == [args |-> [tagged |-> "x", rest |-> rest], own |-> own, over |-> over]

PlainInput   == Input(1, NoOpts, NoOpts)
RefusedInput == Input(1, NoOpts, Opts("", -1, NotUnique))
SkipInput    == Input(2, Opts("", 0, ByArgs({})), NoOpts)
DoneInput    == Input(3, Opts("q", 0, ByArgs({})), Opts("", 0, ByArgs({"completed"})))
ReplaceInput == Input(4, NoOpts, Opts("", 2, Replacing({})))
AnewInput    == Input(5, NoOpts, Opts("", 2, Replacing({"discarded", "completed"})))
QueueInput   == Input(6, NoOpts, Opts("q", 2, ByQueue))

SomeLists == {
    <<PlainInput>>, <<PlainInput, RefusedInput>>, <<PlainInput, SkipInput>>,
    <<DoneInput, QueueInput>>, <<SkipInput, DoneInput, SkipInput>>,
    <<AnewInput, AnewInput, ReplaceInput>>}
TwoOfOneKey == {<<PlainInput, SkipInput>>, <<SkipInput, SkipInput>>}

-----------------------------------------------------------------------------
(* Steps of a workflow, with dependencies on earlier steps, repeated ones,  *)
(* ones on the step itself, on a later one and of another workflow.         *)

OwnStep(i) == [wf |-> "w", i |-> i]
OtherStep == [wf |-> "x", i |-> 1]
SomeSteps ==
    {[after |-> after, afterAny |-> groups, policy |-> IF after = <<>> THEN "" ELSE "ignore",
      reads |-> after # <<>>, name |-> name] :
        after \in {<<>>, <<OwnStep(1)>>, <<OwnStep(2), OwnStep(1), OwnStep(2)>>, <<OtherStep>>},
        groups \in {<<>>, <<<<OwnStep(1)>>>>, <<<<OwnStep(2), OwnStep(1), OwnStep(1)>>>>, <<<<>>>>,
                    <<<<OwnStep(1)>>, <<OwnStep(2)>>>>, <<<<OwnStep(2)>>, <<OwnStep(1), OwnStep(2)>>>>,
                    <<<<OtherStep>>>>},
        name \in {"", "n"}}

-----------------------------------------------------------------------------
(* Two subscriptions, one of every pattern of up to three words.            *)

TwoSubs == <<"s1", "s2">>
SomePatterns == [s \in {"s1", "s2"} |-> IF s = "s1" THEN [1..3 -> {"a", "*", "#"}] ELSE {<<"#">>}]
SomeTopics == {<<"a">>, <<"a", "b", "a">>}

-----------------------------------------------------------------------------
(* Jobs before a listing, by where they are and their tags.                 *)

JobAt(place, keeps, tags) == [place |-> place, keeps |-> keeps, tags |-> tags]
SomeStarts == {
    JobAt("none", TRUE, {"t", "u"}), JobAt("gone", TRUE, {"t", "u"}),
    JobAt("live", TRUE, {"t"}), JobAt("live", TRUE, {"t", "u"}),
    JobAt("history", TRUE, {"t", "u"}), JobAt("history", TRUE, {"u"}), JobAt("history", FALSE, {"t", "u"})}
TagQuery(all, newest, engine) == [tags |-> {"t", "u"}, all |-> all, newest |-> newest, engine |-> engine]
SomeQueries == {TagQuery(TRUE, FALSE, "pg"), TagQuery(FALSE, TRUE, "pg"), TagQuery(FALSE, FALSE, "sqlite")}

-----------------------------------------------------------------------------
MCInit ==
    /\ part \in Parts
    /\ Init /\ InsertsInit /\ BuildInit /\ MessagingInit /\ ListingInit
    \* one first state for the other parts
    /\ part # "listing" =>
        /\ rows = [i \in ListIds |-> JobAt("none", TRUE, {"t", "u"})]
        /\ query = TagQuery(TRUE, FALSE, "pg")
        /\ limit = 1

Others(p) ==
    /\ UNCHANGED part
    /\ p # "jobs" => UNCHANGED vars
    /\ p # "inserts" => UNCHANGED insertVars
    /\ p # "build" => UNCHANGED buildVars
    /\ p # "messages" => UNCHANGED messagingVars
    /\ p # "listing" => UNCHANGED listingVars

MCNext ==
    \/ part = "jobs" /\ Next /\ Others("jobs")
    \/ part = "inserts" /\ InsertsNext /\ Others("inserts")
    \/ part = "build" /\ BuildNext /\ Others("build")
    \/ part = "messages" /\ MessagingNext /\ Others("messages")
    \/ part = "listing" /\ ListingNext /\ Others("listing")

MCSpec == MCInit /\ [][MCNext]_MCVars

-----------------------------------------------------------------------------
\* What a call inserts is what its inputs ask for, in whatever statements,
\* a workflow's stored edges are those of its steps (Inserts), a message
\* becomes one job of each subscription it matches (Messaging), and a listing
\* has each job that stays once, and no other (JobListing): insert.go,
\* batch.go, workflow.go, jobcodec.go, messaging.go and control.go.
StoredAsAsked ==
    /\ part = "inserts" => InsertsSound
    /\ part = "build" => GraphAsBuilt
    /\ part = "messages" => MessagesRouted
    /\ part = "listing" => ListingExact

\* A batch ends once its jobs have (Inserts).
BatchesEnd == part = "inserts" => BatchNotStranded
=============================================================================
