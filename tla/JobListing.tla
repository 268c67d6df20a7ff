----------------------------- MODULE JobListing -----------------------------
(***************************************************************************)
(* Listing jobs by tags, live and from history (control.go jobs,           *)
(* pgsql/jobs.go JobList and listTagsHistory, hoppersqlite/jobs.go         *)
(* JobList): pages by ID, each of a walk of the tags' rows that goes on    *)
(* with twice the keys while the filter leaves a page short, merged with   *)
(* the live table's; while jobs are inserted, end, are retried and go.     *)
(***************************************************************************)
EXTENDS Integers, Sequences, SequencesExt, FiniteSets, FiniteSetsExt

CONSTANTS ListIds,           \* 1..n
          ListStarts,        \* the jobs there may be at first
          PageSizes,
          Queries,           \* [tags, all, newest, engine]: TagsAll or TagsAny
          MaxWalkPages,
          MaxListMoves

VARIABLES rows,      \* each ID's job: [place, keeps, tags]; keeps is whether
                     \* the rest of the filter does
          query, limit,
          list,      \* the listing
          listed,    \* what Jobs has yielded
          steady,    \* the IDs whose job has been there since it began
          listMoves
listingVars == <<rows, query, limit, list, listed, steady, listMoves>>

NoId == 0
\* In listing order.
Before(a, b) == IF query.newest THEN a > b ELSE a < b
Past(cursor, ids) == {i \in ids : cursor = NoId \/ Before(cursor, i)}
FirstOnes(ids, n) == {i \in ids : Cardinality({j \in ids : Before(j, i)}) < n}
LastOf(ids) == CHOOSE i \in ids : \A j \in ids : ~Before(i, j)

ListingInit ==
    /\ rows \in [ListIds -> ListStarts]
    /\ query \in Queries /\ limit \in PageSizes
    /\ list = [at |-> "page", after |-> NoId]
    /\ listed = <<>>
    /\ steady = {i \in ListIds : rows[i].place \in {"live", "history"}}
    /\ listMoves = 0

-----------------------------------------------------------------------------
(* The jobs, meanwhile.                                                    *)

Moves(i, place) ==
    /\ listMoves < MaxListMoves
    /\ listMoves' = listMoves + 1
    /\ rows' = [rows EXCEPT ![i].place = place]
    /\ UNCHANGED <<query, limit, list, listed>>
JobEnds(i) == rows[i].place = "live" /\ Moves(i, "history") /\ UNCHANGED steady
JobIsRetried(i) == rows[i].place = "history" /\ Moves(i, "live") /\ UNCHANGED steady
JobIsInserted(i) == rows[i].place = "none" /\ Moves(i, "live") /\ UNCHANGED steady
\* A partition of history that is truncated leaves its tags rows ("gone").
JobGoes(i) ==
    /\ rows[i].place \in {"live", "history"}
    /\ Moves(i, IF rows[i].place = "history" THEN "gone" ELSE "none")
    /\ steady' = steady \ {i}

-----------------------------------------------------------------------------
(* A page.  r is what its statements read.                                 *)

HasTags(r, i) == IF query.all THEN query.tags \subseteq r[i].tags ELSE query.tags \cap r[i].tags # {}
\* The jobs of a table that the listing is of.
Listable(r, place) == {i \in ListIds : r[i].place = place /\ r[i].keeps /\ HasTags(r, i)}
\* The tags rows of history for the walked tags.
TagsRows(r, walked) == {i \in ListIds : r[i].place \in {"history", "gone"} /\ r[i].tags \cap walked # {}}

\* listTagsHistory begins a transaction, whose snapshot its statements share.
\* TagsAll walks one of its tags, the rarest as far as it knows.
WalkBegins(walked) ==
    /\ list.at = "page" /\ query.engine = "pg"
    /\ IF query.all THEN Cardinality(walked) = 1 /\ walked \subseteq query.tags ELSE walked = query.tags
    /\ list' = [at |-> "walk", after |-> list.after, snapshot |-> rows, walked |-> walked, cursor |-> list.after,
                walkLimit |-> limit, first |-> TRUE, keys |-> {}, jobs |-> {}, liveFull |-> FALSE, liveEnd |-> NoId]
    /\ UNCHANGED <<rows, query, limit, listed, steady, listMoves>>

\* Mutant: each statement reads what is committed.
ReadsNow == rows
Reads == list.snapshot
\* The keys of history's jobs with a walked tag past the cursor.
Walk == FirstOnes(Past(list.cursor, TagsRows(Reads, list.walked)), list.walkLimit)
WalkStep ==
    /\ list.at = "walk"
    /\ list' = [list EXCEPT !.at = "fetch", !.keys = Walk]
    /\ UNCHANGED <<rows, query, limit, listed, steady, listMoves>>

\* What the page is of the jobs read so far, which are known up to the end of
\* an arm that came back full: [jobs, done].  Mutant: all there are.
KnownAll(jobs, liveFull, liveEnd, walkFull, walkEnd) ==
    [jobs |-> FirstOnes(jobs, limit), done |-> Cardinality(jobs) >= limit \/ ~walkFull]
Known(jobs, liveFull, liveEnd, walkFull, walkEnd) ==
    LET byWalk == walkFull /\ (~liveFull \/ Before(walkEnd, liveEnd))
        end == IF byWalk THEN walkEnd ELSE liveEnd
        known == IF byWalk \/ liveFull THEN {i \in jobs : ~Before(end, i)} ELSE jobs
    IN [jobs |-> FirstOnes(known, limit), done |-> Cardinality(known) >= limit \/ ~byWalk]

\* Jobs yields the page, and asks for the next if it is full.
Yields(page) ==
    /\ listed' = listed \o SetToSortSeq(page, Before)
    /\ list' = IF Cardinality(page) < limit THEN [at |-> "done"] ELSE [at |-> "page", after |-> LastOf(page)]

FetchStep ==
    LET live == IF list.first THEN FirstOnes(Past(list.after, Listable(Reads, "live")), limit) ELSE {}
        fetched == FirstOnes(list.keys \cap Listable(Reads, "history"), limit)
        jobs == list.jobs \cup live \cup fetched
        liveFull == IF list.first THEN Cardinality(live) = limit ELSE list.liveFull
        liveEnd == IF list.first /\ live # {} THEN LastOf(live) ELSE list.liveEnd
        walkFull == Cardinality(list.keys) = list.walkLimit
        walkEnd == IF list.keys = {} THEN NoId ELSE LastOf(list.keys)
        known == Known(jobs, liveFull, liveEnd, walkFull, walkEnd)
    IN
    /\ list.at = "fetch"
    /\ IF known.done THEN Yields(known.jobs)
       ELSE /\ list' = [list EXCEPT !.at = "walk", !.first = FALSE, !.jobs = jobs, !.liveFull = liveFull,
                                    !.liveEnd = liveEnd, !.cursor = walkEnd,
                                    !.walkLimit = Min({2 * @, MaxWalkPages * limit})]
            /\ UNCHANGED listed
    /\ UNCHANGED <<rows, query, limit, steady, listMoves>>

\* SQLite's, in one statement: the first of each table's.
ListsAtOnce ==
    /\ list.at = "page" /\ query.engine = "sqlite"
    /\ LET Arm(place) == FirstOnes(Past(list.after, Listable(rows, place)), limit)
       IN Yields(FirstOnes(Arm("live") \cup Arm("history"), limit))
    /\ UNCHANGED <<rows, query, limit, steady, listMoves>>

ListingNext ==
    \/ \E i \in ListIds : JobEnds(i) \/ JobIsRetried(i) \/ JobIsInserted(i) \/ JobGoes(i)
    \/ \E walked \in SUBSET query.tags : WalkBegins(walked)
    \/ WalkStep \/ FetchStep \/ ListsAtOnce

-----------------------------------------------------------------------------
\* A listing yields each job once, in order, only jobs that match, and past
\* none that has been there since it began, in whichever table and however
\* often it changed tables; when it ends, it has yielded all of them.
ListingExact ==
    LET asked == {i \in steady : rows[i].keeps /\ HasTags(rows, i)} IN
    /\ \A a, b \in 1..Len(listed) : a < b => Before(listed[a], listed[b])
    /\ \A a \in 1..Len(listed) : rows[listed[a]].keeps /\ HasTags(rows, listed[a])
    /\ \A i \in asked :
        (list.at = "done" \/ (listed # <<>> /\ ~Before(Last(listed), i))) => i \in ToSet(listed)
=============================================================================
