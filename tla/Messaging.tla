----------------------------- MODULE Messaging ------------------------------
(***************************************************************************)
(* Publish and subscribe (messaging.go, pgsql/messaging.go,                *)
(* hoppersqlite/messaging.go and funcs.go): a publish inserts one delivery *)
(* for each subscription whose pattern matches the topic, and none where a *)
(* live one has its dedup key; in a transaction that may roll back or not. *)
(* Subscriptions are created and changed by clients that start, and dead   *)
(* letters are replayed one at a time.                                     *)
(***************************************************************************)
EXTENDS Integers, Sequences, SequencesExt, FiniteSets, FiniteSetsExt

CONSTANTS Subs,           \* the subscriptions, in the order a publish reads them
          SubPatterns,    \* the patterns each may have: sequences of words
          Topics,
          DedupKeys, NoDedup,
          MaxPublishes, MaxUpserts, MaxReplays

VARIABLES subs,        \* hopper_subscriptions: pattern, or <<>> for no row
          deliveries,  \* committed: [sub, key, msg, state]
          txRows,      \* those of an open transaction
          last,        \* the last publish: its topic, patterns and results
          replay,      \* the IDs ReplayDiscarded has listed and not retried
          publishes, upserts, replays
messagingVars == <<subs, deliveries, txRows, last, replay, publishes, upserts, replays>>

-----------------------------------------------------------------------------
(* A pattern as the regular expression hopper_topic_regex and topicRegexp  *)
(* make of it, by replacing parts of its text in turn.                     *)

RECURSIVE ReplaceEach(_, _, _)
ReplaceEach(s, old, new) ==
    IF Len(s) < Len(old) THEN s
    ELSE IF IsPrefix(old, s) THEN new \o ReplaceEach(SubSeq(s, Len(old) + 1, Len(s)), old, new)
    ELSE <<Head(s)>> \o ReplaceEach(Tail(s), old, new)

\* Words, or topics, with the dots between them.
Dotted(words) == [i \in 1..(2 * Len(words) - 1) |-> IF i % 2 = 1 THEN words[(i + 1) \div 2] ELSE "."]

\* In a regular expression, "." is a dot, "(..*)?" a dot and anything after
\* it, or nothing, "(.*.)?" anything up to a dot, or nothing, and ".*" anything.
Replacements ==
    << <<<<"*">>, <<"[^.]+">>>>,
       <<<<".", "#", ".">>, <<"(..*)?", ".">>>>,
       <<<<".", "#">>, <<"(..*)?">>>>,
       <<<<"#", ".">>, <<"(.*.)?">>>>,
       <<<<"#">>, <<".*">>>> >>
\* Mutant: the dots around a "#" are not its own.
HashAlone(pattern) ==
    FoldLeft(LAMBDA expr, r : ReplaceEach(expr, r[1], r[2]), Dotted(pattern), <<Replacements[1], Replacements[5]>>)
TopicRegexp(pattern) ==
    FoldLeft(LAMBDA expr, r : ReplaceEach(expr, r[1], r[2]), Dotted(pattern), Replacements)

\* Where a match that has come to i in t may be after one more atom.
After1(t, i, atom) ==
    CASE atom = "[^.]+" -> {j \in {i + 1} : j <= Len(t) /\ t[j] # "."}
      [] atom = "(..*)?" -> {i} \cup {j \in (i + 1)..Len(t) : t[i + 1] = "."}
      [] atom = "(.*.)?" -> {i} \cup {j \in (i + 1)..Len(t) : t[j] = "."}
      [] atom = ".*" -> i..Len(t)
      [] OTHER -> {j \in {i + 1} : j <= Len(t) /\ t[j] = atom}
TopicMatches(pattern, topic) ==
    LET t == Dotted(topic)
        Step(at, atom) == UNION {After1(t, i, atom) : i \in at}
    IN Len(t) \in FoldLeft(Step, {0}, TopicRegexp(pattern))

\* What Subscription documents: the words of the topic in turn, "*" for one
\* of them and "#" for zero or more.
Documented(pattern, topic) ==
    \E at \in [0..Len(pattern) -> 0..Len(topic)] :
        /\ at[0] = 0 /\ at[Len(pattern)] = Len(topic)
        /\ \A i \in 1..Len(pattern) :
            IF pattern[i] = "#" THEN at[i] >= at[i - 1]
            ELSE at[i] = at[i - 1] + 1 /\ pattern[i] \in {"*", topic[at[i]]}

-----------------------------------------------------------------------------
NoPublish == [topic |-> <<>>, patterns |-> [s \in ToSet(Subs) |-> <<>>], results |-> <<>>, msg |-> 0]
MessagingInit ==
    /\ subs = [s \in ToSet(Subs) |-> <<>>]
    /\ deliveries = {} /\ txRows = {} /\ last = NoPublish /\ replay = {}
    /\ publishes = 0 /\ upserts = 0 /\ replays = 0

\* SubscriptionUpsert, by a client that starts.
SubscriptionUpsert(s, pattern) ==
    /\ upserts < MaxUpserts
    /\ upserts' = upserts + 1
    /\ subs' = [subs EXCEPT ![s] = pattern]
    /\ UNCHANGED <<deliveries, txRows, last, replay, publishes, replays>>

\* Mutant: a delivery has a duplicate only in its own publish.
NeverClashes(d, s, key) == FALSE
Clashes(d, s, key) == key # NoDedup /\ d.sub = s /\ d.key = key /\ d.state = "live"

\* messagePublishSQL, MessagePublish: a row for each subscription that
\* matches, or the live row that has its dedup key, which is a duplicate.
MessagePublish(topic, key) ==
    LET matching == SelectSeq(Subs, LAMBDA s : subs[s] # <<>> /\ TopicMatches(subs[s], topic))
        Existing(s) == {d \in deliveries \cup txRows : Clashes(d, s, key)}
        new == [sub |-> "", key |-> key, msg |-> publishes + 1, state |-> "live"]
    IN [i \in 1..Len(matching) |->
          IF Existing(matching[i]) = {} THEN [job |-> [new EXCEPT !.sub = matching[i]], duplicate |-> FALSE]
          ELSE [job |-> CHOOSE d \in Existing(matching[i]) : TRUE, duplicate |-> TRUE]]
Inserted(results) == {results[i].job : i \in {k \in DOMAIN results : ~results[k].duplicate}}
Published(topic, results) ==
    last' = [topic |-> topic, patterns |-> subs, results |-> results, msg |-> publishes + 1]

\* Publish waits for a transaction that has inserted what it would.
Publish(topic, key) ==
    LET results == MessagePublish(topic, key) IN
    /\ publishes < MaxPublishes
    /\ \A s \in ToSet(Subs) : \A d \in txRows : ~Clashes(d, s, key)
    /\ deliveries' = deliveries \cup Inserted(results)
    /\ Published(topic, results)
    /\ publishes' = publishes + 1
    /\ UNCHANGED <<subs, txRows, replay, upserts, replays>>
PublishTx(topic, key) ==
    LET results == MessagePublish(topic, key) IN
    /\ publishes < MaxPublishes
    /\ txRows' = txRows \cup Inserted(results)
    /\ Published(topic, results)
    /\ publishes' = publishes + 1
    /\ UNCHANGED <<subs, deliveries, replay, upserts, replays>>
TxEnds(commits) ==
    /\ txRows # {}
    /\ deliveries' = IF commits THEN deliveries \cup txRows ELSE deliveries
    /\ txRows' = {}
    /\ UNCHANGED <<subs, last, replay, publishes, upserts, replays>>

\* A delivery is acked, or out of attempts and dead-lettered.
DeliveryEnds(d, state) ==
    /\ d \in deliveries /\ d.state = "live"
    /\ deliveries' = (deliveries \ {d}) \cup {[d EXCEPT !.state = state]}
    /\ UNCHANGED <<subs, txRows, last, replay, publishes, upserts, replays>>

\* ReplayDiscarded lists the dead letters of a subscription and retries each;
\* one whose dedup key a live delivery has by then stays (ErrUniqueConflict).
ReplayLists(s) ==
    /\ replay = {} /\ replays < MaxReplays
    /\ replays' = replays + 1
    /\ replay' = {[sub |-> s, msg |-> d.msg] : d \in {e \in deliveries : e.sub = s /\ e.state = "discarded"}}
    /\ UNCHANGED <<subs, deliveries, txRows, last, publishes, upserts>>
ReplayRetries(r) ==
    LET dead == {d \in deliveries : d.sub = r.sub /\ d.msg = r.msg /\ d.state = "discarded"} IN
    /\ r \in replay
    /\ replay' = replay \ {r}
    /\ \A d \in dead, e \in txRows : ~Clashes(e, d.sub, d.key)
    /\ deliveries' = IF \E d \in dead, e \in deliveries : Clashes(e, d.sub, d.key) THEN deliveries
                     ELSE (deliveries \ dead) \cup {[d EXCEPT !.state = "live"] : d \in dead}
    /\ UNCHANGED <<subs, txRows, last, publishes, upserts, replays>>

MessagingNext ==
    \/ \E s \in ToSet(Subs) : ReplayLists(s) \/ \E pattern \in SubPatterns[s] : SubscriptionUpsert(s, pattern)
    \/ \E topic \in Topics, key \in DedupKeys : Publish(topic, key) \/ PublishTx(topic, key)
    \/ \E commits \in BOOLEAN : TxEnds(commits)
    \/ \E d \in deliveries, state \in {"completed", "discarded"} : DeliveryEnds(d, state)
    \/ \E r \in replay : ReplayRetries(r)

-----------------------------------------------------------------------------
\* What the code's regular expression and the documentation differ in: a
\* pattern that begins with two "#" and goes on.
LeadingHashes(pattern) == Len(pattern) >= 3 /\ pattern[1] = "#" /\ pattern[2] = "#"

\* The subscriptions that a publish reached are those whose pattern matches,
\* word by word, what was published; each gets a message once, and has at
\* most one live delivery of a dedup key, whatever transactions, replays and
\* publishes come between.
MessagesRouted ==
    LET all == deliveries \cup txRows IN
    /\ \A s \in ToSet(Subs) :
        LET p == last.patterns[s] IN
        (p # <<>> /\ ~LeadingHashes(p)) =>
            (Documented(p, last.topic) <=> Cardinality({i \in DOMAIN last.results : last.results[i].job.sub = s}) = 1)
    /\ \A d, e \in all : d # e => ~(d.sub = e.sub /\ (d.msg = e.msg \/ (d.key = e.key /\ d.key # NoDedup /\ d.state = "live" /\ e.state = "live")))

\* Subscription: "dot-separated words, where "*" matches one word and "#"
\* zero or more", of every pattern.
RoutedAsDocumented ==
    \A s \in ToSet(Subs) :
        LET p == last.patterns[s] IN
        p # <<>> => (Documented(p, last.topic) <=> \E i \in DOMAIN last.results : last.results[i].job.sub = s)

\* PublishResult: "MessageID identifies the message across its deliveries",
\* the first result's.
MessageIDShared ==
    \A i \in DOMAIN last.results : ~last.results[i].duplicate => last.results[i].job.msg = last.results[1].job.msg
=============================================================================
