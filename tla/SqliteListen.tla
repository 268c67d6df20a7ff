---------------------------- MODULE SqliteListen ----------------------------
(***************************************************************************)
(* The SQLite driver's notifications (hoppersqlite/listener.go, executor.go*)
(* notify): rows that a transaction writes and that expire, and a listener *)
(* that reads them by seq, a page at a time, at once when a transaction of *)
(* its process poked it after its commit, and otherwise when its timer     *)
(* finds that another connection has committed since (data_version).       *)
(***************************************************************************)
EXTENDS Integers, Sequences, FiniteSets, FiniteSetsExt

CONSTANTS Channels, Listened,
          ListenPage, NoteRetention,
          MaxNotes, MaxNoteTime, MaxOpens

ASSUME ListenAssumption == ListenPage \in Nat \ {0}

VARIABLES notes,     \* hopper_notifications: [seq, channel, at]
          noteSeq,   \* the last seq given out
          noteNow,
          dataVersion,
          pokes,     \* commits of this process that are about to poke
          poke,      \* the listener's channel holds a signal
          lstn,      \* the listener
          heard,     \* what Next returned since it opened
          opens
listenVars == <<notes, noteSeq, noteNow, dataVersion, pokes, poke, lstn, heard, opens>>

Closed == [at |-> "closed", last |-> 0, version |-> -1, poked |-> FALSE, pending |-> {}, since |-> 0]
ListenInit ==
    /\ notes = {} /\ noteSeq = 0 /\ noteNow = 0 /\ dataVersion = 0
    /\ pokes = 0 /\ poke = FALSE /\ lstn = Closed /\ heard = <<>> /\ opens = 0

NoteSeqs(ns) == {n.seq : n \in ns}
\* Mutant: a page of the newest rows.
NewestPage(from) == {n \in notes : n.seq > from /\ Cardinality({m \in notes : m.seq > n.seq}) < ListenPage}
Page(from) == {n \in notes : n.seq > from /\ Cardinality({m \in notes : from < m.seq /\ m.seq < n.seq}) < ListenPage}

\* A transaction that notified commits, of this process or another: w.notify
\* deletes what is past its retention with the row it inserts.
NotifyCommits(c, ours) ==
    /\ noteSeq < MaxNotes
    /\ noteSeq' = noteSeq + 1
    /\ notes' = {n \in notes : n.at >= noteNow - NoteRetention} \cup {[seq |-> noteSeq + 1, channel |-> c, at |-> noteNow]}
    /\ dataVersion' = dataVersion + 1
    /\ pokes' = IF ours THEN pokes + 1 ELSE pokes
    /\ UNCHANGED <<noteNow, poke, lstn, heard, opens>>
\* tx.Commit pokes the listeners after its COMMIT; Rollback, of one that a
\* COMMIT statement ended, does not.
Pokes(signals) ==
    /\ pokes > 0
    /\ pokes' = pokes - 1
    /\ poke' = (poke \/ (signals /\ lstn.at # "closed"))
    /\ UNCHANGED <<notes, noteSeq, noteNow, dataVersion, lstn, heard, opens>>
NoteTimePasses ==
    /\ noteNow < MaxNoteTime
    /\ noteNow' = noteNow + 1
    /\ UNCHANGED <<notes, noteSeq, dataVersion, pokes, poke, lstn, heard, opens>>

\* newListener registers the channel and then reads where to start.
NewListener ==
    /\ lstn.at = "closed" /\ opens < MaxOpens
    /\ opens' = opens + 1
    /\ lstn' = [Closed EXCEPT !.at = "starts"]
    /\ poke' = FALSE /\ heard' = <<>>
    /\ UNCHANGED <<notes, noteSeq, noteNow, dataVersion, pokes>>
ReadsStart ==
    /\ lstn.at = "starts"
    /\ lstn' = [lstn EXCEPT !.at = "version", !.poked = TRUE, !.last = Max({0} \cup NoteSeqs(notes)), !.since = Max({0} \cup NoteSeqs(notes))]
    /\ UNCHANGED <<notes, noteSeq, noteNow, dataVersion, pokes, poke, heard, opens>>

\* read: the version first, so that what commits in between is looked for
\* again.
ReadsVersion ==
    /\ lstn.at = "version"
    /\ lstn' = IF ~lstn.poked /\ dataVersion = lstn.version
               THEN [lstn EXCEPT !.at = "waits"]
               ELSE [lstn EXCEPT !.at = "rows", !.version = dataVersion]
    /\ UNCHANGED <<notes, noteSeq, noteNow, dataVersion, pokes, poke, heard, opens>>
\* Mutant: a full page is taken for all there is.
PageAlone(page) == poke
\* A full page leaves more to read.
PokesItself(page) == poke \/ Cardinality(page) = ListenPage
ReadsRows ==
    LET page == Page(lstn.last) IN
    /\ lstn.at = "rows"
    /\ lstn' = [lstn EXCEPT !.at = IF \E n \in page : n.channel \in Listened THEN "next" ELSE "waits",
                            !.last = Max({@} \cup NoteSeqs(page)),
                            !.pending = @ \cup NoteSeqs({n \in page : n.channel \in Listened})]
    /\ poke' = PokesItself(page)
    /\ UNCHANGED <<notes, noteSeq, noteNow, dataVersion, pokes, heard, opens>>

\* Next returns the first pending, in the order of their seqs; the next call reads once none is left.
NextReturns ==
    /\ lstn.at = "next"
    /\ heard' = Append(heard, Min(lstn.pending))
    /\ lstn' = [lstn EXCEPT !.pending = @ \ {Min(@)}, !.poked = TRUE,
                            !.at = IF lstn.pending = {Min(lstn.pending)} THEN "version" ELSE "next"]
    /\ UNCHANGED <<notes, noteSeq, noteNow, dataVersion, pokes, poke, opens>>
Poked ==
    /\ lstn.at = "waits" /\ poke
    /\ poke' = FALSE
    /\ lstn' = [lstn EXCEPT !.at = "version", !.poked = TRUE]
    /\ UNCHANGED <<notes, noteSeq, noteNow, dataVersion, pokes, heard, opens>>
ListenTimer ==
    /\ lstn.at = "waits" /\ ~poke
    /\ lstn' = [lstn EXCEPT !.at = "version", !.poked = FALSE]
    /\ UNCHANGED <<notes, noteSeq, noteNow, dataVersion, pokes, poke, heard, opens>>
\* A read fails, or the client stops: the listener is closed.
ListenerCloses ==
    /\ lstn.at # "closed" /\ opens < MaxOpens
    /\ lstn' = Closed /\ poke' = FALSE
    /\ UNCHANGED <<notes, noteSeq, noteNow, dataVersion, pokes, heard, opens>>

ListenNext ==
    \/ \E c \in Channels, ours \in BOOLEAN : NotifyCommits(c, ours)
    \/ \E s \in BOOLEAN : Pokes(s)
    \/ NoteTimePasses \/ NewListener \/ ReadsStart \/ ReadsVersion \/ ReadsRows \/ NextReturns
    \/ Poked \/ ListenTimer \/ ListenerCloses

ListenSpec == ListenInit /\ [][ListenNext]_listenVars

\* The listener's goroutine runs, and its timer fires.
Listens == NewListener \/ ReadsStart \/ ReadsVersion \/ ReadsRows \/ NextReturns \/ Poked \/ ListenTimer
ListenFair == WF_listenVars(Listens)

-----------------------------------------------------------------------------
\* A listener hears each notification at most once, in order, and past none
\* that is still there and that committed since it opened.
HeardInOrder ==
    lstn.at \notin {"closed", "starts"} =>
        /\ \A i, j \in DOMAIN heard : i < j => heard[i] < heard[j]
        /\ \A i \in DOMAIN heard, s \in lstn.pending : heard[i] < s
        /\ \A n \in notes : (lstn.since < n.seq /\ n.seq <= lstn.last /\ n.channel \in Listened) =>
                n.seq \in Range(heard) \cup lstn.pending

\* In the end the listener has heard every notification that is left to
\* hear, whether a poke came or only the timer's look at the version.
HeardAll == \A n \in notes : (n.channel \in Listened /\ n.seq > lstn.since) => n.seq \in Range(heard)
AllHeard == <>[]HeardAll
=============================================================================
