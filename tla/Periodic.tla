------------------------------ MODULE Periodic ------------------------------
(***************************************************************************)
(* Periodic jobs: the slots that are inserted, and whose definition of a   *)
(* job is scheduled.                                                       *)
(***************************************************************************)
EXTENDS Integers, Sequences, SequencesExt, FiniteSets, FiniteSetsExt

(***************************************************************************)
(* The leader's loop over one periodic job (periodic.go): which slots of   *)
(* its schedule are inserted, across passes that are slow, fail or are     *)
(* woken late, and across leaders, the statement of one of which may       *)
(* commit after the next has taken over.  The database keeps the last slot *)
(* inserted (PeriodicInsert of both engines).                              *)
(*                                                                         *)
(* Slots are the multiples of Every; one clock stands for the database's   *)
(* and the leader's.                                                       *)
(***************************************************************************)
CONSTANTS Every,        \* the schedule's interval, in ticks
          LeaderTTL,    \* slots within it are made up for after a failover
          Interval,     \* leaderInterval: when a failure is tried again
          CatchUps,     \* values of PeriodicOpts.CatchUp
          RunOnStarts,  \* and of PeriodicOpts.RunOnStart
          MaxClock, MaxTerms, MaxFailures

VARIABLES clock,
          opts,       \* PeriodicOpts of the job
          lastSlot,   \* hopper_periodic.last_slot, 0 for no row
          jobsOf,     \* how many jobs were inserted for each slot
          leaderTerm, \* periodicState of the leader, and where its pass is
          inflight,   \* inserts of ended terms that may still commit
          terms, failures,
          since       \* ghost: when a term last started the job with no slot recorded

periodicVars == <<clock, opts, lastSlot, jobsOf, leaderTerm, inflight, terms, failures, since>>

None == 0
\* next is the next slot, None for a job not started; now and mode are
\* of the pass under way, which inserts todo and then, but for a start, the
\* slots from n up to now.
NoLeader == [pc |-> "off", next |-> None, retryAt |-> None, wakeAt |-> None, clockFailed |-> FALSE,
           now |-> 0, mode |-> "none", todo |-> <<>>, n |-> None]

PeriodicInit ==
    /\ clock = 1
    /\ opts \in [catchUp : CatchUps, runOnStart : RunOnStarts]
    /\ lastSlot = None
    /\ jobsOf = [s \in 1..MaxClock |-> 0]
    /\ leaderTerm = NoLeader /\ inflight = {}
    /\ terms = 0 /\ failures = 0 /\ since = 0

\* IntervalSchedule.Next.
NextSlot(t) == ((t \div Every) + 1) * Every
Greatest(a, b) == IF a > b THEN a ELSE b
Least(a, b) == IF a < b THEN a ELSE b

\* The slots of a walk of Next from a time up to now, oldest first.
RECURSIVE SlotsFrom(_, _)
SlotsFrom(t, now) == IF NextSlot(t) > now THEN <<>> ELSE <<NextSlot(t)>> \o SlotsFrom(NextSlot(t), now)

\* recentSlots: the window before now doubles until it holds n slots or
\* reaches last.
RECURSIVE Windows(_, _, _, _)
Windows(w, last, now, n) ==
    LET span  == now - last
        from  == IF w >= span THEN last ELSE now - w
        slots == SlotsFrom(from, now)
    IN  IF Len(slots) >= n \/ from <= last
        THEN SubSeq(slots, Greatest(0, Len(slots) - n) + 1, Len(slots))
        ELSE Windows(IF w > span \div 2 THEN span ELSE 2 * w, last, now, n)
RecentSlots(last, now, n) == Windows(Least(1, now - last), last, now, n)

\* missedSlots: those of the last lease TTL, or CatchUp's if they are more.
MaxCatchUp == 10000
MissedSlots(last, now) ==
    LET window == RecentSlots(Greatest(last, now - LeaderTTL), now, MaxCatchUp)
    IN  IF opts.catchUp <= Len(window) THEN window
        ELSE RecentSlots(last, now, Least(opts.catchUp, MaxCatchUp))

\* PeriodicInsert, one transaction: the slot is advanced, and the job
\* inserted, only if it is newer.
PeriodicInsertAnyway(slot) ==
    IF lastSlot <= slot
    THEN lastSlot' = slot /\ jobsOf' = [jobsOf EXCEPT ![slot] = @ + 1]
    ELSE UNCHANGED <<lastSlot, jobsOf>>
PeriodicInsert(slot) ==
    IF lastSlot < slot
    THEN lastSlot' = slot /\ jobsOf' = [jobsOf EXCEPT ![slot] = @ + 1]
    ELSE UNCHANGED <<lastSlot, jobsOf>>

-----------------------------------------------------------------------------
(* Terms.                                                                  *)

TermBegins ==
    /\ leaderTerm.pc = "off" /\ terms < MaxTerms
    /\ leaderTerm' = [NoLeader EXCEPT !.pc = "sleep"]
    /\ terms' = terms + 1
    /\ UNCHANGED <<clock, opts, lastSlot, jobsOf, inflight, failures, since>>

\* The slot the pass is inserting, or None at its end.
Current == IF leaderTerm.todo # <<>> THEN Head(leaderTerm.todo)
           ELSE IF leaderTerm.mode # "start" /\ leaderTerm.n <= leaderTerm.now THEN leaderTerm.n
           ELSE None

\* The leader crashes or loses the lease; its statement may still commit.
TermEnds ==
    /\ leaderTerm.pc # "off"
    /\ leaderTerm' = NoLeader
    /\ inflight' = IF leaderTerm.pc = "pass" /\ Current # None THEN inflight \cup {Current} ELSE inflight
    /\ UNCHANGED <<clock, opts, lastSlot, jobsOf, terms, failures, since>>
InflightCommits(s) ==
    /\ s \in inflight
    /\ inflight' = inflight \ {s}
    /\ PeriodicInsert(s)
    /\ UNCHANGED <<clock, opts, leaderTerm, terms, failures, since>>
InflightLost(s) ==
    /\ s \in inflight
    /\ inflight' = inflight \ {s}
    /\ UNCHANGED <<clock, opts, lastSlot, jobsOf, leaderTerm, terms, failures, since>>

-----------------------------------------------------------------------------
(* periodicPass.                                                           *)

Waiting == leaderTerm.retryAt # None /\ clock < leaderTerm.retryAt

\* The loop's wakeAt, from what the pass leaves: the next slot or the retry.
Asleep(t) ==
    LET due == {x \in {t.next, t.retryAt} : x # None}
    IN  [t EXCEPT !.pc = "sleep", !.mode = "none", !.todo = <<>>, !.n = None, !.now = 0,
                  !.wakeAt = IF due = {} THEN None ELSE Greatest(clock, CHOOSE x \in due : \A y \in due : x <= y)]

Fails == failures < MaxFailures /\ failures' = failures + 1

ClockFails ==
    /\ leaderTerm.pc = "sleep" /\ Fails
    /\ leaderTerm' = [leaderTerm EXCEPT !.clockFailed = TRUE]
    /\ UNCHANGED <<clock, opts, lastSlot, jobsOf, inflight, terms, since>>

\* A failure behind the lease TTL: the loop did not run, or was retrying.
Stale == leaderTerm.clockFailed \/ (leaderTerm.wakeAt # None /\ clock - leaderTerm.wakeAt > LeaderTTL) \/ leaderTerm.retryAt # None
Floor == clock - LeaderTTL

\* A job already started goes on from its next slot; one that fell behind a
\* failure makes up for what it would at the start of a term.
PassGoesOn ==
    /\ leaderTerm.pc = "sleep" /\ leaderTerm.next # None /\ ~Waiting
    /\ LET behind == Stale /\ leaderTerm.next < Floor
       IN  leaderTerm' = [leaderTerm EXCEPT !.pc = "pass", !.now = clock, !.clockFailed = FALSE, !.mode = "due",
                        !.todo = IF behind THEN MissedSlots(leaderTerm.next - 1, clock) ELSE <<>>,
                        !.n = IF behind THEN NextSlot(Floor) ELSE leaderTerm.next]
    /\ UNCHANGED <<clock, opts, lastSlot, jobsOf, inflight, terms, failures, since>>

\* startPeriodic: the missed slots since the last one recorded, then
\* RunOnStart's job, whose slot is now.
PassStarts ==
    /\ leaderTerm.pc = "sleep" /\ leaderTerm.next = None /\ ~Waiting
    /\ leaderTerm' = [leaderTerm EXCEPT !.pc = "pass", !.now = clock, !.clockFailed = FALSE, !.mode = "start",
                    !.todo = (IF lastSlot # None THEN MissedSlots(lastSlot, clock) ELSE <<>>)
                             \o (IF opts.runOnStart THEN <<clock>> ELSE <<>>)]
    /\ since' = IF lastSlot = None THEN clock ELSE since
    /\ UNCHANGED <<clock, opts, lastSlot, jobsOf, inflight, terms, failures>>
SlotsUnread ==
    /\ leaderTerm.pc = "sleep" /\ leaderTerm.next = None /\ ~Waiting /\ Fails
    /\ leaderTerm' = Asleep([leaderTerm EXCEPT !.retryAt = clock + Interval, !.clockFailed = FALSE])
    /\ UNCHANGED <<clock, opts, lastSlot, jobsOf, inflight, terms, since>>

\* A slot is inserted, or found older than the last, and the pass goes on.
InsertSlot ==
    /\ leaderTerm.pc = "pass" /\ Current # None
    /\ PeriodicInsert(Current)
    /\ leaderTerm' = IF leaderTerm.todo # <<>>
               THEN [leaderTerm EXCEPT !.todo = Tail(@), !.n = IF leaderTerm.mode = "start" THEN @ ELSE NextSlot(Current)]
               ELSE [leaderTerm EXCEPT !.n = NextSlot(Current)]
    /\ UNCHANGED <<clock, opts, inflight, terms, failures, since>>

\* An insert fails, though it may have committed: the slot is tried again
\* after an interval, a start from the slots then recorded.
InsertFails ==
    /\ leaderTerm.pc = "pass" /\ Current # None /\ Fails
    /\ PeriodicInsert(Current) \/ UNCHANGED <<lastSlot, jobsOf>>
    /\ leaderTerm' = Asleep([leaderTerm EXCEPT !.next = IF leaderTerm.mode = "start" THEN None ELSE Current,
                                   !.retryAt = clock + Interval])
    /\ UNCHANGED <<clock, opts, inflight, terms, since>>

PassEnds ==
    /\ leaderTerm.pc = "pass" /\ Current = None
    /\ leaderTerm' = Asleep([leaderTerm EXCEPT !.next = IF leaderTerm.mode = "start" THEN NextSlot(leaderTerm.now) ELSE leaderTerm.n,
                                   !.retryAt = None])
    /\ UNCHANGED <<clock, opts, lastSlot, jobsOf, inflight, terms, failures, since>>

ClockTicks ==
    /\ clock < MaxClock
    /\ clock' = clock + 1
    /\ UNCHANGED <<opts, lastSlot, jobsOf, leaderTerm, inflight, terms, failures, since>>

PeriodicNext ==
    \/ TermBegins \/ TermEnds
    \/ \E s \in inflight : InflightCommits(s) \/ InflightLost(s)
    \/ ClockFails \/ PassGoesOn \/ PassStarts \/ SlotsUnread \/ InsertSlot \/ InsertFails \/ PassEnds
    \/ ClockTicks

-----------------------------------------------------------------------------
\* A slot has at most one job, whichever leaders insert it, however often and
\* however late their statements commit (PeriodicInsert).
SlotsOnce == \A s \in DOMAIN jobsOf : jobsOf[s] <= 1

\* The doubling windows of recentSlots find the most recent n slots.
RecentIsRecent ==
    \A last \in 0..clock, n \in 1..3 :
        LET due == {s \in (last + 1)..clock : s % Every = 0}
        IN  ToSet(RecentSlots(last, clock, n)) = {s \in due : Cardinality({t \in due : t > s}) < n}

\* A slot is passed over only once it is older than a lease TTL, and CatchUp
\* more recent ones have come due: not by a failover, a failed or slow pass,
\* or a late statement of an ended term (periodic.go, missedSlots).  A term
\* that finds no slot recorded owes those from then on.  And SlotsOnce and
\* RecentIsRecent.
SlotStep ==
    /\ SlotsOnce'
    /\ clock' # clock => RecentIsRecent
    /\ \A s \in 1..MaxClock :
         (lastSlot # None /\ s % Every = 0 /\ lastSlot < s /\ s < lastSlot' /\ s > since) =>
             /\ clock - s >= LeaderTTL
             /\ Cardinality({t \in (s + 1)..clock : t % Every = 0}) >= opts.catchUp

\* SlotStep, of every step.
SlotsKept == [][SlotStep]_periodicVars

-----------------------------------------------------------------------------
(***************************************************************************)
(* Which definition of a periodic job the leader schedules, when the       *)
(* clients of several releases register it (periodic_shared.go).  Each     *)
(* client records its definition under its lease; the leader reads the     *)
(* live ones, and schedules the newest client's that it can decode.        *)
(*                                                                         *)
(* One job name.  Definitions stand for their digests; Local is a job that *)
(* cannot be stored.  Leases are numbered in the order clients start.      *)
(***************************************************************************)
CONSTANTS Members,      \* the clients
          Definitions,  \* storable definitions
          Decodes,      \* [Members -> SUBSET Definitions]: what each release can decode
          MaxLease, MaxEdits, MaxTermsLed

Local == "local"
NoDef == "none"

VARIABLES own,       \* PeriodicJobs of each client: a definition, Local or NoDef
          added,     \* which of its Adds the client's own Local registration is of
          clientLeases, \* each client's lease, 0 if it is down
          records,   \* hopper_periodic_registrations: lease -> definition or NoDef
          written,   \* periodicRecord: the lease and definition last written
          changed,   \* the client's changed channel holds a signal
          leads,     \* [Members -> the loop's state], one leading at most
          nextLease, edits, termsLed

setsVars == <<own, added, clientLeases, records, written, changed, leads, nextLease, edits, termsLed>>

NoRows == [i \in 1..MaxLease |-> NoDef]
NoReg == [def |-> NoDef, serial |-> 0]
\* view is st.stored as last read, sent the channel watchStored sends on,
\* watched its last; defined and scheduled are registrations, whose serial
\* tells two of one definition apart.
NotLeading == [on |-> FALSE, view |-> NoRows, sent |-> FALSE, watched |-> NoRows, due |-> FALSE,
               defined |-> NoReg, rejected |-> NoDef, scheduled |-> NoReg, serial |-> 0]

SetsInit ==
    /\ own \in {o \in [Members -> {NoDef, Local} \cup Definitions] :
                 \A c \in Members : o[c] \in {NoDef, Local} \cup Decodes[c]}
    /\ added = [c \in Members |-> 0]
    /\ clientLeases = [c \in Members |-> 0]
    /\ records = NoRows
    /\ written = [c \in Members |-> <<0, NoDef>>]
    /\ changed = [c \in Members |-> FALSE]
    /\ leads = [c \in Members |-> NotLeading]
    /\ nextLease = 1 /\ edits = 0 /\ termsLed = 0

Storable(d) == IF d \in Definitions THEN d ELSE NoDef
LiveLeases == {clientLeases[c] : c \in Members} \ {0}

-----------------------------------------------------------------------------
(* Clients.                                                                *)

\* A client starts, or fences itself after a lost lease and registers again.
ClientRegisters(c) ==
    /\ nextLease <= MaxLease
    /\ clientLeases' = [clientLeases EXCEPT ![c] = nextLease]
    /\ nextLease' = nextLease + 1
    /\ UNCHANGED <<own, added, records, written, changed, leads, edits, termsLed>>

\* A client dies: its lease is gone and with it its loops.
ClientDies(c) ==
    /\ clientLeases[c] # 0 /\ nextLease <= MaxLease
    /\ clientLeases' = [clientLeases EXCEPT ![c] = 0]
    /\ leads' = [leads EXCEPT ![c] = NotLeading]
    /\ written' = [written EXCEPT ![c] = <<0, NoDef>>]
    /\ changed' = [changed EXCEPT ![c] = FALSE]
    /\ UNCHANGED <<own, added, records, nextLease, edits, termsLed>>

\* PeriodicJobs.Add and Remove, which refuse a name taken and one unknown.
AddMany(c, d) ==
    /\ clientLeases[c] # 0 /\ own[c] = NoDef /\ edits < MaxEdits
    /\ d # Local => d \in Decodes[c]
    /\ own' = [own EXCEPT ![c] = d]
    /\ added' = [added EXCEPT ![c] = IF d = Local THEN edits + 1 ELSE 0]
    /\ changed' = [changed EXCEPT ![c] = TRUE]
    /\ edits' = edits + 1
    /\ UNCHANGED <<clientLeases, records, written, leads, nextLease, termsLed>>
RemoveJob(c) ==
    /\ clientLeases[c] # 0 /\ own[c] # NoDef /\ edits < MaxEdits
    /\ own' = [own EXCEPT ![c] = NoDef]
    /\ added' = [added EXCEPT ![c] = 0]
    /\ changed' = [changed EXCEPT ![c] = TRUE]
    /\ edits' = edits + 1
    /\ UNCHANGED <<clientLeases, records, written, leads, nextLease, termsLed>>

\* PeriodicRegister: the rows of the client, and of clients that are gone,
\* make way for what it registers.
PeriodicRegister(i, d) ==
    records' = [j \in 1..MaxLease |-> IF j = i THEN d ELSE IF j \in LiveLeases THEN records[j] ELSE NoDef]

\* recordPeriodic, each renewal interval and on a change.
RecordPeriodic(c) ==
    /\ clientLeases[c] # 0 /\ written[c] # <<clientLeases[c], Storable(own[c])>>
    /\ PeriodicRegister(clientLeases[c], Storable(own[c]))
    /\ written' = [written EXCEPT ![c] = <<clientLeases[c], Storable(own[c])>>]
    /\ UNCHANGED <<own, added, clientLeases, changed, leads, nextLease, edits, termsLed>>

-----------------------------------------------------------------------------
(* The leader.                                                             *)

\* PeriodicRegistrations: the rows of live clients.
ReadStored == [i \in 1..MaxLease |-> IF i \in LiveLeases THEN records[i] ELSE NoDef]

\* periodicLoop begins a term with a read, which may fail, and a pass.
TermStarts(c) ==
    /\ clientLeases[c] # 0 /\ termsLed < MaxTermsLed /\ \A m \in Members : ~leads[m].on
    /\ \E view \in {ReadStored, NoRows} :
        leads' = [leads EXCEPT ![c] = [NotLeading EXCEPT !.on = TRUE, !.view = view, !.watched = view, !.due = TRUE]]
    /\ termsLed' = termsLed + 1
    /\ UNCHANGED <<own, added, clientLeases, records, written, changed, nextLease, edits>>
TermStops(c) ==
    /\ leads[c].on /\ termsLed < MaxTermsLed
    /\ leads' = [leads EXCEPT ![c] = NotLeading]
    /\ UNCHANGED <<own, added, clientLeases, records, written, changed, nextLease, edits, termsLed>>

\* watchStored: only the latest unsent view is kept.
WatchStored(c) ==
    /\ leads[c].on /\ leads[c].watched # ReadStored
    /\ leads' = [leads EXCEPT ![c].watched = ReadStored, ![c].sent = TRUE]
    /\ UNCHANGED <<own, added, clientLeases, records, written, changed, nextLease, edits, termsLed>>

\* The definition effectivePeriodic wants, from the newest row that is
\* another client's or the leader's own; else from its own set.
Wanted(c, view) ==
    LET rows == {i \in 1..MaxLease : view[i] # NoDef /\ (i = clientLeases[c] => own[c] \in Definitions)}
    IN  IF rows # {} /\ Max(rows) # clientLeases[c] THEN view[Max(rows)] ELSE own[c]

Defines(st, d) == [st EXCEPT !.serial = @ + 1, !.defined = [def |-> d, serial |-> st.serial + 1],
                             !.scheduled = [def |-> d, serial |-> st.serial + 1]]
\* The leader's own registration, scheduled as it is: added again, it is new.
FromOwn(c, st) == [st EXCEPT !.defined = NoReg, !.scheduled = [def |-> own[c], serial |-> added[c]]]

\* A definition that cannot be decoded gives way to the leader's own.
FallsBack(c, st) ==
    IF own[c] \in {NoDef, Local} THEN FromOwn(c, st)
    ELSE IF st.defined.def = own[c] THEN [st EXCEPT !.scheduled = st.defined]
    ELSE IF own[c] \in Decodes[c] THEN Defines(st, own[c])
    ELSE FromOwn(c, st)

EffectiveAnew(c, st) ==
    LET want == Wanted(c, st.view)
    IN  IF want \in {NoDef, Local} THEN FromOwn(c, st)
        ELSE IF want \in Decodes[c] /\ st.rejected # want THEN Defines(st, want)
        ELSE FallsBack(c, [st EXCEPT !.rejected = want])
EffectivePeriodic(c, st) ==
    LET want == Wanted(c, st.view)
    IN  IF want \in {NoDef, Local} THEN FromOwn(c, st)
        ELSE IF st.defined.def = want THEN [st EXCEPT !.scheduled = st.defined]
        ELSE IF want \in Decodes[c] /\ st.rejected # want THEN Defines(st, want)
        ELSE FallsBack(c, [st EXCEPT !.rejected = want])

\* A pass: due to the timer, to a change of the leader's own set or to a view
\* watchStored sent.
PeriodicPass(c) ==
    LET st == leads[c]
    IN  /\ st.on
        /\ \/ st.due /\ leads' = [leads EXCEPT ![c] = EffectivePeriodic(c, [st EXCEPT !.due = FALSE])] /\ UNCHANGED changed
           \/ changed[c] /\ leads' = [leads EXCEPT ![c] = EffectivePeriodic(c, st)] /\ changed' = [changed EXCEPT ![c] = FALSE]
           \/ st.sent /\ leads' = [leads EXCEPT ![c] = EffectivePeriodic(c, [st EXCEPT !.view = st.watched, !.sent = FALSE])]
                      /\ UNCHANGED changed
        /\ UNCHANGED <<own, added, clientLeases, records, written, nextLease, edits, termsLed>>

SetsNext ==
    \E c \in Members :
        \/ ClientRegisters(c) \/ ClientDies(c) \/ RecordPeriodic(c)
        \/ RemoveJob(c) \/ \E d \in Definitions \cup {Local} : AddMany(c, d)
        \/ TermStarts(c) \/ TermStops(c) \/ WatchStored(c) \/ PeriodicPass(c)

-----------------------------------------------------------------------------
\* Nothing is left for the loops to do: every live client has written what it
\* registers, and the leader has read it and made its pass.
Settled(c) ==
    /\ leads[c].on /\ ~leads[c].due /\ ~leads[c].sent /\ ~changed[c]
    /\ leads[c].watched = ReadStored
    /\ \A m \in Members : clientLeases[m] # 0 => written[m] = <<clientLeases[m], Storable(own[m])>>

\* Once settled, the leader schedules the definition of the newest live client
\* that registers a storable one, or its own if it cannot decode that one or
\* none is stored: whatever registrations, deaths, new leases, failed reads and
\* terms came before (periodic_shared.go, effectivePeriodic).
NewestScheduled ==
    \A c \in Members : Settled(c) =>
        LET live   == {m \in Members : clientLeases[m] # 0 /\ own[m] \in Definitions}
            newest == CHOOSE m \in live : \A k \in live : clientLeases[k] <= clientLeases[m]
            want   == IF live = {} THEN own[c] ELSE own[newest]
        IN  leads[c].scheduled.def = IF want \in Definitions \ Decodes[c] THEN own[c] ELSE want

\* And a pass starts the job anew, with what RunOnStart inserts, only when its
\* definition changes, or the leader's own that cannot be stored is added again:
\* not as the newest client that holds it comes and goes within a term.
ScheduleStep ==
    /\ NewestScheduled'
    /\ \A c \in Members :
         (leads[c].on /\ leads'[c].on /\ leads'[c].scheduled # leads[c].scheduled) =>
             \/ leads'[c].scheduled.def # leads[c].scheduled.def
             \/ leads'[c].scheduled = [def |-> Local, serial |-> added[c]]

\* ScheduleStep, of every step.
ScheduledOnce == [][ScheduleStep]_setsVars
=============================================================================
