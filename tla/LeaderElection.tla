--------------------------- MODULE LeaderElection ---------------------------
(***************************************************************************)
(* The election of the leader that runs hopper's singleton duties: the      *)
(* lease row hopper_leader, the leader loop of every client (leader.go) and *)
(* the fence that ends a term by the local clock (leaseFence).              *)
(*                                                                          *)
(* Times are kept as what is left of them: lease.left is expires_at - now,  *)
(* term[p] the lease a term is known to hold, timer[p] what is left of the  *)
(* TTL since an attempt was sent (until), or of a hold-off.  LeaderTick is  *)
(* the one clock they all run by; the database's and the clients' clocks    *)
(* may show different times but are assumed to run at the same rate.        *)
(*                                                                          *)
(* An attempt is three steps, the sending, the transaction and the answer,  *)
(* so that time, the other clients and failures come in between: it can     *)
(* fail before its transaction or lose the answer after it.                 *)
(***************************************************************************)
EXTENDS Integers

CONSTANTS
    Procs,      \* client processes
    TTL,        \* tuning.leaderTTL
    Working,    \* those whose terms find duties to run
    Stamps,     \* elected_at times, told apart and nothing more
    MaxGen,     \* bound on the registrations of one process
    MaxFaults   \* bound on failures and requests

ASSUME LeaderAssumption == TTL \in Nat \ {0} /\ MaxGen \in Nat /\ MaxFaults \in Nat

VARIABLES
    lease,      \* the row of hopper_leader
    gen,        \* clientID: the ID of p is <<p, gen[p]>>, never given twice
    pc,         \* where p's leader loop is
    id,         \* the ID of its attempt
    leaseID,    \* the ID the lease was last taken or renewed under
    electedAt,  \* the elected_at of the term it leads, 0 if it leads none
    held,       \* the last answer found the lease to be the client's
    isLeader,
    term,       \* what is left of the term's lease, NoTerm without a term
    timer,
    reply,      \* what the attempt's transaction returned
    duty,       \* a loop of the term is running a duty
    announced,  \* EventLeaderElected less EventLeaderLost and Resigned
    faults

local == <<id, leaseID, electedAt, held, isLeader, term, timer, reply, duty, announced>>
leaderVars == <<lease, gen, pc, local, faults>>

NoTerm == -1
ID == Procs \X (0..MaxGen)
NoRow == [row |-> FALSE, id |-> <<>>, electedAt |-> 0, left |-> -1, resign |-> FALSE]
LeaderRow == [row : {TRUE}, id : ID, electedAt : Stamps, left : -1..TTL, resign : BOOLEAN]
NoReply == [leader |-> FALSE, resign |-> FALSE, electedAt |-> 0]
Reply == [leader : {TRUE}, resign : BOOLEAN, electedAt : Stamps]
Places == {"off", "top", "giveup", "send", "sent", "replied", "wait", "resigning", "holdoff", "stopping"}

LeaderTypeOK ==
    /\ lease \in LeaderRow \cup {NoRow}
    /\ gen \in [Procs -> 0..MaxGen]
    /\ pc \in [Procs -> Places]
    /\ id \in [Procs -> ID]
    /\ leaseID \in [Procs -> ID]
    /\ electedAt \in [Procs -> Stamps \cup {0}]
    /\ held \in [Procs -> BOOLEAN]
    /\ isLeader \in [Procs -> BOOLEAN]
    /\ term \in [Procs -> NoTerm..TTL]
    /\ timer \in [Procs -> 0..TTL]
    /\ reply \in [Procs -> Reply \cup {NoReply}]
    /\ duty \in [Procs -> BOOLEAN]
    /\ announced \in [Procs -> Int]
    /\ faults \in 0..MaxFaults

LeaderInit ==
    /\ lease = NoRow
    /\ gen = [p \in Procs |-> 0]
    /\ pc = [p \in Procs |-> "off"]
    /\ id = [p \in Procs |-> <<p, 0>>]
    /\ leaseID = [p \in Procs |-> <<p, 0>>]
    /\ electedAt = [p \in Procs |-> 0]
    /\ held = [p \in Procs |-> FALSE]
    /\ isLeader = [p \in Procs |-> FALSE]
    /\ term = [p \in Procs |-> NoTerm]
    /\ timer = [p \in Procs |-> 0]
    /\ reply = [p \in Procs |-> NoReply]
    /\ duty = [p \in Procs |-> FALSE]
    /\ announced = [p \in Procs |-> 0]
    /\ faults = 0

Fault == faults < MaxFaults /\ faults' = faults + 1
Goes(p, place) == pc' = [pc EXCEPT ![p] = place]
-----------------------------------------------------------------------------
(***************************************************************************)
(* The transactions of the lease row.                                       *)
(***************************************************************************)
InUse == {lease.electedAt} \cup {electedAt[p] : p \in Procs} \cup {reply[p].electedAt : p \in Procs}
Unused == Stamps \ InUse   \* bound: Stamps has one more than can be in use
NewStamp == CHOOSE s \in Unused : TRUE

(* Mutant: a takeover keeps the elected_at it finds. *)
NewLeaseOldStamp(i) == [row |-> TRUE, id |-> i, electedAt |-> lease.electedAt, left |-> TTL, resign |-> FALSE]

NewLease(i) == [row |-> TRUE, id |-> i, electedAt |-> NewStamp, left |-> TTL, resign |-> FALSE]

(* The lease is live and i's: an attempt of i renews it. *)
Renews(i) == lease.row /\ lease.id = i /\ lease.left >= 0

(* Mutant: an expired lease is not taken over. *)
LapsedOrFreeNever == ~lease.row

LapsedOrFree == ~lease.row \/ lease.left < 0

(* Mutant: a renewal clears a resign request. *)
AttemptedClears(i) == IF Renews(i) THEN [lease EXCEPT !.left = TTL, !.resign = FALSE] ELSE NewLease(i)

(***************************************************************************)
(* The row after an attempt of i that may take or renew it.  A renewal      *)
(* keeps a resign request and then does not extend the lease.               *)
(***************************************************************************)
Attempted(i) ==
    IF ~Renews(i) THEN NewLease(i)
    ELSE IF lease.resign THEN lease ELSE [lease EXCEPT !.left = TTL]

LeaderAttempt(p) ==
    IF LapsedOrFree \/ lease.id = id[p]
    THEN /\ Unused # {}
         /\ lease' = Attempted(id[p])
         /\ reply' = [reply EXCEPT ![p] = [leader |-> TRUE, resign |-> lease'.resign, electedAt |-> lease'.electedAt]]
    ELSE /\ reply' = [reply EXCEPT ![p] = NoReply]
         /\ UNCHANGED lease

(* Mutant: the lease row is deleted whoever holds it. *)
LeaderResignAny(i) == lease' = NoRow

(* LeaderResign: the lease is given up if i holds it. *)
LeaderResign(i) == lease' = IF lease.row /\ lease.id = i THEN NoRow ELSE lease

(* giveUpLease: the statement may fail, and the lease expires instead. *)
GiveUpLease(i) ==
    \/ LeaderResign(i) /\ UNCHANGED faults
    \/ Fault /\ UNCHANGED lease

(* The holder of the live lease is asked to resign (Client.LeaderResign). *)
LeaderRequestResign ==
    /\ Fault
    /\ lease.row /\ lease.left > 0
    /\ lease' = [lease EXCEPT !.resign = TRUE]
    /\ UNCHANGED <<gen, pc, local>>
-----------------------------------------------------------------------------
(***************************************************************************)
(* The leader loop.  Ending a term waits for its loops (term.end), so a     *)
(* step that ends one is not taken while a duty runs.                       *)
(***************************************************************************)
(* Mutant: the loops are not waited for. *)
EndTermAtOnce(p) == term' = [term EXCEPT ![p] = NoTerm]

EndTerm(p) == ~duty[p] /\ term' = [term EXCEPT ![p] = NoTerm]

(* lose: the term ends, with its event. *)
Lose(p) ==
    /\ EndTerm(p)
    /\ isLeader' = [isLeader EXCEPT ![p] = FALSE]
    /\ electedAt' = [electedAt EXCEPT ![p] = 0]
    /\ announced' = [announced EXCEPT ![p] = @ - 1]

KeepTerm == UNCHANGED <<term, isLeader, electedAt, announced>>

(* term.lease.expired() *)
Lapsed(p) == term[p] = 0

(***************************************************************************)
(* The top of the loop reads the client's ID.  A term whose lease has       *)
(* lapsed ends, and so does one that a fence has left under an old ID.      *)
(***************************************************************************)
Top(p) ==
    /\ pc[p] = "top"
    /\ id' = [id EXCEPT ![p] = <<p, gen[p]>>]
    /\ LET fenced == held[p] /\ leaseID[p] # <<p, gen[p]>> IN
       /\ IF isLeader[p] /\ (Lapsed(p) \/ fenced) THEN Lose(p) ELSE KeepTerm
       /\ held' = [held EXCEPT ![p] = @ /\ ~fenced]
       /\ Goes(p, IF fenced THEN "giveup" ELSE "send")
    /\ UNCHANGED <<lease, gen, leaseID, timer, reply, duty, faults>>

GiveUpAfterFence(p) ==
    /\ pc[p] = "giveup"
    /\ GiveUpLease(leaseID[p])
    /\ Goes(p, "send")
    /\ UNCHANGED <<gen, local>>

Send(p) ==
    /\ pc[p] = "send"
    /\ timer' = [timer EXCEPT ![p] = TTL]
    /\ Goes(p, "sent")
    /\ UNCHANGED <<lease, gen, id, leaseID, electedAt, held, isLeader, term, reply, duty, announced, faults>>

Apply(p) ==
    /\ pc[p] = "sent"
    /\ LeaderAttempt(p)
    /\ Goes(p, "replied")
    /\ UNCHANGED <<gen, id, leaseID, electedAt, held, isLeader, term, timer, duty, announced, faults>>

(* The attempt has returned. *)
Returned(p) ==
    /\ reply' = [reply EXCEPT ![p] = NoReply]
    /\ timer' = [timer EXCEPT ![p] = 0]

(* An attempt that fails, or whose answer is lost. *)
ReceiveError(p) ==
    /\ pc[p] \in {"sent", "replied"}
    /\ Fault
    /\ IF Lapsed(p) THEN Lose(p) /\ Goes(p, "top") ELSE KeepTerm /\ Goes(p, "wait")
    /\ Returned(p)
    /\ UNCHANGED <<lease, gen, id, leaseID, held, duty>>

(* The answer is of the term the client leads. *)
SameTerm(p) == reply[p].electedAt = electedAt[p]

(* Asked to resign: the term's loops end before the lease is given up. *)
ReceiveResign(p) ==
    /\ pc[p] = "replied"
    /\ reply[p].leader /\ reply[p].resign
    /\ IF isLeader[p] /\ ~SameTerm(p) THEN Lose(p) ELSE EndTerm(p) /\ UNCHANGED <<isLeader, electedAt, announced>>
    /\ held' = [held EXCEPT ![p] = FALSE]
    /\ Goes(p, "resigning")
    /\ Returned(p)
    /\ UNCHANGED <<lease, gen, id, leaseID, duty, faults>>

(* Mutant: the end of a term is announced whether or not it was led. *)
GiveUpOnRequestAnnounced(p) ==
    /\ pc[p] = "resigning"
    /\ GiveUpLease(id[p])
    /\ announced' = [announced EXCEPT ![p] = @ - 1]
    /\ isLeader' = [isLeader EXCEPT ![p] = FALSE]
    /\ electedAt' = [electedAt EXCEPT ![p] = 0]
    /\ timer' = [timer EXCEPT ![p] = TTL]
    /\ Goes(p, "holdoff")
    /\ UNCHANGED <<gen, id, leaseID, held, term, reply, duty>>

(* resignOnRequest: the client then stays out of the election for a TTL. *)
GiveUpOnRequest(p) ==
    /\ pc[p] = "resigning"
    /\ GiveUpLease(id[p])
    /\ announced' = [announced EXCEPT ![p] = IF isLeader[p] THEN @ - 1 ELSE @]
    /\ isLeader' = [isLeader EXCEPT ![p] = FALSE]
    /\ electedAt' = [electedAt EXCEPT ![p] = 0]
    /\ timer' = [timer EXCEPT ![p] = TTL]
    /\ Goes(p, "holdoff")
    /\ UNCHANGED <<gen, id, leaseID, held, term, reply, duty>>

(* Mutant: the lease counts from the answer. *)
LedUntilFromAnswer(p) == TTL

(* startTerm, or leaseFence.renew: known to be held until a TTL after the sending. *)
LedUntil(p) == timer[p]

(***************************************************************************)
(* Elected or renewed.  The term goes on only if it is the one the lease is *)
(* of and has not lapsed; otherwise it ends and another starts.             *)
(***************************************************************************)
ReceiveLeader(p) ==
    /\ pc[p] = "replied"
    /\ reply[p].leader /\ ~reply[p].resign
    /\ isLeader[p] /\ (Lapsed(p) \/ ~SameTerm(p)) => ~duty[p]
    /\ term' = [term EXCEPT ![p] = LedUntil(p)]
    /\ announced' = [announced EXCEPT ![p] = IF isLeader[p] THEN @ ELSE @ + 1]
    /\ isLeader' = [isLeader EXCEPT ![p] = TRUE]
    /\ leaseID' = [leaseID EXCEPT ![p] = id[p]]
    /\ electedAt' = [electedAt EXCEPT ![p] = reply[p].electedAt]
    /\ held' = [held EXCEPT ![p] = TRUE]
    /\ Goes(p, "wait")
    /\ Returned(p)
    /\ UNCHANGED <<lease, gen, id, duty, faults>>

ReceiveNotLeader(p) ==
    /\ pc[p] = "replied"
    /\ ~reply[p].leader
    /\ held' = [held EXCEPT ![p] = FALSE]
    /\ IF isLeader[p] THEN Lose(p) ELSE KeepTerm
    /\ Goes(p, "wait")
    /\ Returned(p)
    /\ UNCHANGED <<lease, gen, id, leaseID, duty, faults>>

(* The ticker, a poke, or the end of the hold-off. *)
Wake(p) ==
    /\ pc[p] = "wait" \/ (pc[p] = "holdoff" /\ timer[p] = 0)
    /\ Goes(p, "top")
    /\ UNCHANGED <<lease, gen, local, faults>>
-----------------------------------------------------------------------------
(* A client starts under an ID of its own, and its leader loop with it. *)
Start(p) ==
    /\ pc[p] = "off"
    /\ gen[p] < MaxGen
    /\ gen' = [gen EXCEPT ![p] = @ + 1]
    /\ Goes(p, "top")
    /\ UNCHANGED <<lease, local, faults>>

(* What a leader loop that has ended leaves of its local state. *)
Forgotten(p) ==
    /\ isLeader' = [isLeader EXCEPT ![p] = FALSE]
    /\ announced' = [announced EXCEPT ![p] = 0]
    /\ held' = [held EXCEPT ![p] = FALSE]
    /\ electedAt' = [electedAt EXCEPT ![p] = 0]
    /\ reply' = [reply EXCEPT ![p] = NoReply]
    /\ timer' = [timer EXCEPT ![p] = 0]
    /\ UNCHANGED <<id, leaseID>>

(* The client stops: the loop ends its term and then gives the lease up. *)
Stop(p) ==
    /\ pc[p] \in {"wait", "holdoff", "sent", "replied"}
    /\ Fault
    /\ EndTerm(p)
    /\ Forgotten(p)
    /\ Goes(p, IF isLeader[p] \/ held[p] THEN "stopping" ELSE "off")
    /\ UNCHANGED <<lease, gen, duty>>

GiveUpOnStop(p) ==
    /\ pc[p] = "stopping"
    /\ GiveUpLease(leaseID[p])
    /\ Goes(p, "off")
    /\ UNCHANGED <<gen, local>>

(* The process dies. *)
Crash(p) ==
    /\ pc[p] # "off"
    /\ Fault
    /\ term' = [term EXCEPT ![p] = NoTerm]
    /\ duty' = [duty EXCEPT ![p] = FALSE]
    /\ Forgotten(p)
    /\ Goes(p, "off")
    /\ UNCHANGED <<lease, gen>>

(* The client has lost its own lease and registers under a new ID. *)
LeaderFence(p) ==
    /\ pc[p] # "off"
    /\ gen[p] < MaxGen
    /\ Fault
    /\ gen' = [gen EXCEPT ![p] = @ + 1]
    /\ UNCHANGED <<lease, pc, local>>

(* A loop of the term starts a duty; leaseFence cancels them as the lease lapses. *)
StartDuty(p) ==
    /\ p \in Working
    /\ term[p] > 0
    /\ ~duty[p]
    /\ duty' = [duty EXCEPT ![p] = TRUE]
    /\ UNCHANGED <<lease, gen, pc, id, leaseID, electedAt, held, isLeader, term, timer, reply, announced, faults>>

FinishDuty(p) ==
    /\ duty[p]
    /\ duty' = [duty EXCEPT ![p] = FALSE]
    /\ UNCHANGED <<lease, gen, pc, id, leaseID, electedAt, held, isLeader, term, timer, reply, announced, faults>>

Less(t) == IF t > 0 THEN t - 1 ELSE t

LeaderTick ==
    /\ lease' = [lease EXCEPT !.left = IF @ >= 0 THEN @ - 1 ELSE @]
    /\ term' = [p \in Procs |-> Less(term[p])]
    /\ timer' = [p \in Procs |-> Less(timer[p])]
    /\ UNCHANGED <<gen, pc, id, leaseID, electedAt, held, isLeader, reply, duty, announced, faults>>

LoopStep(p) ==
    \/ Top(p) \/ GiveUpAfterFence(p) \/ Send(p) \/ Apply(p)
    \/ ReceiveResign(p) \/ ReceiveLeader(p) \/ ReceiveNotLeader(p)
    \/ GiveUpOnRequest(p) \/ Wake(p) \/ GiveUpOnStop(p)

LeaderNext ==
    \/ LeaderRequestResign
    \/ LeaderTick
    \/ \E p \in Procs :
        \/ LoopStep(p) \/ ReceiveError(p)
        \/ Start(p) \/ Stop(p) \/ Crash(p) \/ LeaderFence(p)
        \/ StartDuty(p) \/ FinishDuty(p)

LeaderSpec == LeaderInit /\ [][LeaderNext]_leaderVars

(***************************************************************************)
(* Time passes, duties finish, and a loop that is up goes on: its ticker    *)
(* fires, and attempts are answered once the faults are used up.  Strong,   *)
(* as a step that ends a term cancels the loops before it waits for them.   *)
(***************************************************************************)
LeaderFairness ==
    /\ WF_leaderVars(LeaderTick)
    /\ \A p \in Procs : SF_leaderVars(LoopStep(p)) /\ WF_leaderVars(FinishDuty(p))

LeaderFairSpec == LeaderSpec /\ LeaderFairness
-----------------------------------------------------------------------------
(* The term of p is known to hold its lease, and its loops run. *)
Leads(p) == term[p] > 0

(***************************************************************************)
(* A term that has not lapsed by its client's clock is the one the lease    *)
(* row is of, and the row outlives it: what leaseFence.until claims, whose  *)
(* TTL counts from the sending of an attempt.                               *)
(***************************************************************************)
LeadsUnderLease ==
    \A p \in Procs : Leads(p) =>
        /\ lease.row /\ lease.id = leaseID[p] /\ lease.electedAt = electedAt[p]
        /\ lease.left >= term[p]

(***************************************************************************)
(* No two clients start duties at the same time: what is left of the brief  *)
(* overlap leader.go allows for is duties already running as a lease        *)
(* lapses.                                                                  *)
(***************************************************************************)
OneActiveTerm == \A p, q \in Procs : Leads(p) /\ Leads(q) => p = q

(***************************************************************************)
(* The events of a client's terms pair up: EventLeaderElected, then one     *)
(* EventLeaderLost or EventLeaderResigned, and a client leads from the one  *)
(* to the other.                                                            *)
(***************************************************************************)
EventsPair == \A p \in Procs : announced[p] = IF isLeader[p] THEN 1 ELSE 0

(* A term lasts no longer than its lease, and its events pair up. *)
TermsSound == LeaderTypeOK /\ LeadsUnderLease /\ EventsPair

(***************************************************************************)
(* A client that gives the lease up, on request, on a fence or on its stop, *)
(* has no duty running any more, so none overlaps the next leader's.        *)
(***************************************************************************)
QuietHandover == [][lease.row /\ ~lease'.row => ~duty[lease.id[1]]]_leaderVars

(* A lease whose holder was asked to resign is given up or runs out. *)
RequestedStepsDown ==
    \A s \in Stamps : (lease.row /\ lease.resign /\ lease.electedAt = s) ~>
                      (~lease.row \/ lease.electedAt # s \/ lease.left < 0)

(***************************************************************************)
(* While some client stays up, whatever crashes, stops, fences, failed      *)
(* attempts and lost answers came before, there is a leader again.          *)
(***************************************************************************)
SomeoneLeads == (\E p \in Procs : <>[](pc[p] # "off")) => []<>(\E p \in Procs : isLeader[p])
=============================================================================
