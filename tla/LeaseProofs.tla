---------------------------- MODULE LeaseProofs ----------------------------
(***************************************************************************)
(* Proof that a lease owns its job until it ends, ends once, and outlasts  *)
(* a restart of the cluster (PgLeases), for any clients, times and bounds. *)
(***************************************************************************)
EXTENDS PgLeases, WellFoundedInduction, TLAPS

\* The time a prover may take on a leaf that names none, on a loaded machine too.
USE SMTT(30), ZenonT(30)

-----------------------------------------------------------------------------
(* The invariant. *)

JobType == [st : {"waiting", "running", "done"}, fence : Nat, attempt : Int, cancel : BOOLEAN]
LeaseType == [fence : Nat, renewed : Nat, expires : Nat]
ClientType == [started : Nat, expires : Nat, up : BOOLEAN]
StmtType == [pc : {"none", "begun", "read", "held", "locked"}, now : Nat, fence : Nat, ran : BOOLEAN,
             result : {"none", "completed", "failed", "snoozed", "canceled", "discarded"},
             tx : BOOLEAN, verdict : {"none", "retry", "finished"}]

LeaseTypeOK ==
    /\ job \in JobType /\ lease \in LeaseType /\ time \in Nat /\ clients \in [Starts -> ClientType]
    /\ restarted \in BOOLEAN /\ idle \in Nat
    /\ renewal \in StmtType /\ finish \in StmtType /\ expiry \in StmtType
    /\ claimed \subseteq Nat /\ ended \subseteq Nat \X {"finish", "expiry"} /\ acked \subseteq Nat

\* A lease that is there is of the attempt that runs, and counts from its
\* renewal.
RowsMatch ==
    /\ LeaseOwnsJob
    /\ lease # NoLease => /\ RunsAt(job, lease.fence)
                          /\ lease.expires = lease.renewed + LeaseTTL /\ lease.renewed <= time

\* Who holds the job's row finds it running as it read it, and only one does.
HoldersSound ==
    /\ finish.pc = "held" => RunsAt(job, finish.fence) /\ expiry.pc # "locked"
    /\ expiry.pc = "locked" => RunsAt(job, expiry.fence) /\ expiry.verdict \in {"retry", "finished"}
    /\ expiry.now <= time
    /\ renewal.now <= time

\* An attempt that has ended is an earlier one, or the last and not running.
EndedBefore ==
    /\ \A a \in ended : a[1] <= job.fence /\ (a[1] = job.fence => job.st # "running")
    /\ \A f \in claimed : f <= job.fence
    /\ renewal.fence <= job.fence

\* The lease was renewed as long ago as a diligent holder lets it be.
Recent == time - lease.renewed <= Patience + idle
\* Or the cluster has come back since, no longer ago than the holder has been
\* idle, and every client that is up has come with it.
SinceRestart ==
    \E first \in Starts :
        /\ clients[first].up /\ clients[first].started > lease.renewed
        /\ time - clients[first].started <= idle
        /\ \A c \in Starts : clients[c].up => clients[first].started <= clients[c].started

\* A client that started after the renewal and died did so soon after it.
DiedEarly ==
    \A c \in Starts : ~clients[c].up /\ clients[c].started > lease.renewed =>
        clients[c].expires <= lease.renewed + 2 * Patience + ClientTTL

DiligentInv ==
    /\ expiry.pc = "none" /\ \A a \in ended : a[2] # "expiry"
    /\ Up = {} => renewal.pc = "none"
    /\ restarted => Up # {}
    /\ idle <= Patience
    /\ \A c \in Starts : clients[c].started <= time
    /\ lease # NoLease /\ renewal.pc = "begun" /\ renewal.ran /\ renewal.fence = lease.fence =>
        time - renewal.now <= idle /\ lease.renewed <= renewal.now
    /\ lease # NoLease => /\ DiedEarly
                          /\ Up # {} => Recent \/ (restarted /\ SinceRestart)

LeaseInv ==
    /\ LeaseTypeOK /\ RowsMatch /\ HoldersSound /\ EndedBefore /\ EndsOnce
    /\ Diligent /\ RenewsInTime => DiligentInv

-----------------------------------------------------------------------------
LEMMA StmtIs ==
    /\ NoStmt \in StmtType /\ NoStmt.pc = "none" /\ NoStmt.now = 0 /\ NoStmt.fence = 0 /\ ~NoStmt.ran
    /\ NoLease \in LeaseType /\ NoLease.fence = 0
    /\ NoClient \in ClientType /\ NoClient.started = 0 /\ ~NoClient.up
  BY Zenon DEF NoStmt, StmtType, NoLease, LeaseType, NoClient, ClientType

LEMMA LeaseStart == LeaseInit => LeaseInv
  <1> SUFFICES ASSUME LeaseInit PROVE LeaseInv
    BY Zenon
  <1>1. LeaseTypeOK
    <2>1. clients \in [Starts -> ClientType]
      BY StmtIs, Zenon DEF LeaseInit, ClientType
    <2>2. job \in JobType
      BY DEF LeaseInit, JobType
    <2> QED
      BY <2>1, <2>2, StmtIs, Zenon DEF LeaseInit, LeaseTypeOK
  <1>2. RowsMatch
    BY Zenon DEF LeaseInit, RowsMatch, LeaseOwnsJob
  <1>3. HoldersSound /\ EndedBefore /\ EndsOnce
    BY StmtIs DEF LeaseInit, HoldersSound, EndedBefore, EndsOnce
  <1>4. Diligent /\ RenewsInTime => DiligentInv
    <2>1. \A c \in Starts : clients[c].started <= time
      BY DEF LeaseInit, NoClient
    <2> QED
      BY <2>1, LeaseAssumption, StmtIs DEF LeaseInit, DiligentInv
  <1> QED
    BY <1>1, <1>2, <1>3, <1>4, Zenon DEF LeaseInv

\* A nonempty set of numbers has a smallest.
LEMMA SmallestOf ==
    ASSUME NEW S, S \subseteq Nat, S # {}
    PROVE  \E s \in S : \A t \in S : s <= t
  <1>1. \E s \in S : \A t \in S : ~(<<t, s>> \in OpToRel(<, Nat))
    BY NatLessThanWellFounded, WFMin, Zenon
  <1>2. \E s \in S : \A t \in S : ~(t < s)
    BY <1>1, Zenon DEF OpToRel
  <1> QED
    BY <1>2

\* The expiry never finds a diligent holder's lease due.
LEMMA NeverDue ==
    ASSUME LeaseInv, Diligent, RenewsInTime, lease # NoLease, Up # {}
    PROVE  ~LeaseDue(lease, time)
  <1> USE LeaseAssumption DEF RenewsInTime
  <1> DEFINE G == Greater(LeaseTTL, Grace)
             L == StartsSince(lease, time)
  <1>1. /\ lease \in LeaseType /\ time \in Nat /\ idle \in Nat /\ clients \in [Starts -> ClientType]
        /\ lease.expires = lease.renewed + LeaseTTL /\ lease.renewed <= time /\ idle <= Patience
        /\ DiedEarly /\ (Recent \/ SinceRestart)
    BY Zenon DEF LeaseInv, LeaseTypeOK, RowsMatch, DiligentInv
  <1>2. lease.renewed \in Nat /\ \A c \in Starts : clients[c].started \in Nat /\ clients[c].expires \in Nat
    BY <1>1, Zenon DEF LeaseType, ClientType
  <1>3. G \in Nat /\ LeaseTTL <= G
    BY DEF Greater
  <1>4. CASE Recent
    BY <1>1, <1>2, <1>4 DEF Recent, LeaseDue
  <1>5. CASE SinceRestart
    <2>1. PICK first \in Starts :
            /\ clients[first].up /\ clients[first].started > lease.renewed
            /\ time - clients[first].started <= idle
            /\ \A c \in Starts : clients[c].up => clients[first].started <= clients[c].started
      BY <1>5, Zenon DEF SinceRestart
    <2>2. L \subseteq Nat /\ clients[first].started \in L
      <3>1. clients[first].started <= time
        BY <2>1, Zenon DEF LeaseInv, DiligentInv
      <3> QED
        BY <1>2, <2>1, <3>1, Zenon DEF StartsSince, ClientLive
    <2>3. ASSUME NEW c \in Starts, clients[c].started > lease.renewed, ClientLive(c, time)
          PROVE  time < clients[c].started + G
      <3>1. CASE clients[c].up
        BY <1>1, <1>2, <1>3, <2>1, <3>1
      <3>2. CASE ~clients[c].up
        BY <1>1, <1>2, <1>3, <2>3, <3>2 DEF DiedEarly, ClientLive
      <3> QED
        BY <3>1, <3>2, Zenon
    <2>4. \A s \in L : time < s + G
      BY <2>3, Zenon DEF StartsSince
    <2>5. PICK s \in L : \A t \in L : s <= t
      BY <2>2, SmallestOf, Zenon
    <2> QED
      BY <1>1, <1>3, <2>2, <2>4, <2>5 DEF LeaseDue
  <1> QED
    BY <1>1, <1>4, <1>5, Zenon
-----------------------------------------------------------------------------
(* The holder. *)

\* The facts that the step lemmas take from the invariant.
LEMMA Rows ==
    ASSUME LeaseInv
    PROVE  /\ job.st \in {"waiting", "running", "done"} /\ job.fence \in Nat /\ job.attempt \in Int /\ job.cancel \in BOOLEAN
           /\ lease.fence \in Nat /\ lease.renewed \in Nat /\ lease.expires \in Nat
           /\ time \in Nat /\ idle \in Nat
           /\ \A c \in Starts : clients[c].started \in Nat /\ clients[c].expires \in Nat /\ clients[c].up \in BOOLEAN
           /\ renewal.now \in Nat /\ renewal.fence \in Nat /\ finish.fence \in Nat /\ expiry.now \in Nat /\ expiry.fence \in Nat
           /\ job.st # "running" => lease = NoLease
           /\ LeaseTTL \in Nat /\ LeaseTTL > 0 /\ Patience \in Nat /\ ClientTTL \in Nat
  <1>1. LeaseTypeOK /\ RowsMatch
    BY Zenon DEF LeaseInv
  <1>2. job.st # "running" => lease = NoLease
    BY <1>1, Zenon DEF RowsMatch, RunsAt
  <1> QED
    BY <1>1, <1>2, LeaseAssumption DEF LeaseTypeOK, JobType, LeaseType, ClientType, StmtType

\* No attempt is ended by a lapse but in ExpireReleases.
LEMMA NotLapsed ==
    ASSUME ended' = ended \/ \E f : ended' = ended \cup {<<f, "finish">>}
    PROVE  RenewedIsKept
  BY DEF RenewedIsKept

LEMMA ClaimByIDStep ==
    ASSUME LeaseInv, NEW f \in 0..MaxFence, JobClaimByID(f)
    PROVE  LeaseInv' /\ RenewedIsKept
  <1>0. /\ Up # {} /\ ~JobHeld /\ job.st = "waiting" /\ job.fence = f /\ f \in Nat
        /\ UNCHANGED <<time, clients, restarted, renewal, finish, expiry, story, ended, acked>>
        /\ claimed' = claimed \cup {f + 1} /\ idle' = 0
        /\ lease' = [fence |-> f + 1, renewed |-> time, expires |-> time + LeaseTTL]
    BY LeaseAssumption DEF JobClaimByID
  <1>1. job' \in JobType /\ job'.st = "running" /\ job'.fence = f + 1
    <2>1. job' = [job EXCEPT !.st = "running", !.fence = f + 1, !.attempt = job.attempt + 1]
      BY Zenon DEF JobClaimByID
    <2>2. job \in JobType /\ job.attempt + 1 \in Int /\ f + 1 \in Nat
      BY <1>0, Rows DEF LeaseInv, LeaseTypeOK
    <2> QED
      BY <2>1, <2>2, Zenon DEF JobType
  <1>2. lease' \in LeaseType /\ lease' # NoLease /\ lease'.fence = f + 1 /\ lease'.renewed = time /\ lease'.expires = time + LeaseTTL
    BY <1>0, Rows DEF LeaseType, NoLease
  <1>3. LeaseTypeOK'
    <2>0. claimed \subseteq Nat /\ f + 1 \in Nat
      BY <1>0 DEF LeaseInv, LeaseTypeOK
    <2>1. claimed' \subseteq Nat /\ idle' \in Nat
      BY <1>0, <2>0, Zenon
    <2> QED
      BY <1>0, <1>1, <1>2, <2>1, Zenon DEF LeaseInv, LeaseTypeOK
  <1>4. RowsMatch'
    BY <1>0, <1>1, <1>2, Rows DEF RowsMatch, LeaseOwnsJob, RunsAt
  <1>5. HoldersSound'
    BY <1>0, Zenon DEF LeaseInv, HoldersSound, JobHeld
  <1>6. EndedBefore'
    <2>1. \A a \in ended : a[1] \in Nat /\ a[1] <= f
      BY <1>0, Zenon DEF LeaseInv, LeaseTypeOK, EndedBefore
    <2>2. \A g \in claimed : g \in Nat /\ g <= f
      BY <1>0, Zenon DEF LeaseInv, LeaseTypeOK, EndedBefore
    <2>3. renewal.fence \in Nat /\ renewal.fence <= f
      BY <1>0, Rows, Zenon DEF LeaseInv, EndedBefore
    <2> QED
      BY <1>0, <1>1, <2>1, <2>2, <2>3 DEF EndedBefore
  <1>7. EndsOnce'
    BY <1>0, Zenon DEF LeaseInv, EndsOnce
  <1>8. (Diligent /\ RenewsInTime => DiligentInv)'
    <2> SUFFICES ASSUME Diligent', RenewsInTime PROVE DiligentInv'
      BY Zenon DEF RenewsInTime
    <2>1. DiligentInv
      BY <1>0, Zenon DEF LeaseInv, Diligent
    <2>2. renewal.fence # f + 1
      BY <1>0, Rows DEF LeaseInv, EndedBefore
    <2>3. DiedEarly'
      BY <1>0, <1>2, <2>1, Rows DEF DiedEarly, DiligentInv
    <2>4. Recent'
      BY <1>0, <1>2, Rows DEF Recent
    <2> QED
      BY <1>0, <1>2, <2>1, <2>2, <2>3, <2>4, Rows DEF DiligentInv, Up
  <1>9. RenewedIsKept
    BY <1>0, NotLapsed, Zenon
  <1> QED
    BY <1>3, <1>4, <1>5, <1>6, <1>7, <1>8, <1>9, Zenon DEF LeaseInv

LEMMA RenewBeginsStep ==
    ASSUME LeaseInv, NEW f \in 0..MaxFence, RenewBegins(f)
    PROVE  LeaseInv' /\ RenewedIsKept
  <1>0. /\ Up # {} /\ f \in claimed
        /\ UNCHANGED <<job, lease, time, clients, restarted, finish, expiry, idle, story, claimed, ended, acked>>
    BY Zenon DEF RenewBegins, leaseRows, ghosts
  <1>1. f \in Nat /\ f <= job.fence
    BY <1>0, LeaseAssumption DEF LeaseInv, EndedBefore
  <1>2. renewal' \in StmtType /\ renewal'.now = time /\ renewal'.fence = f
    BY <1>1, Rows, Zenon DEF RenewBegins, NoStmt, StmtType, RunsAt
  <1>3. LeaseTypeOK'
    BY <1>0, <1>2, Zenon DEF LeaseInv, LeaseTypeOK
  <1>4. RowsMatch' /\ EndsOnce'
    BY <1>0, Zenon DEF LeaseInv, RowsMatch, LeaseOwnsJob, RunsAt, EndsOnce
  <1>5. HoldersSound' /\ EndedBefore'
    <2>1. time <= time
      BY Rows
    <2> QED
      BY <1>0, <1>1, <1>2, <2>1, Zenon DEF LeaseInv, HoldersSound, RunsAt, EndedBefore
  <1>6. (Diligent /\ RenewsInTime => DiligentInv)'
    <2> SUFFICES ASSUME Diligent', RenewsInTime PROVE DiligentInv'
      BY Zenon DEF RenewsInTime
    <2>1. DiligentInv
      BY <1>0, Zenon DEF LeaseInv, Diligent
    <2>2. lease # NoLease => lease.renewed <= time
      BY Zenon DEF LeaseInv, RowsMatch
    <2>3. time - time <= idle
      BY Rows
    <2> QED
      BY <1>0, <1>2, <2>1, <2>2, <2>3, Zenon DEF DiligentInv, Up, DiedEarly, Recent, SinceRestart
  <1>7. RenewedIsKept
    BY <1>0, NotLapsed, Zenon
  <1> QED
    BY <1>3, <1>4, <1>5, <1>6, <1>7, Zenon DEF LeaseInv

LEMMA RenewStep ==
    ASSUME LeaseInv, JobLeaseRenew
    PROVE  LeaseInv' /\ RenewedIsKept
  <1>0. /\ renewal.pc = "begun" /\ renewal' = NoStmt
        /\ UNCHANGED <<job, time, clients, restarted, finish, expiry, story, claimed, ended, acked>>
    BY Zenon DEF JobLeaseRenew, ghosts
  <1>1. RenewedIsKept
    BY <1>0, NotLapsed, Zenon
  <1>2. HoldersSound' /\ EndedBefore' /\ EndsOnce'
    BY <1>0, StmtIs, Rows DEF LeaseInv, HoldersSound, RunsAt, EndedBefore, EndsOnce
  <1>3. CASE lease' = lease /\ idle' = idle
    <2>1. LeaseTypeOK' /\ RowsMatch'
      BY <1>0, <1>3, StmtIs, Zenon DEF LeaseInv, LeaseTypeOK, RowsMatch, LeaseOwnsJob, RunsAt
    <2>2. (Diligent /\ RenewsInTime => DiligentInv)'
      BY <1>0, <1>3, StmtIs, Zenon DEF LeaseInv, Diligent, RenewsInTime, DiligentInv, Up, DiedEarly, Recent, SinceRestart
    <2> QED
      BY <1>1, <1>2, <2>1, <2>2, Zenon DEF LeaseInv
  <1>4. CASE /\ lease # NoLease /\ lease.fence = renewal.fence /\ renewal.ran /\ idle' = 0
             /\ lease' = [lease EXCEPT !.renewed = renewal.now, !.expires = renewal.now + LeaseTTL]
    <2>1. /\ lease' \in LeaseType /\ lease'.fence = lease.fence
          /\ lease'.renewed = renewal.now /\ lease'.expires = renewal.now + LeaseTTL
      <3>1. lease \in LeaseType /\ renewal.now \in Nat /\ renewal.now + LeaseTTL \in Nat
        BY Rows DEF LeaseInv, LeaseTypeOK
      <3> QED
        BY <1>4, <3>1, Zenon DEF LeaseType
    <2>2. lease' # NoLease
      BY <2>1, Rows DEF NoLease
    <2>3. LeaseTypeOK'
      BY <1>0, <1>4, <2>1, StmtIs, Zenon DEF LeaseInv, LeaseTypeOK
    <2>4. RowsMatch'
      BY <1>0, <1>4, <2>1, <2>2, Zenon DEF LeaseInv, RowsMatch, LeaseOwnsJob, RunsAt, HoldersSound
    <2>5. (Diligent /\ RenewsInTime => DiligentInv)'
      <3> SUFFICES ASSUME Diligent', RenewsInTime PROVE DiligentInv'
        BY Zenon DEF RenewsInTime
      <3>1. DiligentInv
        BY <1>0, Zenon DEF LeaseInv, Diligent
      <3>2. time - renewal.now <= idle /\ lease.renewed <= renewal.now /\ idle <= Patience
        BY <1>0, <1>4, <3>1, Zenon DEF DiligentInv
      <3>3. DiedEarly'
        BY <1>0, <1>4, <2>1, <3>1, <3>2, Rows DEF DiligentInv, DiedEarly
      <3>4. Recent'
        BY <1>0, <1>4, <2>1, <3>2, Rows DEF Recent
      <3> QED
        BY <1>0, <1>4, <3>1, <3>3, <3>4, StmtIs, Rows DEF DiligentInv, Up
    <2> QED
      BY <1>1, <1>2, <2>3, <2>4, <2>5, Zenon DEF LeaseInv
  <1> QED
    BY <1>3, <1>4, Zenon DEF JobLeaseRenew
LEMMA ReadsLeasedStep ==
    ASSUME LeaseInv, NEW f \in 0..MaxFence, ReadsLeased(f)
    PROVE  LeaseInv' /\ RenewedIsKept
  <1>0. /\ ~Diligent
        /\ UNCHANGED <<job, lease, time, clients, restarted, renewal, expiry, idle, story, claimed, ended, acked>>
    BY Zenon DEF ReadsLeased, leaseRows, ghosts
  <1>1. finish' \in StmtType /\ finish'.pc = "read"
    <2>1. PICK r \in {"completed", "failed", "snoozed"}, tx \in BOOLEAN :
            finish' = [NoStmt EXCEPT !.pc = "read", !.fence = f, !.tx = tx,
                !.result = CASE r = "failed" /\ job.cancel -> "canceled"
                             [] r = "failed" /\ ~job.cancel /\ job.attempt >= MaxAttempts -> "discarded"
                             [] OTHER -> r]
      BY Zenon DEF ReadsLeased
    <2>2. PICK res \in {"completed", "failed", "snoozed", "canceled", "discarded"} :
            finish' = [NoStmt EXCEPT !.pc = "read", !.fence = f, !.tx = tx, !.result = res]
      <3>1. CASE r = "failed" /\ job.cancel
        BY <2>1, <3>1, Zenon
      <3>2. CASE r = "failed" /\ ~job.cancel /\ job.attempt >= MaxAttempts
        BY <2>1, <3>2, Zenon
      <3>3. CASE ~(r = "failed" /\ job.cancel) /\ ~(r = "failed" /\ ~job.cancel /\ job.attempt >= MaxAttempts)
        BY <2>1, <3>3, Zenon
      <3> QED
        BY <3>1, <3>2, <3>3, Zenon
    <2>3. f \in Nat
      BY LeaseAssumption
    <2> QED
      BY <2>2, <2>3, Zenon DEF NoStmt, StmtType
  <1>2. LeaseTypeOK' /\ RowsMatch' /\ EndedBefore' /\ EndsOnce'
    BY <1>0, <1>1, Zenon DEF LeaseInv, LeaseTypeOK, RowsMatch, LeaseOwnsJob, RunsAt, EndedBefore, EndsOnce
  <1>3. HoldersSound'
    BY <1>0, <1>1, Zenon DEF LeaseInv, HoldersSound, RunsAt
  <1>4. ~Diligent' /\ RenewedIsKept
    BY <1>0, NotLapsed, Zenon DEF Diligent
  <1> QED
    BY <1>2, <1>3, <1>4, Zenon DEF LeaseInv

\* What a result that is written leaves.
LEMMA AttemptEnds ==
    ASSUME LeaseInv, NEW f \in Nat, NEW how \in {"finish", "expiry"}, RunsAt(job, f),
           job' \in JobType, job'.st # "running", job'.fence = job.fence, lease' = NoLease,
           ended' = ended \cup {<<f, how>>}, acked' \subseteq Nat,
           \A g \in acked' : g \in acked \/ <<g, "finish">> \in ended',
           finish' = NoStmt \/ finish' = finish, expiry' = NoStmt \/ expiry' = expiry,
           finish'.pc # "held", expiry'.pc # "locked",
           how = "expiry" => ~(Diligent /\ RenewsInTime),
           UNCHANGED <<time, clients, restarted, renewal, idle, story, claimed>>
    PROVE  LeaseInv'
  <1>1. LeaseTypeOK'
    <2>1. ended' \subseteq Nat \X {"finish", "expiry"}
      BY DEF LeaseInv, LeaseTypeOK
    <2> QED
      BY <2>1, StmtIs, Zenon DEF LeaseInv, LeaseTypeOK
  <1>2. RowsMatch'
    BY Zenon DEF RowsMatch, LeaseOwnsJob
  <1>3. HoldersSound'
    BY StmtIs, Rows DEF LeaseInv, HoldersSound
  <1>4. f = job.fence /\ \A a \in ended : a[1] # f
    BY Zenon DEF RunsAt, LeaseInv, EndedBefore
  <1>5. EndedBefore'
    <2>1. f <= job.fence
      BY <1>4
    <2> QED
      BY <1>4, <2>1 DEF LeaseInv, EndedBefore
  <1>6. EndsOnce'
    BY <1>4 DEF LeaseInv, EndsOnce
  <1>7. (Diligent /\ RenewsInTime => DiligentInv)'
    BY StmtIs DEF LeaseInv, Diligent, RenewsInTime, DiligentInv, Up
  <1> QED
    BY <1>1, <1>2, <1>3, <1>5, <1>6, <1>7, Zenon DEF LeaseInv

LEMMA FinishedIs ==
    ASSUME LeaseInv, NEW r
    PROVE  Finished(r) \in JobType /\ Finished(r).st # "running" /\ Finished(r).fence = job.fence
  <1>1. job \in JobType /\ job.attempt - 1 \in Int /\ job.attempt \in Int
    BY Rows DEF LeaseInv, LeaseTypeOK
  <1> QED
    BY <1>1, Zenon DEF Finished, JobType

LEMMA FinishStep ==
    ASSUME LeaseInv, FinishWrites \/ FinishTxEnds
    PROVE  LeaseInv' /\ RenewedIsKept
  <1>0. /\ UNCHANGED <<time, clients, restarted, renewal, expiry, idle, story, claimed>>
        /\ finish.fence \in Nat
    BY Rows, Zenon DEF FinishWrites, FinishTxEnds
  <1>1. CASE /\ UNCHANGED <<job, lease, ended, acked>>
             /\ finish' = NoStmt \/ (finish' = [finish EXCEPT !.pc = "held"] /\ OwnedByLease(finish.fence) /\ ~JobHeld)
    <2>1. /\ finish' \in StmtType
          /\ finish'.pc = "held" => RunsAt(job, finish'.fence) /\ expiry.pc # "locked"
      <3>1. CASE finish' = NoStmt
        BY <3>1, StmtIs, Zenon
      <3>2. CASE finish' = [finish EXCEPT !.pc = "held"] /\ OwnedByLease(finish.fence) /\ ~JobHeld
        <4>1. finish \in StmtType
          BY Zenon DEF LeaseInv, LeaseTypeOK
        <4>2. finish' \in StmtType /\ finish'.fence = finish.fence
          BY <3>2, <4>1, Zenon DEF StmtType
        <4> QED
          BY <3>2, <4>2, Zenon DEF OwnedByLease, JobHeld
      <3> QED
        BY <1>1, <3>1, <3>2, Zenon
    <2>2. LeaseTypeOK' /\ RowsMatch' /\ EndedBefore' /\ EndsOnce'
      BY <1>0, <1>1, <2>1, Zenon DEF LeaseInv, LeaseTypeOK, RowsMatch, LeaseOwnsJob, RunsAt, EndedBefore, EndsOnce
    <2>3. HoldersSound'
      BY <1>0, <1>1, <2>1, Zenon DEF LeaseInv, HoldersSound, RunsAt
    <2>4. (Diligent /\ RenewsInTime => DiligentInv)'
      BY <1>0, <1>1, Zenon DEF LeaseInv, Diligent, RenewsInTime, DiligentInv, Up, DiedEarly, Recent, SinceRestart
    <2> QED
      BY <1>1, <2>2, <2>3, <2>4, NotLapsed, Zenon DEF LeaseInv
  <1>2. CASE /\ EndsAttempt(finish.fence, finish.result) /\ finish' = NoStmt
             /\ RunsAt(job, finish.fence) /\ expiry.pc # "locked"
    <2>1. /\ job' = Finished(finish.result) /\ lease' = NoLease
          /\ ended' = ended \cup {<<finish.fence, "finish">>} /\ acked' = acked \cup {finish.fence}
      BY <1>2, Zenon DEF EndsAttempt
    <2>2. job' \in JobType /\ job'.st # "running" /\ job'.fence = job.fence
      BY <2>1, FinishedIs, Zenon
    <2>3. acked' \subseteq Nat /\ \A g \in acked' : g \in acked \/ <<g, "finish">> \in ended'
      BY <1>0, <2>1, Zenon DEF LeaseInv, LeaseTypeOK
    <2>4. finish'.pc # "held" /\ expiry'.pc # "locked" /\ expiry' = expiry
      BY <1>0, <1>2, StmtIs, Zenon
    <2>5. LeaseInv'
      BY <1>0, <1>2, <2>1, <2>2, <2>3, <2>4, AttemptEnds, Zenon
    <2> QED
      BY <2>1, <2>5, NotLapsed, Zenon
  <1>3. CASE FinishWrites
    BY <1>1, <1>2, <1>3, Zenon DEF FinishWrites, OwnedByLease, JobHeld, leaseRows
  <1>4. CASE FinishTxEnds
    BY <1>1, <1>2, <1>4, Zenon DEF FinishTxEnds, leaseRows, LeaseInv, HoldersSound
  <1> QED
    BY <1>3, <1>4, Zenon

LEMMA CancelStep ==
    ASSUME LeaseInv, CancelJob
    PROVE  LeaseInv' /\ RenewedIsKept
  <1>0. /\ ~Diligent /\ ~JobHeld
        /\ UNCHANGED <<lease, time, clients, restarted, renewal, finish, expiry, idle, story, claimed, ended, acked>>
    BY Zenon DEF CancelJob, ghosts
  <1>1. job \in JobType
    BY Zenon DEF LeaseInv, LeaseTypeOK
  <1>2. /\ job' \in JobType /\ job'.fence = job.fence
        /\ job'.st = job.st \/ (job.st = "waiting" /\ job'.st = "done")
    BY <1>1, Zenon DEF CancelJob, JobType
  <1>3. LeaseTypeOK' /\ EndsOnce' /\ EndedBefore'
    BY <1>0, <1>2, Zenon DEF LeaseInv, LeaseTypeOK, EndsOnce, EndedBefore
  <1>4. RowsMatch'
    BY <1>0, <1>2, Rows, Zenon DEF LeaseInv, RowsMatch, LeaseOwnsJob, RunsAt
  <1>5. HoldersSound'
    BY <1>0, Zenon DEF LeaseInv, HoldersSound, JobHeld
  <1>6. ~Diligent' /\ RenewedIsKept
    BY <1>0, NotLapsed, Zenon DEF Diligent
  <1> QED
    BY <1>3, <1>4, <1>5, <1>6, Zenon DEF LeaseInv
-----------------------------------------------------------------------------
(* The expiry. *)

\* Only a lease that is not renewed in time is ever found due.
LEMMA ExpireStep ==
    ASSUME LeaseInv, ExpireBegins \/ ExpireLocks
    PROVE  LeaseInv' /\ RenewedIsKept
  <1>0. UNCHANGED <<job, lease, time, clients, restarted, renewal, finish, idle, story, claimed, ended, acked>>
    BY Zenon DEF ExpireBegins, ExpireLocks, leaseRows, ghosts
  <1>1. ~(Diligent /\ RenewsInTime)
    <2>1. CASE ExpireBegins
      BY <2>1, NeverDue, Zenon DEF ExpireBegins
    <2>2. CASE ExpireLocks
      BY <2>2, Zenon DEF ExpireLocks, LeaseInv, DiligentInv
    <2> QED
      BY <2>1, <2>2, Zenon
  <1>2. /\ expiry' \in StmtType /\ expiry'.now <= time
        /\ expiry'.pc = "locked" => finish.pc # "held" /\ RunsAt(job, expiry'.fence) /\ expiry'.verdict \in {"retry", "finished"}
    <2>0. Verdict \in {"retry", "finished"}
      BY Zenon DEF Verdict
    <2>1. CASE ExpireBegins
      <3>1. expiry' = [NoStmt EXCEPT !.pc = "begun", !.now = time, !.fence = lease.fence, !.verdict = Verdict]
        BY <2>1, Zenon DEF ExpireBegins
      <3>2. expiry' \in StmtType /\ expiry'.now = time /\ expiry'.pc = "begun"
        BY <2>0, <3>1, Rows, Zenon DEF NoStmt, StmtType
      <3> QED
        BY <3>2, Rows
    <2>2. CASE ExpireLocks /\ expiry' = NoStmt
      BY <2>2, StmtIs, Rows
    <2>3. CASE /\ expiry' = [expiry EXCEPT !.pc = "locked", !.verdict = Verdict]
               /\ ~JobHeld /\ RunsAt(job, expiry.fence)
      <3>1. expiry \in StmtType /\ expiry.now <= time
        BY Zenon DEF LeaseInv, LeaseTypeOK, HoldersSound
      <3>2. expiry' \in StmtType /\ expiry'.now = expiry.now /\ expiry'.fence = expiry.fence /\ expiry'.verdict = Verdict
        BY <2>0, <2>3, <3>1, Zenon DEF StmtType
      <3> QED
        BY <2>0, <2>3, <3>1, <3>2, Zenon DEF JobHeld
    <2> QED
      BY <2>1, <2>2, <2>3, Zenon DEF ExpireLocks
  <1>3. LeaseTypeOK' /\ RowsMatch' /\ EndedBefore' /\ EndsOnce'
    BY <1>0, <1>2, Zenon DEF LeaseInv, LeaseTypeOK, RowsMatch, LeaseOwnsJob, RunsAt, EndedBefore, EndsOnce
  <1>4. HoldersSound'
    BY <1>0, <1>2, Zenon DEF LeaseInv, HoldersSound, RunsAt
  <1>5. ~(Diligent /\ RenewsInTime)' /\ RenewedIsKept
    BY <1>0, <1>1, NotLapsed, Zenon DEF Diligent, RenewsInTime
  <1> QED
    BY <1>3, <1>4, <1>5, Zenon DEF LeaseInv

LEMMA ReleaseStep ==
    ASSUME LeaseInv, ExpireReleases
    PROVE  LeaseInv' /\ RenewedIsKept
  <1>0. /\ expiry.pc = "locked" /\ expiry' = NoStmt
        /\ UNCHANGED <<time, clients, restarted, renewal, finish, idle, story, claimed, acked>>
    BY Zenon DEF ExpireReleases
  <1>1. /\ ~(Diligent /\ RenewsInTime)
        /\ finish.pc # "held" /\ RunsAt(job, expiry.fence) /\ expiry.verdict \in {"retry", "finished"} /\ expiry.now <= time
    BY <1>0, Zenon DEF LeaseInv, DiligentInv, HoldersSound
  <1>2. CASE UNCHANGED <<job, lease, ended>>
    <2>1. LeaseTypeOK' /\ RowsMatch' /\ EndedBefore' /\ EndsOnce'
      BY <1>0, <1>2, StmtIs, Zenon DEF LeaseInv, LeaseTypeOK, RowsMatch, LeaseOwnsJob, RunsAt, EndedBefore, EndsOnce
    <2>2. HoldersSound'
      BY <1>0, <1>1, <1>2, StmtIs, Rows DEF LeaseInv, HoldersSound, RunsAt
    <2>3. ~(Diligent /\ RenewsInTime)' /\ RenewedIsKept
      BY <1>0, <1>1, <1>2, NotLapsed, Zenon DEF Diligent, RenewsInTime
    <2> QED
      BY <2>1, <2>2, <2>3, Zenon DEF LeaseInv
  <1>3. CASE /\ Released /\ job' = Lapses(job) /\ lease' = NoLease
             /\ ended' = ended \cup {<<lease.fence, "expiry">>}
    <2>1. lease # NoLease /\ lease.fence = expiry.fence /\ lease.expires <= expiry.now
      BY <1>3, Zenon DEF Released, LeaseDue
    <2>2. job' \in JobType /\ job'.st # "running" /\ job'.fence = job.fence
      <3>1. job \in JobType
        BY Zenon DEF LeaseInv, LeaseTypeOK
      <3>2. PICK st \in {"waiting", "done"} : job' = [job EXCEPT !.st = st]
        BY <1>1, <1>3, Zenon DEF Lapses
      <3> QED
        BY <3>1, <3>2, Zenon DEF JobType
    <2>3. /\ acked' \subseteq Nat /\ \A g \in acked' : g \in acked \/ <<g, "finish">> \in ended'
          /\ lease.fence \in Nat /\ RunsAt(job, lease.fence)
      BY <1>0, <1>1, <2>1, Rows, Zenon DEF LeaseInv, LeaseTypeOK
    <2>4. finish' = finish /\ finish'.pc # "held" /\ expiry'.pc # "locked"
      BY <1>0, <1>1, StmtIs, Zenon
    <2>5. LeaseInv'
      BY <1>0, <1>1, <1>3, <2>2, <2>3, <2>4, AttemptEnds, Zenon
    <2>6. lease.expires <= time
      BY <1>1, <2>1, Rows
    <2>7. RenewedIsKept
      BY <1>3, <2>6, Zenon DEF RenewedIsKept
    <2> QED
      BY <2>5, <2>7, Zenon
  <1> QED
    BY <1>2, <1>3, Zenon DEF ExpireReleases, leaseRows

-----------------------------------------------------------------------------
(* Clients and time. *)

\* A step of the clients or of time alone.
LEMMA ClientsOnly ==
    ASSUME LeaseInv, UNCHANGED <<job, lease, story, claimed, ended, acked>>,
           time' \in Nat, time <= time', idle' \in Nat, clients' \in [Starts -> ClientType], restarted' \in BOOLEAN,
           renewal' = renewal \/ renewal' = NoStmt, finish' = finish \/ finish' = NoStmt, expiry' = expiry \/ expiry' = NoStmt,
           Diligent /\ RenewsInTime => DiligentInv'
    PROVE  LeaseInv' /\ RenewedIsKept
  <1>1. LeaseTypeOK' /\ EndsOnce'
    BY StmtIs, Zenon DEF LeaseInv, LeaseTypeOK, EndsOnce
  <1>2. RowsMatch'
    BY Rows DEF LeaseInv, RowsMatch, LeaseOwnsJob, RunsAt
  <1>3. HoldersSound'
    <2>1. expiry'.now <= time' /\ renewal'.now <= time'
      BY StmtIs, Rows DEF LeaseInv, HoldersSound
    <2> QED
      BY <2>1, StmtIs, Zenon DEF LeaseInv, HoldersSound, RunsAt
  <1>4. EndedBefore'
    BY StmtIs, Rows DEF LeaseInv, EndedBefore
  <1>5. (Diligent /\ RenewsInTime => DiligentInv)' /\ RenewedIsKept
    BY NotLapsed, Zenon DEF Diligent, RenewsInTime
  <1> QED
    BY <1>1, <1>2, <1>3, <1>4, <1>5, Zenon DEF LeaseInv

LEMMA StartStep ==
    ASSUME LeaseInv, NEW c \in Starts, ClientStarts(c)
    PROVE  LeaseInv' /\ RenewedIsKept
  <1>0. /\ clients[c] = NoClient
        /\ clients' = [clients EXCEPT ![c] = [started |-> time, expires |-> 0, up |-> TRUE]]
        /\ restarted' = (restarted \/ Up = {})
        /\ UNCHANGED <<job, lease, time, renewal, finish, expiry, idle, story, claimed, ended, acked>>
    BY Zenon DEF ClientStarts, leaseRows, ghosts
  <1>1. /\ clients' \in [Starts -> ClientType]
        /\ clients'[c].started = time /\ clients'[c].up /\ ~clients[c].up
        /\ \A d \in Starts : d # c => clients'[d] = clients[d]
    BY <1>0, Rows, StmtIs, Zenon DEF LeaseInv, LeaseTypeOK, ClientType
  <1>2. Up' = Up \cup {c} /\ restarted' \in BOOLEAN /\ time <= time
    BY <1>0, <1>1, Rows DEF Up
  <1>3. ASSUME Diligent, RenewsInTime PROVE DiligentInv'
    <2>1. DiligentInv
      BY <1>3, Zenon DEF LeaseInv
    <2>2. DiedEarly /\ lease # NoLease => DiedEarly'
      BY <1>0, <1>1, Zenon DEF DiedEarly
    <2>3. ASSUME lease # NoLease PROVE (Recent \/ (restarted /\ SinceRestart))'
      <3>1. lease.renewed <= time
        BY <2>3, Zenon DEF LeaseInv, RowsMatch
      <3>2. CASE Up = {}
        <4>1. restarted'
          BY <1>0, <3>2, Zenon
        <4>2. \A d \in Starts : clients'[d].up => d = c
          BY <1>1, <3>2, Zenon DEF Up
        <4>3. CASE lease.renewed = time
          BY <1>0, <4>3, Rows DEF Recent
        <4>4. CASE lease.renewed < time
          <5>1. clients'[c].started <= clients'[c].started /\ time - clients'[c].started <= idle
            BY <1>1, Rows
          <5> QED
            BY <1>0, <1>1, <4>1, <4>2, <4>4, <5>1, Zenon DEF SinceRestart
        <4> QED
          BY <3>1, <4>3, <4>4, Rows
      <3>3. CASE Up # {} /\ Recent
        BY <1>0, <3>3, Zenon DEF Recent
      <3>4. CASE restarted /\ SinceRestart
        <4>1. PICK first \in Starts :
                /\ clients[first].up /\ clients[first].started > lease.renewed
                /\ time - clients[first].started <= idle
                /\ \A d \in Starts : clients[d].up => clients[first].started <= clients[d].started
          BY <3>4, Zenon DEF SinceRestart
        <4>2. first # c /\ clients'[first] = clients[first] /\ clients[first].started <= time
          BY <1>1, <2>1, <4>1, Zenon DEF DiligentInv
        <4>3. \A d \in Starts : clients'[d].up => clients'[first].started <= clients'[d].started
          BY <1>1, <4>1, <4>2, Zenon
        <4> QED
          BY <1>0, <3>4, <4>1, <4>2, <4>3, Zenon DEF SinceRestart
      <3> QED
        BY <2>1, <2>3, <3>2, <3>3, <3>4, Zenon DEF DiligentInv
    <2>4. \A d \in Starts : clients'[d].started <= time
      BY <1>1, <1>2, <2>1, Zenon DEF DiligentInv
    <2> QED
      BY <1>0, <1>2, <2>1, <2>2, <2>3, <2>4, Zenon DEF DiligentInv
  <1> QED
    BY <1>0, <1>1, <1>2, <1>3, Rows, ClientsOnly, Zenon

LEMMA CrashStep ==
    ASSUME LeaseInv, NEW S \in SUBSET Up, Crash(S)
    PROVE  LeaseInv' /\ RenewedIsKept
  <1>0. /\ ~restarted /\ S # {}
        /\ clients' = [c \in Starts |-> IF c \in S THEN [clients[c] EXCEPT !.up = FALSE, !.expires = time + ClientTTL] ELSE clients[c]]
        /\ renewal' = IF S = Up THEN NoStmt ELSE renewal
        /\ finish' = IF S = Up THEN NoStmt ELSE finish
        /\ expiry' = IF S = Up THEN NoStmt ELSE expiry
        /\ UNCHANGED <<job, lease, time, restarted, idle, story, claimed, ended, acked>>
    BY Zenon DEF Crash, leaseRows, ghosts
  <1>1. \A c \in Starts : /\ clients'[c] \in ClientType
                          /\ clients'[c].started = clients[c].started
                          /\ c \in S => ~clients'[c].up /\ clients'[c].expires = time + ClientTTL
                          /\ c \notin S => clients'[c] = clients[c]
    <2> SUFFICES ASSUME NEW c \in Starts
                 PROVE  /\ clients'[c] \in ClientType
                        /\ clients'[c].started = clients[c].started
                        /\ c \in S => ~clients'[c].up /\ clients'[c].expires = time + ClientTTL
                        /\ c \notin S => clients'[c] = clients[c]
      BY Zenon
    <2>1. clients[c] \in ClientType /\ time + ClientTTL \in Nat
      BY Rows DEF LeaseInv, LeaseTypeOK
    <2>2. clients'[c] = IF c \in S THEN [clients[c] EXCEPT !.up = FALSE, !.expires = time + ClientTTL] ELSE clients[c]
      BY <1>0, Zenon
    <2> QED
      BY <2>1, <2>2, Zenon DEF ClientType
  <1>2. /\ clients' \in [Starts -> ClientType] /\ Up' = Up \ S /\ Up # {} /\ (Up' = {} => S = Up)
    BY <1>0, <1>1, Zenon DEF Up
  <1>3. ASSUME Diligent, RenewsInTime PROVE DiligentInv'
    <2>1. DiligentInv
      BY <1>3, Zenon DEF LeaseInv
    <2>2. ASSUME lease # NoLease PROVE Recent /\ Recent' /\ DiedEarly'
      <3>1. Recent /\ DiedEarly /\ idle <= Patience
        BY <1>0, <1>2, <2>1, <2>2, Zenon DEF DiligentInv
      <3>2. time + ClientTTL <= lease.renewed + 2 * Patience + ClientTTL
        BY <3>1, Rows DEF Recent
      <3>3. ASSUME NEW c \in Starts, ~clients'[c].up, clients'[c].started > lease.renewed
            PROVE  clients'[c].expires <= lease.renewed + 2 * Patience + ClientTTL
        <4>1. CASE c \in S
          BY <1>1, <3>2, <4>1, Zenon
        <4>2. CASE c \notin S
          BY <1>1, <3>1, <3>3, <4>2, Zenon DEF DiedEarly
        <4> QED
          BY <4>1, <4>2, Zenon
      <3> QED
        BY <1>0, <3>1, <3>3, Zenon DEF Recent, DiedEarly
    <2>3. expiry'.pc = "none" /\ (Up' = {} => renewal'.pc = "none")
      BY <1>0, <1>2, <2>1, StmtIs, Zenon DEF DiligentInv
    <2>4. \A c \in Starts : clients'[c].started <= time
      BY <1>1, <2>1, Zenon DEF DiligentInv
    <2>5. lease # NoLease /\ renewal'.pc = "begun" /\ renewal'.ran /\ renewal'.fence = lease.fence =>
              time - renewal'.now <= idle /\ lease.renewed <= renewal'.now
      BY <1>0, <2>1, StmtIs, Zenon DEF DiligentInv
    <2> QED
      BY <1>0, <1>2, <2>1, <2>2, <2>3, <2>4, <2>5, Zenon DEF DiligentInv
  <1>4. time' \in Nat /\ time <= time' /\ idle' \in Nat
    <2>1. time' = time /\ idle' = idle
      BY <1>0, Zenon
    <2> QED
      BY <2>1, Rows
  <1>5. restarted' \in BOOLEAN
    BY <1>0, Zenon DEF LeaseInv, LeaseTypeOK
  <1> QED
    BY <1>0, <1>2, <1>3, <1>4, <1>5, ClientsOnly, Zenon

LEMMA TickStep ==
    ASSUME LeaseInv, Tick
    PROVE  LeaseInv' /\ RenewedIsKept
  <1>0. /\ (Diligent /\ Up # {} /\ lease # NoLease) => idle < Patience
        /\ time' = time + 1
        /\ idle' = IF Diligent /\ Up # {} /\ lease # NoLease THEN idle + 1 ELSE idle
        /\ UNCHANGED <<job, lease, clients, restarted, renewal, finish, expiry, story, claimed, ended, acked>>
    BY Zenon DEF Tick, leaseRows, ghosts
  <1>1. time' \in Nat /\ time <= time' /\ idle' \in Nat
    BY <1>0, Rows
  <1>2. ASSUME Diligent, RenewsInTime PROVE DiligentInv'
    <2>1. DiligentInv
      BY <1>2, Zenon DEF LeaseInv
    <2>2. idle' <= Patience
      BY <1>0, <1>2, <2>1, Rows DEF DiligentInv
    <2>3. \A c \in Starts : clients[c].started <= time'
      BY <1>0, <2>1, Rows DEF DiligentInv
    <2>4. lease # NoLease /\ renewal.pc = "begun" /\ renewal.ran /\ renewal.fence = lease.fence =>
              time' - renewal.now <= idle' /\ lease.renewed <= renewal.now
      BY <1>0, <1>2, <2>1, Rows DEF DiligentInv
    <2>5. ASSUME lease # NoLease, Up # {} PROVE (Recent \/ (restarted /\ SinceRestart))'
      <3>1. idle' = idle + 1
        BY <1>0, <1>2, <2>5, Zenon
      <3>2. CASE Recent
        BY <1>0, <3>1, <3>2, Rows DEF Recent
      <3>3. CASE restarted /\ SinceRestart
        <4>1. \A c \in Starts : time - clients[c].started <= idle => time' - clients[c].started <= idle'
          BY <1>0, <3>1, Rows
        <4> QED
          BY <1>0, <3>3, <4>1, Zenon DEF SinceRestart
      <3> QED
        BY <2>1, <2>5, <3>2, <3>3, Zenon DEF DiligentInv
    <2>6. lease # NoLease => DiedEarly'
      BY <1>0, <2>1, Zenon DEF DiligentInv, DiedEarly
    <2> QED
      BY <1>0, <2>1, <2>2, <2>3, <2>4, <2>5, <2>6, Zenon DEF DiligentInv, Up
  <1>3. clients' \in [Starts -> ClientType] /\ restarted' \in BOOLEAN
    BY <1>0, Zenon DEF LeaseInv, LeaseTypeOK
  <1> QED
    BY <1>0, <1>1, <1>2, <1>3, ClientsOnly, Zenon

-----------------------------------------------------------------------------
LEMMA LeaseStep ==
    ASSUME LeaseInv, [LeaseNext]_leaseVars
    PROVE  LeaseInv' /\ (LeaseNext => RenewedIsKept)
  <1>1. CASE LeaseNext
    <2>1. CASE \E f \in 0..MaxFence : JobClaimByID(f) \/ RenewBegins(f) \/ ReadsLeased(f)
      BY <2>1, ClaimByIDStep, RenewBeginsStep, ReadsLeasedStep, Zenon
    <2>2. CASE \/ JobLeaseRenew \/ FinishWrites \/ FinishTxEnds \/ CancelJob
               \/ ExpireBegins \/ ExpireLocks \/ ExpireReleases
      BY <2>2, RenewStep, FinishStep, CancelStep, ExpireStep, ReleaseStep, Zenon
    <2>3. CASE \E c \in Starts : ClientStarts(c) \/ Crash({c} \cap Up)
      <3>1. \A c \in Starts : {c} \cap Up \in SUBSET Up
        BY Zenon
      <3> QED
        BY <2>3, <3>1, StartStep, CrashStep, Zenon
    <2>4. CASE Crash(Up)
      BY <2>4, CrashStep, Zenon
    <2>5. CASE Tick
      BY <2>5, TickStep, Zenon
    <2> QED
      BY <1>1, <2>1, <2>2, <2>3, <2>4, <2>5, Zenon DEF LeaseNext
  <1>2. CASE UNCHANGED leaseVars
    <2>0. UNCHANGED <<job, lease, time, clients, restarted, renewal, finish, expiry, story, idle, claimed, ended, acked>>
      BY <1>2, Zenon DEF leaseVars
    <2>1. LeaseTypeOK' /\ RowsMatch' /\ HoldersSound' /\ EndedBefore' /\ EndsOnce'
      BY <2>0, Zenon DEF LeaseInv, LeaseTypeOK, RowsMatch, LeaseOwnsJob, RunsAt, HoldersSound, EndedBefore, EndsOnce
    <2>2. (Diligent /\ RenewsInTime => DiligentInv)'
      BY <2>0, Zenon DEF LeaseInv, Diligent, RenewsInTime, DiligentInv, Up, DiedEarly, Recent, SinceRestart
    <2>3. LeaseNext => RenewedIsKept
      BY <2>0, NotLapsed, Zenon
    <2> QED
      BY <2>1, <2>2, <2>3, Zenon DEF LeaseInv
  <1> QED
    BY <1>1, <1>2, Zenon

\* Whatever the clients, the TTLs and the bounds, a job claimed by ID runs
\* exactly while its lease is there, an attempt ends once and a Finish without
\* an error is what ended it, a lease is not expired before the time its
\* renewal gave, and a holder who renews in time keeps it through a restart of
\* the cluster (ClaimJobByID, Renew, Finish and the leader's expiry).
THEOREM LeasesKept == LeaseSpec => LeasesSound
  <1>1. LeaseInit => LeaseInv
    BY LeaseStart, Zenon
  <1>2. LeaseInv /\ [LeaseNext]_leaseVars => LeaseInv'
    BY LeaseStep, Zenon
  <1>3. LeaseInv' => (LeaseOwnsJob /\ EndsOnce /\ OutlastsRestart)'
    BY Zenon DEF LeaseInv, RowsMatch, OutlastsRestart, DiligentInv
  <1>4. LeaseInv /\ LeaseInv' /\ [LeaseNext]_leaseVars =>
            [LeaseOwnsJob' /\ EndsOnce' /\ OutlastsRestart' /\ RenewedIsKept]_leaseVars
    BY <1>3, LeaseStep, Zenon
  <1> QED
    BY <1>1, <1>2, <1>4, PTL DEF LeaseSpec, LeasesSound
=============================================================================
