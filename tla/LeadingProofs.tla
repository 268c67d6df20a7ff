---------------------------- MODULE LeadingProofs ----------------------------
(***************************************************************************)
(* Proofs about what runs one at a time in a cluster: that no two clients   *)
(* lead at the same time, for any number of clients, any TTL and any number *)
(* of faults (LeaderElection), and that concurrent, failing and dying       *)
(* migrations leave the schema whole (Migrate).                             *)
(***************************************************************************)
EXTENDS LeaderElection, Migrate, WellFoundedInduction, TLAPS

\* The time a prover may take on a leaf that names none, on a loaded machine too.
USE SMTT(30), ZenonT(30)

(***************************************************************************)
(* The inductive invariant.  That a term has its lease (LeadsUnderLease)    *)
(* rests on what an answer under way has (Answers); and that nobody deletes *)
(* the lease of a term, on the IDs being a client's own (OwnIDs) and on a   *)
(* client having no term while it gives a lease up (Quiet).                 *)
(***************************************************************************)
Answers ==
    \A p \in Procs :
        pc[p] = "replied" /\ reply[p].leader /\ ~reply[p].resign /\ timer[p] > 0 =>
            /\ lease.row /\ lease.id = id[p] /\ lease.electedAt = reply[p].electedAt
            /\ lease.left >= timer[p]
OwnIDs == \A p \in Procs : id[p][1] = p /\ leaseID[p][1] = p
Quiet ==
    \A p \in Procs : (pc[p] \in {"giveup", "resigning", "stopping"} \/ ~isLeader[p]) => term[p] = NoTerm
LeaseInv == LeaderTypeOK /\ LeadsUnderLease /\ Answers /\ OwnIDs /\ Quiet

LEMMA TypeInit == LeaderInit => LeaderTypeOK
<1> SUFFICES ASSUME LeaderInit PROVE LeaderTypeOK
  BY Zenon
<1>1. 0 \in 0..MaxGen /\ 0 \in 0..TTL /\ NoTerm \in NoTerm..TTL /\ 0 \in 0..MaxFaults /\ 0 \in Int
  BY LeaderAssumption DEF NoTerm
<1>2. \A p \in Procs : <<p, 0>> \in ID
  BY <1>1, Zenon DEF ID
<1> QED
  BY <1>1, <1>2, Zenon DEF LeaderInit, LeaderTypeOK, Places

(* What an attempt leaves of the row, and what it returns. *)
LEMMA AttemptTypes ==
    ASSUME LeaderTypeOK, NEW p \in Procs, LeaderAttempt(p)
    PROVE  lease' \in LeaderRow \cup {NoRow} /\ reply' \in [Procs -> Reply \cup {NoReply}]
<1>1. CASE LapsedOrFree \/ lease.id = id[p]
  <2>1. NewStamp \in Stamps
    BY <1>1, Zenon DEF LeaderAttempt, NewStamp, Unused
  <2>2. NewLease(id[p]) \in LeaderRow
    BY <2>1, LeaderAssumption DEF NewLease, LeaderRow, LeaderTypeOK
  <2>3. Renews(id[p]) => lease \in LeaderRow /\ [lease EXCEPT !.left = TTL] \in LeaderRow
    <3> SUFFICES ASSUME Renews(id[p]) PROVE lease \in LeaderRow /\ [lease EXCEPT !.left = TTL] \in LeaderRow
      BY Zenon
    <3>1. lease # NoRow
      BY DEF Renews, NoRow
    <3>2. lease \in LeaderRow
      BY <3>1, Zenon DEF LeaderTypeOK
    <3>3. TTL \in -1..TTL
      BY LeaderAssumption
    <3> QED
      BY <3>2, <3>3, Zenon DEF LeaderRow
  <2>4. lease' \in LeaderRow
    BY <1>1, <2>2, <2>3, Zenon DEF LeaderAttempt, Attempted
  <2>5. [leader |-> TRUE, resign |-> lease'.resign, electedAt |-> lease'.electedAt] \in Reply
    BY <2>4, Zenon DEF LeaderRow, Reply
  <2> QED
    BY <1>1, <2>4, <2>5, Zenon DEF LeaderAttempt, LeaderTypeOK
<1>2. CASE ~(LapsedOrFree \/ lease.id = id[p])
  BY <1>2, Zenon DEF LeaderAttempt, LeaderTypeOK
<1> QED
  BY <1>1, <1>2, Zenon

LEMMA RowTypes ==
    ASSUME LeaderTypeOK
    PROVE  /\ \A i : LeaderResign(i) => lease' \in LeaderRow \cup {NoRow}
           /\ [lease EXCEPT !.left = IF @ >= 0 THEN @ - 1 ELSE @] \in LeaderRow \cup {NoRow}
           /\ lease.row => [lease EXCEPT !.resign = TRUE] \in LeaderRow
<1>1. CASE lease = NoRow
  <2>1. ~lease.row /\ lease.left = -1
    BY <1>1, Zenon DEF NoRow
  <2>2. [lease EXCEPT !.left = -1] = NoRow
    BY <1>1 DEF NoRow
  <2> QED
    BY <1>1, <2>1, <2>2 DEF LeaderResign
<1>2. CASE lease \in LeaderRow
  <2>1. \A t \in -1..TTL : (IF t >= 0 THEN t - 1 ELSE t) \in -1..TTL
    BY LeaderAssumption
  <2>2. lease.left \in -1..TTL
    BY <1>2, Zenon DEF LeaderRow
  <2>3. [lease EXCEPT !.left = IF @ >= 0 THEN @ - 1 ELSE @] \in LeaderRow
    BY <1>2, <2>1, <2>2, Zenon DEF LeaderRow
  <2>4. [lease EXCEPT !.resign = TRUE] \in LeaderRow
    BY <1>2, Zenon DEF LeaderRow
  <2> QED
    BY <1>2, <2>3, <2>4, Zenon DEF LeaderResign
<1> QED
  BY <1>1, <1>2, Zenon DEF LeaderTypeOK

LEMMA LeftIsInt ==
    /\ LeaderTypeOK => lease.left \in Int
    /\ LeaderTypeOK' => lease'.left \in Int
<1>1. \A l \in LeaderRow : l.left \in -1..TTL
  BY Zenon DEF LeaderRow
<1>2. NoRow.left = -1 /\ \A t \in -1..TTL : t \in Int
  BY LeaderAssumption DEF NoRow
<1> QED
  BY <1>1, <1>2 DEF LeaderTypeOK

LEMMA TypeNext == LeaderTypeOK /\ [LeaderNext]_leaderVars => LeaderTypeOK'
<1> SUFFICES ASSUME LeaderTypeOK, [LeaderNext]_leaderVars PROVE LeaderTypeOK'
  BY Zenon
<1>b. NoTerm \in NoTerm..TTL /\ TTL \in 0..TTL /\ 0 \in 0..TTL /\ \A t \in 0..TTL : t \in NoTerm..TTL
  BY LeaderAssumption DEF NoTerm
<1>f. Fault => faults' \in 0..MaxFaults
  BY LeaderAssumption DEF Fault, LeaderTypeOK
<1>g. \A p \in Procs : gen[p] < MaxGen => gen[p] + 1 \in 0..MaxGen
  BY LeaderAssumption DEF LeaderTypeOK
<1>i. \A p \in Procs : <<p, gen[p]>> \in ID
  BY Zenon DEF LeaderTypeOK, ID
<1>a. \A p \in Procs : announced[p] \in Int /\ announced[p] - 1 \in Int /\ announced[p] + 1 \in Int
  BY DEF LeaderTypeOK
<1>u. ASSUME NEW i, GiveUpLease(i) PROVE lease' \in LeaderRow \cup {NoRow} /\ faults' \in 0..MaxFaults
  BY <1>u, <1>f, RowTypes, Zenon DEF GiveUpLease, LeaderTypeOK
<1>l. ASSUME NEW p \in Procs, Lose(p)
      PROVE  /\ term' \in [Procs -> NoTerm..TTL] /\ isLeader' \in [Procs -> BOOLEAN]
             /\ electedAt' \in [Procs -> Stamps \cup {0}] /\ announced' \in [Procs -> Int]
  BY <1>l, <1>b, <1>a, Zenon DEF Lose, EndTerm, LeaderTypeOK
<1>r. ASSUME NEW p \in Procs, Returned(p)
      PROVE  reply' \in [Procs -> Reply \cup {NoReply}] /\ timer' \in [Procs -> 0..TTL]
  BY <1>r, <1>b, Zenon DEF Returned, LeaderTypeOK
<1>1. CASE LeaderRequestResign
  BY <1>1, <1>f, RowTypes, Zenon DEF LeaderRequestResign, LeaderTypeOK, local
<1>2. CASE LeaderTick
  <2>1. \A p \in Procs : Less(term[p]) \in NoTerm..TTL /\ Less(timer[p]) \in 0..TTL
    BY LeaderAssumption DEF Less, LeaderTypeOK, NoTerm
  <2>2. lease' \in LeaderRow \cup {NoRow}
    BY <1>2, RowTypes, Zenon DEF LeaderTick
  <2>3. term' \in [Procs -> NoTerm..TTL] /\ timer' \in [Procs -> 0..TTL]
    BY <1>2, <2>1, Zenon DEF LeaderTick
  <2> QED
    BY <1>2, <2>2, <2>3, Zenon DEF LeaderTick, LeaderTypeOK
<1>3. ASSUME NEW p \in Procs, Top(p) PROVE LeaderTypeOK'
  BY <1>3, <1>l, <1>i, Zenon DEF Top, KeepTerm, Goes, Places, LeaderTypeOK
<1>4. ASSUME NEW p \in Procs, GiveUpAfterFence(p) PROVE LeaderTypeOK'
  BY <1>4, <1>u, Zenon DEF GiveUpAfterFence, Goes, Places, LeaderTypeOK, local
<1>5. ASSUME NEW p \in Procs, Send(p) PROVE LeaderTypeOK'
  BY <1>5, <1>b, Zenon DEF Send, Goes, Places, LeaderTypeOK
<1>6. ASSUME NEW p \in Procs, Apply(p) PROVE LeaderTypeOK'
  BY <1>6, AttemptTypes, Zenon DEF Apply, Goes, Places, LeaderTypeOK
<1>7. ASSUME NEW p \in Procs, ReceiveError(p) PROVE LeaderTypeOK'
  BY <1>7, <1>l, <1>r, <1>f, Zenon DEF ReceiveError, KeepTerm, Goes, Places, LeaderTypeOK
<1>8. ASSUME NEW p \in Procs, ReceiveResign(p) PROVE LeaderTypeOK'
  BY <1>8, <1>l, <1>r, <1>b, ZenonT(30) DEF ReceiveResign, EndTerm, Goes, Places, LeaderTypeOK
<1>9. ASSUME NEW p \in Procs, GiveUpOnRequest(p) PROVE LeaderTypeOK'
  BY <1>9, <1>u, <1>b, <1>a, Zenon DEF GiveUpOnRequest, Goes, Places, LeaderTypeOK
<1>10. ASSUME NEW p \in Procs, ReceiveLeader(p) PROVE LeaderTypeOK'
  <2>1. reply[p].electedAt \in Stamps
    <3>1. reply[p] # NoReply
      BY <1>10 DEF ReceiveLeader, NoReply
    <3>2. reply[p] \in Reply
      BY <3>1, Zenon DEF LeaderTypeOK
    <3> QED
      BY <3>2, Zenon DEF Reply
  <2> QED
    BY <1>10, <2>1, <1>r, <1>b, <1>a, Zenon DEF ReceiveLeader, LedUntil, Goes, Places, LeaderTypeOK
<1>11. ASSUME NEW p \in Procs, ReceiveNotLeader(p) PROVE LeaderTypeOK'
  BY <1>11, <1>l, <1>r, Zenon DEF ReceiveNotLeader, KeepTerm, Goes, Places, LeaderTypeOK
<1>12. ASSUME NEW p \in Procs, Wake(p) PROVE LeaderTypeOK'
  BY <1>12, Zenon DEF Wake, Goes, Places, LeaderTypeOK, local
<1>13. ASSUME NEW p \in Procs, GiveUpOnStop(p) PROVE LeaderTypeOK'
  BY <1>13, <1>u, Zenon DEF GiveUpOnStop, Goes, Places, LeaderTypeOK, local
<1>14. ASSUME NEW p \in Procs, Start(p) PROVE LeaderTypeOK'
  BY <1>14, <1>g, Zenon DEF Start, Goes, Places, LeaderTypeOK, local
<1>15. ASSUME NEW p \in Procs, Stop(p) PROVE LeaderTypeOK'
  BY <1>15, <1>b, <1>f DEF Stop, EndTerm, Forgotten, Goes, Places, LeaderTypeOK
<1>16. ASSUME NEW p \in Procs, Crash(p) PROVE LeaderTypeOK'
  BY <1>16, <1>b, <1>f DEF Crash, Forgotten, Goes, Places, LeaderTypeOK
<1>17. ASSUME NEW p \in Procs, LeaderFence(p) PROVE LeaderTypeOK'
  BY <1>17, <1>g, <1>f, Zenon DEF LeaderFence, LeaderTypeOK, local
<1>18. ASSUME NEW p \in Procs, StartDuty(p) \/ FinishDuty(p) PROVE LeaderTypeOK'
  BY <1>18, Zenon DEF StartDuty, FinishDuty, LeaderTypeOK
<1>19. CASE UNCHANGED leaderVars
  BY <1>19, Zenon DEF leaderVars, local, LeaderTypeOK
<1> QED
  BY Zenon, <1>1, <1>2, <1>3, <1>4, <1>5, <1>6, <1>7, <1>8, <1>9, <1>10, <1>11, <1>12, <1>13, <1>14, <1>15,
     <1>16, <1>17, <1>18, <1>19 DEF LeaderNext, LoopStep

(* The theorem: every variable of the election stays in its type. *)
THEOREM TypeCorrect == LeaderSpec => []LeaderTypeOK
<1> QED
  BY TypeInit, TypeNext, PTL DEF LeaderSpec

(***************************************************************************)
(* What an attempt of p does to the row: it leaves alone a lease that is    *)
(* not p's and has time left, and a lease it reports to hold is p's, and    *)
(* unless asked to resign for a whole TTL.                                  *)
(***************************************************************************)
LEMMA AttemptKeeps ==
    ASSUME LeaderTypeOK, NEW p \in Procs, LeaderAttempt(p)
    PROVE  /\ lease.row /\ lease.left > 0 /\ lease.id # id[p] => lease' = lease
           /\ lease.row /\ lease.left > 0 /\ lease.id = id[p] =>
                  /\ lease'.row /\ lease'.id = lease.id /\ lease'.electedAt = lease.electedAt
                  /\ lease'.left >= lease.left
           /\ reply'[p].leader /\ ~reply'[p].resign =>
                  /\ lease'.row /\ lease'.id = id[p] /\ lease'.electedAt = reply'[p].electedAt
                  /\ lease'.left = TTL
           /\ \A q \in Procs \ {p} : reply'[q] = reply[q]
<1>1. lease.row /\ lease.left > 0 => lease \in LeaderRow /\ lease.left \in Int /\ lease.left <= TTL /\ ~LapsedOrFree
  <2> SUFFICES ASSUME lease.row, lease.left > 0 PROVE lease \in LeaderRow /\ lease.left \in Int /\ lease.left <= TTL /\ ~LapsedOrFree
    BY Zenon
  <2>1. lease \in LeaderRow
    <3>1. lease # NoRow
      BY DEF NoRow
    <3> QED
      BY <3>1, Zenon DEF LeaderTypeOK
  <2>2. lease.left \in -1..TTL
    BY <2>1, Zenon DEF LeaderRow
  <2> QED
    BY <2>1, <2>2, LeaderAssumption DEF LapsedOrFree
<1>2. CASE ~(LapsedOrFree \/ lease.id = id[p])
  <2>1. ~reply'[p].leader
    BY <1>2 DEF LeaderAttempt, LeaderTypeOK, NoReply
  <2> QED
    BY <1>2, <2>1, Zenon DEF LeaderAttempt, LeaderTypeOK
<1>3. CASE LapsedOrFree \/ lease.id = id[p]
  <2>1. reply'[p] = [leader |-> TRUE, resign |-> lease'.resign, electedAt |-> lease'.electedAt]
    BY <1>3, Zenon DEF LeaderAttempt, LeaderTypeOK
  <2>2. \A q \in Procs \ {p} : reply'[q] = reply[q]
    BY <1>3, Zenon DEF LeaderAttempt, LeaderTypeOK
  <2>3. lease' = Attempted(id[p])
    BY <1>3, Zenon DEF LeaderAttempt
  <2>4. CASE ~Renews(id[p])
    <3>1. lease'.row /\ lease'.id = id[p] /\ lease'.left = TTL
      BY <2>3, <2>4, Zenon DEF Attempted, NewLease
    <3>2. ~(lease.row /\ lease.left > 0)
      BY <1>1, <1>3, <2>4 DEF Renews
    <3> QED
      BY <2>1, <2>2, <3>1, <3>2
  <2>5. CASE Renews(id[p])
    <3>1. lease \in LeaderRow /\ lease.row /\ lease.id = id[p]
      <4>1. lease # NoRow
        BY <2>5 DEF Renews, NoRow
      <4> QED
        BY <2>5, <4>1, Zenon DEF Renews, LeaderTypeOK
    <3>2. CASE lease.resign
      BY <2>1, <2>2, <2>3, <2>5, <3>1, <3>2 DEF Attempted, LeaderRow
    <3>3. CASE ~lease.resign
      <4>1. lease' = [lease EXCEPT !.left = TTL]
        BY <2>3, <2>5, <3>3, Zenon DEF Attempted
      <4>2. lease'.row /\ lease'.id = lease.id /\ lease'.electedAt = lease.electedAt /\ lease'.left = TTL
        BY <3>1, <4>1, Zenon DEF LeaderRow
      <4> QED
        BY <1>1, <2>1, <2>2, <3>1, <4>2, LeaderAssumption DEF LeaderRow
    <3> QED
      BY <3>2, <3>3, Zenon
  <2> QED
    BY <2>4, <2>5, Zenon
<1> QED
  BY <1>2, <1>3, Zenon

(* A step of p's loop that leaves the other clients alone. *)
OthersKept(p) ==
    \A q \in Procs \ {p} :
        /\ pc'[q] = pc[q] /\ id'[q] = id[q] /\ leaseID'[q] = leaseID[q] /\ electedAt'[q] = electedAt[q]
        /\ isLeader'[q] = isLeader[q] /\ term'[q] = term[q] /\ timer'[q] = timer[q] /\ reply'[q] = reply[q]

(* p's term ends, or goes on as it was outside the places that give a lease up. *)
TermEndsOrStays(p) ==
    \/ term'[p] = NoTerm
    \/ /\ term'[p] = term[p] /\ electedAt'[p] = electedAt[p] /\ isLeader'[p] = isLeader[p]
       /\ pc'[p] \notin {"giveup", "resigning", "stopping"}

(* A step of p's loop that does not touch the lease row. *)
LEMMA LoopKeeps ==
    ASSUME LeaseInv, LeaderTypeOK', NEW p \in Procs, UNCHANGED <<lease, leaseID>>, OthersKept(p), TermEndsOrStays(p),
           pc'[p] # "replied", id'[p][1] = p
    PROVE  LeaseInv'
<1>1. LeadsUnderLease'
  BY DEF LeaseInv, LeadsUnderLease, Leads, OthersKept, TermEndsOrStays, NoTerm
<1>2. Answers'
  BY DEF LeaseInv, Answers, OthersKept
<1>3. OwnIDs'
  BY DEF LeaseInv, OwnIDs, OthersKept
<1>4. Quiet'
  BY Zenon DEF LeaseInv, Quiet, OthersKept, TermEndsOrStays
<1> QED
  BY <1>1, <1>2, <1>3, <1>4, Zenon DEF LeaseInv

(* A lease that p gives up, without a term, is no other client's. *)
LEMMA GiveUpKeeps ==
    ASSUME LeaseInv, LeaderTypeOK', NEW p \in Procs, NEW i, i = id[p] \/ i = leaseID[p], GiveUpLease(i),
           UNCHANGED <<id, leaseID, term>>, OthersKept(p), term[p] = NoTerm, pc'[p] # "replied"
    PROVE  LeaseInv'
<1>1. \A q \in Procs \ {p} : i # id[q] /\ i # leaseID[q]
  BY DEF LeaseInv, OwnIDs
<1>2. \A q \in Procs \ {p} : lease.id = id[q] \/ lease.id = leaseID[q] => lease' = lease
  BY <1>1, Zenon DEF GiveUpLease, LeaderResign
<1>3. LeadsUnderLease'
  BY <1>2 DEF LeaseInv, LeadsUnderLease, Leads, OthersKept, NoTerm
<1>4. Answers'
  BY <1>2 DEF LeaseInv, Answers, OthersKept
<1>5. OwnIDs' /\ Quiet'
  BY Zenon DEF LeaseInv, OwnIDs, Quiet, OthersKept
<1> QED
  BY <1>3, <1>4, <1>5, Zenon DEF LeaseInv

LEMMA LeaseInvNext == LeaseInv /\ [LeaderNext]_leaderVars => LeaseInv'
<1> SUFFICES ASSUME LeaseInv, [LeaderNext]_leaderVars PROVE LeaseInv'
  BY Zenon
<1>t. LeaderTypeOK /\ LeaderTypeOK'
  BY TypeNext, Zenon DEF LeaseInv
<1>n. \A p \in Procs : term[p] \in Int /\ timer[p] \in Int /\ timer[p] <= TTL
  BY <1>t, LeaderAssumption DEF LeaderTypeOK, NoTerm
<1>i. \A p \in Procs : id[p][1] = p
  BY Zenon DEF LeaseInv, OwnIDs
<1>q. \A p \in Procs : ~isLeader[p] => term[p] = NoTerm
  BY Zenon DEF LeaseInv, Quiet
<1>1. CASE LeaderRequestResign
  <2>1. lease'.row = lease.row /\ lease'.id = lease.id /\ lease'.electedAt = lease.electedAt /\ lease'.left = lease.left
    BY <1>1, <1>t, Zenon DEF LeaderRequestResign, LeaderTypeOK, LeaderRow, NoRow
  <2> QED
    BY <1>1, <1>t, <2>1, Zenon DEF LeaderRequestResign, local, LeaseInv, LeadsUnderLease, Leads, Answers, OwnIDs, Quiet
<1>2. CASE LeaderTick
  <2>1. lease'.row = lease.row /\ lease'.id = lease.id /\ lease'.electedAt = lease.electedAt
    BY <1>2, <1>t, Zenon DEF LeaderTick, LeaderTypeOK, LeaderRow, NoRow
  <2>l. lease.left \in Int
    BY <1>t, LeftIsInt, Zenon
  <2>2. lease'.left = IF lease.left >= 0 THEN lease.left - 1 ELSE lease.left
    BY <1>2, <1>t, Zenon DEF LeaderTick, LeaderTypeOK, LeaderRow, NoRow
  <2>3. \A p \in Procs : /\ term'[p] > 0 => term[p] > 0 /\ term'[p] = term[p] - 1
                         /\ timer'[p] > 0 => timer[p] > 0 /\ timer'[p] = timer[p] - 1
                         /\ term[p] = NoTerm => term'[p] = NoTerm
    BY <1>2, <1>n DEF LeaderTick, Less, NoTerm
  <2>4. LeadsUnderLease'
    BY <1>2, <1>n, <2>1, <2>l, <2>2, <2>3 DEF LeaderTick, LeaseInv, LeadsUnderLease, Leads
  <2>5. Answers'
    BY <1>2, <1>n, <2>1, <2>l, <2>2, <2>3 DEF LeaderTick, LeaseInv, Answers
  <2>6. OwnIDs' /\ Quiet'
    BY <1>2, <2>3, Zenon DEF LeaderTick, LeaseInv, OwnIDs, Quiet
  <2> QED
    BY <1>t, <2>4, <2>5, <2>6, Zenon DEF LeaseInv
<1>3. ASSUME NEW p \in Procs, Top(p) PROVE LeaseInv'
  <2>1. OthersKept(p) /\ UNCHANGED <<lease, leaseID>> /\ pc'[p] # "replied" /\ id'[p] = <<p, gen[p]>>
    BY <1>3, <1>t DEF Top, OthersKept, Goes, Lose, EndTerm, KeepTerm, LeaderTypeOK
  <2>2. TermEndsOrStays(p)
    BY <1>3, <1>t, <1>q DEF Top, TermEndsOrStays, Goes, Lose, EndTerm, KeepTerm, LeaderTypeOK
  <2> QED
    BY <1>t, <2>1, <2>2, LoopKeeps
<1>4. ASSUME NEW p \in Procs, GiveUpAfterFence(p) PROVE LeaseInv'
  <2>1. OthersKept(p) /\ UNCHANGED <<id, leaseID, term>> /\ pc'[p] # "replied" /\ term[p] = NoTerm
    BY <1>4, <1>t, Zenon DEF GiveUpAfterFence, OthersKept, Goes, local, LeaderTypeOK, LeaseInv, Quiet
  <2> QED
    BY <1>4, <1>t, <2>1, GiveUpKeeps, Zenon DEF GiveUpAfterFence
<1>5. ASSUME NEW p \in Procs, Send(p) PROVE LeaseInv'
  <2>1. /\ OthersKept(p) /\ UNCHANGED <<lease, leaseID>> /\ pc'[p] # "replied" /\ id'[p] = id[p]
        /\ TermEndsOrStays(p)
    BY <1>5, <1>t, Zenon DEF Send, OthersKept, TermEndsOrStays, Goes, LeaderTypeOK
  <2> QED
    BY <1>t, <1>i, <2>1, LoopKeeps, Zenon
<1>6. ASSUME NEW p \in Procs, Apply(p) PROVE LeaseInv'
  <2>1. LeaderAttempt(p) /\ \A q \in Procs \ {p} : pc'[q] = pc[q]
    BY <1>6, <1>t, Zenon DEF Apply, Goes, LeaderTypeOK
  <2>2. pc'[p] = "replied" /\ UNCHANGED <<id, leaseID, electedAt, isLeader, term, timer>>
    BY <1>6, <1>t, Zenon DEF Apply, Goes, LeaderTypeOK
  <2>a. /\ lease.row /\ lease.left > 0 /\ lease.id # id[p] => lease' = lease
        /\ lease.row /\ lease.left > 0 /\ lease.id = id[p] =>
               /\ lease'.row /\ lease'.id = lease.id /\ lease'.electedAt = lease.electedAt
               /\ lease'.left >= lease.left
        /\ reply'[p].leader /\ ~reply'[p].resign =>
               /\ lease'.row /\ lease'.id = id[p] /\ lease'.electedAt = reply'[p].electedAt
               /\ lease'.left = TTL
        /\ \A q \in Procs \ {p} : reply'[q] = reply[q]
    BY <1>t, <2>1, AttemptKeeps, Zenon
  <2>l. lease.left \in Int /\ lease'.left \in Int
    BY <1>t, LeftIsInt, Zenon
  <2>3. LeadsUnderLease'
    BY <1>n, <2>2, <2>a, <2>l DEF LeaseInv, LeadsUnderLease, Leads
  <2>4. Answers'
    BY <1>n, <2>1, <2>2, <2>a, <2>l, LeaderAssumption DEF LeaseInv, Answers, OwnIDs
  <2>5. OwnIDs' /\ Quiet'
    BY <2>1, <2>2, Zenon DEF LeaseInv, OwnIDs, Quiet
  <2> QED
    BY <1>t, <2>3, <2>4, <2>5, Zenon DEF LeaseInv
<1>7. ASSUME NEW p \in Procs, ReceiveError(p) PROVE LeaseInv'
  <2>1. /\ OthersKept(p) /\ UNCHANGED <<lease, leaseID>> /\ pc'[p] # "replied" /\ id'[p] = id[p]
        /\ TermEndsOrStays(p)
    BY <1>7, <1>t DEF ReceiveError, Returned, OthersKept, TermEndsOrStays, Goes, Lose, EndTerm, KeepTerm, LeaderTypeOK
  <2> QED
    BY <1>t, <1>i, <2>1, LoopKeeps, Zenon
<1>8. ASSUME NEW p \in Procs, ReceiveResign(p) PROVE LeaseInv'
  <2>1. /\ OthersKept(p) /\ UNCHANGED <<lease, leaseID>> /\ pc'[p] # "replied" /\ id'[p] = id[p]
        /\ TermEndsOrStays(p)
    BY <1>8, <1>t DEF ReceiveResign, Returned, OthersKept, TermEndsOrStays, Goes, Lose, EndTerm, LeaderTypeOK
  <2> QED
    BY <1>t, <1>i, <2>1, LoopKeeps, Zenon
<1>9. ASSUME NEW p \in Procs, GiveUpOnRequest(p) PROVE LeaseInv'
  <2>1. OthersKept(p) /\ UNCHANGED <<id, leaseID, term>> /\ pc'[p] # "replied" /\ term[p] = NoTerm
    BY <1>9, <1>t DEF GiveUpOnRequest, OthersKept, Goes, LeaderTypeOK, LeaseInv, Quiet
  <2> QED
    BY <1>9, <1>t, <2>1, GiveUpKeeps, Zenon DEF GiveUpOnRequest
<1>10. ASSUME NEW p \in Procs, ReceiveLeader(p) PROVE LeaseInv'
  <2>1. \A q \in Procs \ {p} : /\ pc'[q] = pc[q] /\ leaseID'[q] = leaseID[q] /\ electedAt'[q] = electedAt[q]
                               /\ isLeader'[q] = isLeader[q] /\ term'[q] = term[q] /\ timer'[q] = timer[q]
                               /\ reply'[q] = reply[q]
    BY <1>10, <1>t DEF ReceiveLeader, Returned, Goes, LeaderTypeOK
  <2>2. /\ UNCHANGED <<lease, id>> /\ pc'[p] = "wait" /\ term'[p] = timer[p] /\ leaseID'[p] = id[p]
        /\ electedAt'[p] = reply[p].electedAt /\ isLeader'[p]
    BY <1>10, <1>t DEF ReceiveLeader, Returned, LedUntil, Goes, LeaderTypeOK
  <2>3. timer[p] > 0 => /\ lease.row /\ lease.id = id[p] /\ lease.electedAt = reply[p].electedAt
                        /\ lease.left >= timer[p]
    BY <1>10, Zenon DEF ReceiveLeader, LeaseInv, Answers
  <2>4. LeadsUnderLease'
    BY <2>1, <2>2, <2>3 DEF LeaseInv, LeadsUnderLease, Leads
  <2>5. Answers'
    BY <2>1, <2>2 DEF LeaseInv, Answers
  <2>6. OwnIDs' /\ Quiet'
    BY <2>1, <2>2 DEF LeaseInv, OwnIDs, Quiet
  <2> QED
    BY <1>t, <2>4, <2>5, <2>6, Zenon DEF LeaseInv
<1>11. ASSUME NEW p \in Procs, ReceiveNotLeader(p) PROVE LeaseInv'
  <2>1. /\ OthersKept(p) /\ UNCHANGED <<lease, leaseID>> /\ pc'[p] # "replied" /\ id'[p] = id[p]
        /\ TermEndsOrStays(p)
    BY <1>11, <1>t DEF ReceiveNotLeader, Returned, OthersKept, TermEndsOrStays, Goes, Lose, EndTerm, KeepTerm, LeaderTypeOK
  <2> QED
    BY <1>t, <1>i, <2>1, LoopKeeps, Zenon
<1>12. ASSUME NEW p \in Procs, Wake(p) \/ Start(p) PROVE LeaseInv'
  <2>1. /\ OthersKept(p) /\ UNCHANGED <<lease, leaseID>> /\ pc'[p] # "replied" /\ id'[p] = id[p]
        /\ TermEndsOrStays(p)
    BY <1>12, <1>t, Zenon DEF Wake, Start, OthersKept, TermEndsOrStays, Goes, local, LeaderTypeOK
  <2> QED
    BY <1>t, <1>i, <2>1, LoopKeeps, Zenon
<1>13. ASSUME NEW p \in Procs, GiveUpOnStop(p) PROVE LeaseInv'
  <2>1. OthersKept(p) /\ UNCHANGED <<id, leaseID, term>> /\ pc'[p] # "replied" /\ term[p] = NoTerm
    BY <1>13, <1>t, Zenon DEF GiveUpOnStop, OthersKept, Goes, local, LeaderTypeOK, LeaseInv, Quiet
  <2> QED
    BY <1>13, <1>t, <2>1, GiveUpKeeps, Zenon DEF GiveUpOnStop
<1>14. ASSUME NEW p \in Procs, Stop(p) \/ Crash(p) PROVE LeaseInv'
  <2>1. /\ OthersKept(p) /\ UNCHANGED <<lease, leaseID>> /\ pc'[p] # "replied" /\ id'[p] = id[p]
        /\ TermEndsOrStays(p)
    BY <1>14, <1>t, SMTT(30) DEF Stop, Crash, Forgotten, OthersKept, TermEndsOrStays, Goes, EndTerm, LeaderTypeOK
  <2> QED
    BY <1>t, <1>i, <2>1, LoopKeeps, Zenon
<1>15. CASE UNCHANGED <<lease, pc, id, leaseID, electedAt, isLeader, term, timer, reply>>
  BY <1>15, <1>t, Zenon DEF LeaseInv, LeadsUnderLease, Leads, Answers, OwnIDs, Quiet
<1>16. ASSUME NEW p \in Procs, LeaderFence(p) \/ StartDuty(p) \/ FinishDuty(p) PROVE LeaseInv'
  BY <1>15, <1>16, Zenon DEF LeaderFence, StartDuty, FinishDuty, local
<1>17. CASE UNCHANGED leaderVars
  BY <1>15, <1>17, Zenon DEF leaderVars, local
<1> QED
  BY Zenon, <1>1, <1>2, <1>3, <1>4, <1>5, <1>6, <1>7, <1>8, <1>9, <1>10, <1>11, <1>12, <1>13, <1>14, <1>16,
     <1>17 DEF LeaderNext, LoopStep

LEMMA LeaseInvInit == LeaderInit => LeaseInv
<1> SUFFICES ASSUME LeaderInit PROVE LeaseInv
  BY Zenon
<1> QED
  BY TypeInit DEF LeaderInit, LeaseInv, LeadsUnderLease, Leads, Answers, OwnIDs, Quiet, NoTerm

(***************************************************************************)
(* A term that has not lapsed by the local clock is the one the lease row   *)
(* is of (leaseFence).                                                      *)
(***************************************************************************)
THEOREM TermHoldsLease == LeaderSpec => []LeadsUnderLease
<1>1. LeaseInv => LeadsUnderLease
  BY ZenonT(30) DEF LeaseInv
<1> QED
  BY <1>1, LeaseInvInit, LeaseInvNext, PTL DEF LeaderSpec

(* No two clients have active terms at the same time. *)
THEOREM OneLeader == LeaderSpec => []OneActiveTerm
<1>1. LeaseInv => OneActiveTerm
  BY DEF LeaseInv, LeadsUnderLease, OwnIDs, OneActiveTerm
<1> QED
  BY <1>1, LeaseInvInit, LeaseInvNext, PTL DEF LeaderSpec
-----------------------------------------------------------------------------
(***************************************************************************)
(* What a step does to the events and the duties of one client.  A term     *)
(* that is lost was led, and a step that ends one finds no duty running.    *)
(***************************************************************************)
PairKept(p) ==
    \/ announced'[p] = announced[p] /\ isLeader'[p] = isLeader[p]
    \/ announced'[p] = announced[p] - 1 /\ isLeader[p] /\ ~isLeader'[p]
    \/ announced'[p] = announced[p] + 1 /\ ~isLeader[p] /\ isLeader'[p]
    \/ announced'[p] = 0 /\ ~isLeader'[p]

(* A duty runs only in a term, which may have lapsed by now. *)
DutyInTerm == \A p \in Procs : duty[p] => term[p] # NoTerm

DutyKept(p) ==
    \/ duty'[p] = duty[p] /\ (term[p] # NoTerm => term'[p] # NoTerm)
    \/ ~duty'[p]
    \/ term'[p] # NoTerm

LEMMA LoseKeeps ==
    ASSUME LeaseInv, NEW p \in Procs, Lose(p), isLeader[p]
    PROVE  /\ announced'[p] = announced[p] - 1 /\ ~isLeader'[p] /\ ~duty[p]
           /\ \A q \in Procs \ {p} : announced'[q] = announced[q] /\ isLeader'[q] = isLeader[q] /\ term'[q] = term[q]
  BY Zenon DEF Lose, EndTerm, LeaseInv, LeaderTypeOK

(* Every step keeps the pairs, and the duties in their terms. *)
LEMMA PairsNext ==
    ASSUME LeaseInv, [LeaderNext]_leaderVars, NEW q \in Procs
    PROVE  PairKept(q) /\ DutyKept(q)
<1>t. LeaderTypeOK /\ (\A p \in Procs : term[p] \in Int /\ timer[p] \in Int /\ timer[p] >= 0)
  BY DEF LeaseInv, LeaderTypeOK, NoTerm
<1>0. CASE UNCHANGED <<announced, isLeader, duty, term>>
  BY <1>0, Zenon DEF PairKept, DutyKept
<1>k. ASSUME NEW p \in Procs, UNCHANGED duty, (Lose(p) /\ isLeader[p]) \/ KeepTerm
      PROVE  PairKept(q) /\ DutyKept(q)
  <2>1. CASE Lose(p) /\ isLeader[p]
    BY <1>k, <2>1, LoseKeeps, ZenonT(30) DEF PairKept, DutyKept
  <2>2. CASE KeepTerm
    BY <1>0, <1>k, <2>2, ZenonT(30) DEF KeepTerm
  <2> QED BY <1>k, <2>1, <2>2, Zenon
<1>l. \A p \in Procs : Lapsed(p) => isLeader[p]
  BY DEF Lapsed, LeaseInv, Quiet, NoTerm
<1>1. CASE LeaderTick
  <2>1. term'[q] = Less(term[q]) /\ UNCHANGED <<announced, isLeader, duty>>
    BY <1>1, Zenon DEF LeaderTick
  <2>2. term[q] # NoTerm => Less(term[q]) # NoTerm
    BY <1>t DEF Less, LeaderTypeOK, NoTerm
  <2> QED BY <2>1, <2>2, Zenon DEF PairKept, DutyKept
<1>2. ASSUME NEW p \in Procs, Top(p) \/ ReceiveError(p) \/ ReceiveNotLeader(p) PROVE PairKept(q) /\ DutyKept(q)
  BY <1>2, <1>k, <1>l, Zenon DEF Top, ReceiveError, ReceiveNotLeader
<1>3. ASSUME NEW p \in Procs, ReceiveResign(p) PROVE PairKept(q) /\ DutyKept(q)
  <2>1. CASE isLeader[p] /\ ~SameTerm(p)
    BY <1>3, <1>k, <2>1, Zenon DEF ReceiveResign
  <2>2. CASE ~(isLeader[p] /\ ~SameTerm(p))
    BY <1>3, <1>t, <2>2, Zenon DEF ReceiveResign, EndTerm, PairKept, DutyKept, LeaderTypeOK
  <2> QED BY <2>1, <2>2, Zenon
<1>4. ASSUME NEW p \in Procs, GiveUpOnRequest(p) PROVE PairKept(q) /\ DutyKept(q)
  BY <1>4, <1>t, Zenon DEF GiveUpOnRequest, PairKept, DutyKept, LeaderTypeOK
<1>5. ASSUME NEW p \in Procs, ReceiveLeader(p) PROVE PairKept(q) /\ DutyKept(q)
  <2>1. term'[p] # NoTerm
    BY <1>5, <1>t DEF ReceiveLeader, LedUntil, LeaderTypeOK, NoTerm
  <2>2. q # p => UNCHANGED <<announced[q], isLeader[q], duty[q], term[q]>>
    BY <1>5, <1>t, Zenon DEF ReceiveLeader, LeaderTypeOK
  <2>3. PairKept(p)
    BY <1>5, <1>t, ZenonT(30) DEF ReceiveLeader, PairKept, LeaderTypeOK
  <2> QED BY <2>1, <2>2, <2>3, Zenon DEF PairKept, DutyKept
<1>6. ASSUME NEW p \in Procs, Stop(p) \/ Crash(p) PROVE PairKept(q) /\ DutyKept(q)
  BY <1>6, <1>t DEF Stop, Crash, EndTerm, Forgotten, PairKept, DutyKept, LeaderTypeOK
<1>7. ASSUME NEW p \in Procs, StartDuty(p) \/ FinishDuty(p) PROVE PairKept(q) /\ DutyKept(q)
  BY <1>7, <1>t DEF StartDuty, FinishDuty, PairKept, DutyKept, LeaderTypeOK, NoTerm
<1> QED BY <1>0, <1>1, <1>2, <1>3, <1>4, <1>5, <1>6, <1>7, ZenonT(30)
        DEF LeaderNext, LoopStep, leaderVars, local, LeaderRequestResign, GiveUpAfterFence, Send, Apply, Wake,
            GiveUpOnStop, Start, LeaderFence

LEMMA PairsAlways == LeaderSpec => [](LeaseInv /\ EventsPair /\ DutyInTerm)
<1>1. LeaderInit => LeaseInv /\ EventsPair /\ DutyInTerm
  BY LeaseInvInit, Zenon DEF LeaderInit, EventsPair, DutyInTerm
<1>2. LeaseInv /\ EventsPair /\ DutyInTerm /\ [LeaderNext]_leaderVars => (LeaseInv /\ EventsPair /\ DutyInTerm)'
  <2> SUFFICES ASSUME LeaseInv, EventsPair, DutyInTerm, [LeaderNext]_leaderVars
               PROVE  LeaseInv' /\ EventsPair' /\ DutyInTerm'
    BY Zenon
  <2>1. EventsPair'
    BY PairsNext DEF EventsPair, PairKept
  <2>2. DutyInTerm'
    BY PairsNext, Zenon DEF DutyInTerm, DutyKept
  <2> QED BY <2>1, <2>2, LeaseInvNext, Zenon
<1> QED BY <1>1, <1>2, PTL DEF LeaderSpec

(* A term lasts no longer than its lease, and each election a client        *)
(* announces is followed by one loss or resignation.                        *)
THEOREM TermsKept == LeaderSpec => []TermsSound
<1>1. LeaseInv /\ EventsPair => TermsSound
  BY Zenon DEF LeaseInv, TermsSound
<1> QED BY <1>1, PairsAlways, PTL

(* A client that gives its lease up has no duty running any more. *)
THEOREM HandoverQuiet == LeaderSpec => QuietHandover
<1> DEFINE Handover == lease.row /\ ~lease'.row => ~duty[lease.id[1]]
<1>1. LeaseInv /\ DutyInTerm /\ [LeaderNext]_leaderVars => [Handover]_leaderVars
  <2> SUFFICES ASSUME LeaseInv, DutyInTerm, [LeaderNext]_leaderVars, lease.row, ~lease'.row PROVE ~duty[lease.id[1]]
    BY Zenon
  <2>t. LeaderTypeOK
    BY Zenon DEF LeaseInv
  <2>g. ASSUME NEW p \in Procs, NEW i, i = id[p] \/ i = leaseID[p], GiveUpLease(i), term[p] = NoTerm
        PROVE  ~duty[lease.id[1]]
    <3>1. lease.id = i
      BY <2>g, Zenon DEF GiveUpLease, LeaderResign
    <3>2. lease.id[1] = p
      BY <2>g, <3>1, Zenon DEF LeaseInv, OwnIDs
    <3> QED BY <2>g, <3>2, Zenon DEF DutyInTerm
  <2>1. ASSUME NEW p \in Procs, GiveUpAfterFence(p) \/ GiveUpOnRequest(p) \/ GiveUpOnStop(p) PROVE ~duty[lease.id[1]]
    <3>1. term[p] = NoTerm
      BY <2>1, Zenon DEF GiveUpAfterFence, GiveUpOnRequest, GiveUpOnStop, LeaseInv, Quiet
    <3> QED BY <2>1, <2>g, <3>1, Zenon DEF GiveUpAfterFence, GiveUpOnRequest, GiveUpOnStop
  <2>2. ASSUME NEW p \in Procs, Apply(p) PROVE FALSE
    <3>1. LeaderAttempt(p)
      BY <2>2, Zenon DEF Apply
    <3>2. lease' = lease \/ lease' = NewLease(id[p]) \/ lease' = [lease EXCEPT !.left = TTL]
      BY <3>1, Zenon DEF LeaderAttempt, Attempted
    <3>3. [lease EXCEPT !.left = TTL].row = lease.row /\ NewLease(id[p]).row
      BY <2>t, Zenon DEF LeaderTypeOK, LeaderRow, NoRow, NewLease
    <3> QED BY <3>2, <3>3, Zenon
  <2>3. CASE LeaderRequestResign \/ LeaderTick
    <3>1. lease'.row = lease.row
      BY <2>t, <2>3, Zenon DEF LeaderRequestResign, LeaderTick, LeaderTypeOK, LeaderRow, NoRow
    <3> QED BY <3>1, Zenon
  <2>4. lease' # lease
    BY Zenon
  <2> QED BY <2>1, <2>2, <2>3, <2>4, ZenonT(30)
          DEF LeaderNext, LoopStep, leaderVars, Top, Send, ReceiveResign, ReceiveLeader, ReceiveNotLeader, Wake,
              ReceiveError, Start, Stop, Crash, LeaderFence, StartDuty, FinishDuty
<1> QED BY <1>1, PairsAlways, PTL DEF LeaderSpec, QuietHandover

------------------------------------------------------------------------------
(* Only the process that holds the lock is inside a migration.  While no   *)
(* release has reverted under versions it does not know, what it sees is   *)
(* the first k versions, or these and half of one step, and what is        *)
(* committed is the first versions, whole (MigrateInv).  Whoever reverts,  *)
(* what it sees has the objects of its versions, but for half of one step  *)
(* (Balanced), and what is committed has them all (SchemaInv).             *)

Whole(k) == [versions |-> 1..k, scripts |-> 1..k]

RunType == [pc : {"idle", "lock", "read", "apply", "record", "failed"}, up : BOOLEAN, target : Nat,
            todo : SUBSET Nat, version : Nat, runs : Nat]

Todo(run, k) == IF run.up THEN (k + 1)..run.target ELSE (run.target + 1)..k

\* The lock's holder, with the run it makes, sees k versions.
HolderSees(run, k) ==
  /\ run.pc \in {"read", "apply", "record", "failed"}
  /\ run.up => schema.versions \subseteq 1..k
  /\ ~run.up /\ run.pc # "read" => reverted
  /\ run.pc # "record" => open = Whole(k)
  /\ run.pc = "read" => open = schema
  /\ run.pc = "apply" => run.version = k
  /\ run.pc \in {"apply", "record"} => run.todo = Todo(run, k)
  /\ run.pc = "record" => IF run.up THEN k < run.target /\ open = [versions |-> 1..k, scripts |-> 1..(k + 1)]
                          ELSE run.target < k /\ open = [versions |-> 1..(k - 1), scripts |-> 1..k]

\* The committed schema is whole, and enough for the clients that started.
Committed(s) == schema = Whole(s) /\ (~reverted => \A p \in started : Latest[p] <= s)

MigrateInv ==
  /\ mig \in [Migrators -> RunType]
  /\ reverted \in BOOLEAN /\ started \subseteq Migrators
  /\ lockedBy \in Migrators \cup {"none"}
  /\ \A p \in Migrators : /\ p # lockedBy => mig[p].pc \in {"idle", "lock"}
                          /\ mig[p].target <= Latest[p]
  /\ \E s \in 0..NewestRelease : Committed(s)
  /\ lockedBy # "none" => \E k \in 0..NewestRelease : HolderSees(mig[lockedBy], k)

-----------------------------------------------------------------------------
LEMMA NewestFacts == NewestRelease \in Nat /\ \A p \in Migrators : Latest[p] \in 0..NewestRelease
  <1>1. PICK p \in Migrators : \A q \in Migrators : Latest[q] <= Latest[p]
    BY MigrateAssumption
  <1>2. Latest[p] \in {Latest[q] : q \in Migrators}
    OBVIOUS
  <1>3. /\ NewestRelease \in {Latest[q] : q \in Migrators}
        /\ \A q \in Migrators : Latest[q] <= NewestRelease
    BY <1>1, <1>2 DEF NewestRelease
  <1> QED
    BY <1>3, MigrateAssumption

LEMMA HighestOfFirst == ASSUME NEW n \in Nat PROVE Highest(1..n) = n
  <1>1. CASE n = 0
    <2>1. 1..n = {}
      BY <1>1
    <2> QED
      BY <1>1, <2>1 DEF Highest
  <1>2. CASE n # 0
    <2>1. n \in 1..n /\ (\A u \in 1..n : u <= n) /\ 1..n # {}
      BY <1>2
    <2>2. \A v \in 1..n : (\A u \in 1..n : u <= v) => v = n
      BY <2>1
    <2>3. Highest(1..n) = CHOOSE v \in 1..n : \A u \in 1..n : u <= v
      BY <2>1 DEF Highest
    <2> QED
      BY <2>1, <2>2, <2>3, Zenon
  <1> QED
    BY <1>1, <1>2

\* The first k versions determine k.
LEMMA FirstsDiffer == ASSUME NEW m \in Nat, NEW n \in Nat, 1..m \subseteq 1..n PROVE m <= n
  <1> SUFFICES ASSUME m > n PROVE FALSE
    OBVIOUS
  <1>1. m \in 1..m /\ m \notin 1..n
    OBVIOUS
  <1> QED
    BY <1>1

\* The version to apply is the one after those there are, the version to revert
\* the last of them.
LEMMA NextIs ==
  ASSUME NEW p \in Migrators, mig[p] \in RunType, NEW k \in Nat, mig[p].todo = Todo(mig[p], k),
         IF mig[p].up THEN k < mig[p].target ELSE mig[p].target < k
  PROVE  NextVersion(p) = IF mig[p].up THEN k + 1 ELSE k
  <1>0. mig[p].target \in Nat
    BY DEF RunType
  <1>1. CASE mig[p].up
    <2>1. mig[p].todo = (k + 1)..mig[p].target
      BY <1>1 DEF Todo
    <2>2. k + 1 \in mig[p].todo /\ \A u \in mig[p].todo : k + 1 <= u
      BY <1>0, <1>1, <2>1
    <2>3. \A v \in mig[p].todo : (\A u \in mig[p].todo : v <= u) => v = k + 1
      BY <1>0, <2>1, <2>2
    <2>4. NextVersion(p) = CHOOSE v \in mig[p].todo : \A u \in mig[p].todo : v <= u
      BY <1>1 DEF NextVersion
    <2> QED
      BY <1>1, <2>2, <2>3, <2>4
  <1>2. CASE ~mig[p].up
    <2>1. mig[p].todo = (mig[p].target + 1)..k
      BY <1>2 DEF Todo
    <2>2. k \in mig[p].todo /\ \A u \in mig[p].todo : u <= k
      BY <1>0, <1>2, <2>1
    <2>3. \A v \in mig[p].todo : (\A u \in mig[p].todo : u <= v) => v = k
      BY <1>0, <2>1, <2>2
    <2>4. NextVersion(p) = CHOOSE v \in mig[p].todo : \A u \in mig[p].todo : u <= v
      BY <1>2 DEF NextVersion
    <2> QED
      BY <1>2, <2>2, <2>3, <2>4
  <1> QED
    BY <1>1, <1>2

\* What is to be done once k versions are seen.
LEMMA UnappliedIs ==
  ASSUME NEW p \in Migrators, mig[p] \in RunType, NEW k \in 0..NewestRelease, mig[p].target <= Latest[p],
         ~mig[p].up => k <= Latest[p]
  PROVE  Unapplied(p, 1..k) = Todo(mig[p], k)
  <1>0. mig[p].target \in Nat /\ Latest[p] \in Nat /\ NewestRelease \in Nat /\ k \in Nat /\ k <= NewestRelease
    BY NewestFacts DEF RunType
  <1>1. CASE mig[p].up
    <2>1. Unapplied(p, 1..k) = {v \in 1..Latest[p] : v <= mig[p].target /\ v \notin 1..k}
      BY <1>1 DEF Unapplied
    <2>2. Todo(mig[p], k) = (k + 1)..mig[p].target
      BY <1>1 DEF Todo
    <2>3. \A v : v \in {u \in 1..Latest[p] : u <= mig[p].target /\ u \notin 1..k} <=> v \in (k + 1)..mig[p].target
      BY <1>0
    <2> QED
      BY <2>1, <2>2, <2>3, Zenon
  <1>2. CASE ~mig[p].up
    <2>1. Unapplied(p, 1..k) = {v \in 1..Latest[p] : v > mig[p].target /\ v \in 1..k}
      BY <1>2 DEF Unapplied
    <2>2. Todo(mig[p], k) = (mig[p].target + 1)..k
      BY <1>2 DEF Todo
    <2>3. \A v : v \in {u \in 1..Latest[p] : u > mig[p].target /\ u \in 1..k} <=> v \in (mig[p].target + 1)..k
      BY <1>0, <1>2
    <2> QED
      BY <2>1, <2>2, <2>3, Zenon
  <1> QED
    BY <1>1, <1>2

LEMMA MigrateStart == MigrateInit => MigrateInv
  <1> SUFFICES ASSUME MigrateInit PROVE MigrateInv
    OBVIOUS
  <1>1. NoRun \in RunType /\ NoRun.pc = "idle" /\ NoRun.target = 0
    BY DEF NoRun, RunType
  <1>2. mig \in [Migrators -> RunType] /\ \A p \in Migrators : mig[p].pc = "idle" /\ mig[p].target <= Latest[p]
    BY <1>1, MigrateAssumption DEF MigrateInit
  <1>3. 0 \in 0..NewestRelease /\ Committed(0)
    <2>1. 1..0 = {}
      OBVIOUS
    <2> QED
      BY <2>1, NewestFacts DEF MigrateInit, Committed, Whole
  <1> QED
    BY <1>2, <1>3, Zenon DEF MigrateInv, MigrateInit

-----------------------------------------------------------------------------
\* What is said of every process's run.
RunsInv ==
  /\ mig \in [Migrators -> RunType]
  /\ lockedBy \in Migrators \cup {"none"}
  /\ \A p \in Migrators : /\ p # lockedBy => mig[p].pc \in {"idle", "lock"}
                          /\ mig[p].target <= Latest[p]

At(run, place) == [run EXCEPT !.pc = place]

LEMMA AtFields ==
  ASSUME NEW run \in RunType, NEW place \in {"idle", "lock", "read", "apply", "record", "failed"}
  PROVE  /\ At(run, place) \in RunType /\ At(run, place).pc = place
         /\ At(run, place).up = run.up /\ At(run, place).target = run.target
         /\ At(run, place).todo = run.todo /\ At(run, place).version = run.version
  BY DEF At, RunType

\* One process's run changes, and the lock stays or is that process's to take
\* and release.
LEMMA RunsStep ==
  ASSUME RunsInv, NEW p \in Migrators, NEW r \in RunType, mig' = [mig EXCEPT ![p] = r],
         r.target <= Latest[p],
         lockedBy' \in Migrators \cup {"none"}, p # lockedBy' => r.pc \in {"idle", "lock"},
         \/ lockedBy' = lockedBy
         \/ lockedBy = "none" /\ lockedBy' = p
         \/ lockedBy = p /\ lockedBy' = "none"
  PROVE  RunsInv' /\ mig'[p] = r /\ \A q \in Migrators \ {p} : mig'[q] = mig[q]
  <1>0. mig'[p] = r /\ \A q \in Migrators \ {p} : mig'[q] = mig[q]
    BY DEF RunsInv
  <1>1. mig' \in [Migrators -> RunType]
    BY DEF RunsInv
  <1>2. ASSUME NEW q \in Migrators
        PROVE  /\ q # lockedBy' => mig'[q].pc \in {"idle", "lock"}
               /\ mig'[q].target <= Latest[q]
    <2>1. CASE q = p
      BY <1>0, <2>1
    <2>2. CASE q # p
      <3>1. q # lockedBy' => q # lockedBy
        BY <2>2, MigrateAssumption
      <3> QED
        BY <1>0, <2>2, <3>1 DEF RunsInv
    <2> QED
      BY <2>1, <2>2
  <1> QED
    BY <1>0, <1>1, <1>2 DEF RunsInv

LEMMA InvParts ==
  MigrateInv <=> /\ RunsInv
                 /\ reverted \in BOOLEAN /\ started \subseteq Migrators
                 /\ \E s \in 0..NewestRelease : Committed(s)
                 /\ lockedBy # "none" => \E k \in 0..NewestRelease : HolderSees(mig[lockedBy], k)
  BY DEF MigrateInv, RunsInv

LEMMA CalledRuns ==
  ASSUME RunsInv, NEW p \in Migrators, MigrateCalled(p)
  PROVE  RunsInv' /\ \A q \in Migrators \ {p} : mig'[q] = mig[q]
  <1>1. PICK up \in BOOLEAN, t \in 0..Latest[p] :
          mig' = [mig EXCEPT ![p] = [pc |-> "lock", up |-> up,
                       target |-> IF up /\ t = 0 THEN Latest[p] ELSE t,
                       todo |-> {}, version |-> 0, runs |-> mig[p].runs + 1]]
    BY Zenon DEF MigrateCalled
  <1> DEFINE r == [pc |-> "lock", up |-> up, target |-> IF up /\ t = 0 THEN Latest[p] ELSE t,
                   todo |-> {}, version |-> 0, runs |-> mig[p].runs + 1]
  <1>2. Latest[p] \in Nat /\ mig[p] \in RunType
    BY MigrateAssumption DEF RunsInv
  <1>3. mig[p].runs + 1 \in Nat /\ (IF up /\ t = 0 THEN Latest[p] ELSE t) \in 0..Latest[p]
    BY <1>2 DEF RunType
  <1>4. r \in RunType /\ r.pc = "lock" /\ r.up = up /\ r.target \in 0..Latest[p]
    BY <1>2, <1>3 DEF RunType
  <1>5. mig' = [mig EXCEPT ![p] = r]
    BY <1>1
  <1> HIDE DEF r
  <1>6. RunsInv' /\ \A q \in Migrators \ {p} : mig'[q] = mig[q]
    <2>1. lockedBy \in Migrators \cup {"none"} /\ lockedBy' = lockedBy
      BY DEF MigrateCalled, RunsInv
    <2>2. r.target <= Latest[p]
      BY <1>2, <1>4
    <2> QED
      BY <1>1, <1>4, <1>5, <2>1, <2>2, RunsStep, Zenon
  <1> QED
    BY <1>6

LEMMA CalledKeeps == ASSUME MigrateInv, NEW p \in Migrators, MigrateCalled(p) PROVE MigrateInv'
  <1>1. RunsInv' /\ \A q \in Migrators \ {p} : mig'[q] = mig[q]
    BY CalledRuns, InvParts
  <1>2. lockedBy # "none" => lockedBy \in Migrators \ {p}
    BY DEF MigrateCalled, MigrateInv, HolderSees
  <1>3. \A k : lockedBy # "none" /\ HolderSees(mig[lockedBy], k) => HolderSees(mig[lockedBy], k)'
    BY <1>1, <1>2 DEF HolderSees, MigrateCalled
  <1> QED
    BY <1>1, <1>3, InvParts, Zenon DEF MigrateCalled, MigrateInv, Committed, RunsInv

LEMMA LocksKeeps == ASSUME MigrateInv, NEW p \in Migrators, MigrateLocks(p) PROVE MigrateInv'
  <1> DEFINE r == At(mig[p], "read")
  <1>1. mig[p] \in RunType /\ p # "none" /\ RunsInv
    BY MigrateAssumption, InvParts DEF MigrateInv
  <1>2. r \in RunType /\ r.pc = "read" /\ r.up = mig[p].up /\ r.target = mig[p].target
    BY <1>1, AtFields
  <1>3. mig' = [mig EXCEPT ![p] = r]
    BY DEF MigrateLocks, At
  <1> HIDE DEF r
  <1>4. RunsInv' /\ mig'[p] = r
    BY <1>1, <1>2, <1>3, RunsStep, ZenonT(30) DEF MigrateLocks, LockFree, RunsInv
  <1>5. PICK s \in 0..NewestRelease : Committed(s)
    BY DEF MigrateInv
  <1>6. Committed(s)'
    BY <1>5 DEF Committed, MigrateLocks
  <1>7. HolderSees(mig[lockedBy], s)'
    BY <1>2, <1>4, <1>5 DEF HolderSees, MigrateLocks, Committed, Whole
  <1> QED
    BY <1>4, <1>5, <1>6, <1>7 DEF MigrateLocks, MigrateInv, RunsInv

\* A process inside a migration holds the lock.
LEMMA InsideHolds ==
  ASSUME MigrateInv, NEW p \in Migrators, mig[p].pc \in {"read", "apply", "record", "failed"}
  PROVE  /\ lockedBy = p /\ p # "none" /\ RunsInv /\ mig[p] \in RunType
         /\ mig[p].target <= Latest[p]
         /\ \E k \in 0..NewestRelease : HolderSees(mig[p], k)
  BY MigrateAssumption, InvParts DEF MigrateInv

LEMMA TodoLeft ==
  ASSUME NEW run \in RunType, NEW k \in Nat
  PROVE  Todo(run, k) # {} <=> IF run.up THEN k < run.target ELSE run.target < k
  <1>1. run.target \in Nat
    BY DEF RunType
  <1>2. \A m, n \in Nat : (m + 1)..n # {} <=> m < n
    <2>1. \A m, n \in Nat : m < n => m + 1 \in (m + 1)..n
      OBVIOUS
    <2>2. \A m, n \in Nat : \A v \in (m + 1)..n : m < n
      OBVIOUS
    <2> QED
      BY <2>1, <2>2
  <1> QED
    BY <1>1, <1>2 DEF Todo

LEMMA ReadsKeeps == ASSUME MigrateInv, NEW p \in Migrators, MigrateReads(p), ~cut' PROVE MigrateInv'
  <1>0. /\ lockedBy = p /\ p # "none" /\ RunsInv /\ mig[p] \in RunType
        /\ mig[p].target <= Latest[p]
    BY InsideHolds DEF MigrateReads
  <1>1. PICK k \in 0..NewestRelease : HolderSees(mig[p], k)
    BY InsideHolds DEF MigrateReads
  <1>2. open = Whole(k) /\ open = schema /\ k \in Nat
    BY <1>1, NewestFacts DEF HolderSees, MigrateReads
  <1> DEFINE r == [mig[p] EXCEPT !.pc = "apply", !.todo = Todo(mig[p], k), !.version = k]
  <1>3. Unapplied(p, open.versions) = Todo(mig[p], k) /\ Highest(open.versions) = k
    <2>1. open.versions = 1..k
      BY <1>2 DEF Whole
    <2>2. Highest(open.versions) = k
      BY <1>2, <2>1, HighestOfFirst
    <2>3. ~mig[p].up => ~(k > Latest[p])
      BY <2>2, Zenon DEF MigrateReads
    <2>4. ~mig[p].up => k <= Latest[p]
      BY <1>2, <2>3, NewestFacts
    <2> QED
      BY <1>0, <2>1, <2>2, <2>4, UnappliedIs
  <1>4. mig' = [mig EXCEPT ![p] = r]
    BY <1>3, Zenon DEF MigrateReads
  <1>5. /\ r \in RunType /\ r.pc = "apply" /\ r.up = mig[p].up /\ r.target = mig[p].target
        /\ r.todo = Todo(mig[p], k) /\ r.version = k
    <2>1. Todo(mig[p], k) \in SUBSET Nat
      BY <1>0, <1>2 DEF Todo, RunType
    <2> QED
      BY <1>0, <1>2, <2>1, Zenon DEF RunType
  <1> HIDE DEF r
  <1>6. RunsInv' /\ mig'[p] = r
    <2>1. lockedBy' = p
      BY <1>0 DEF MigrateReads
    <2> QED
      BY <1>0, <1>4, <1>5, <2>1, RunsStep, Zenon
  <1>7. Todo(r, k) = Todo(mig[p], k)
    BY <1>5 DEF Todo
  <1>8. reverted' \in BOOLEAN /\ (reverted => reverted') /\ (~r.up => reverted')
    BY <1>5, Zenon DEF MigrateReads, MigrateInv
  <1>9. HolderSees(mig[p], k)'
    BY <1>1, <1>2, <1>5, <1>6, <1>7, <1>8, ZenonT(30) DEF HolderSees, MigrateReads, Todo
  <1>10. PICK s \in 0..NewestRelease : Committed(s)
    BY DEF MigrateInv
  <1>11. Committed(s)'
    BY <1>8, <1>10 DEF Committed, MigrateReads
  <1> QED
    BY <1>0, <1>6, <1>8, <1>9, <1>11 DEF MigrateReads, MigrateInv, RunsInv

LEMMA SchemaSet ==
  ASSUME NEW a, NEW b, NEW c
  PROVE  /\ [[versions |-> a, scripts |-> b] EXCEPT !.scripts = c] = [versions |-> a, scripts |-> c]
         /\ [[versions |-> a, scripts |-> b] EXCEPT !.versions = c] = [versions |-> c, scripts |-> b]
  OBVIOUS

LEMMA StartsKeeps == ASSUME MigrateInv, NEW p \in Migrators, ApplyStarts(p) PROVE MigrateInv'
  <1>0. /\ lockedBy = p /\ p # "none" /\ RunsInv /\ mig[p] \in RunType
        /\ mig[p].target <= Latest[p]
    BY InsideHolds DEF ApplyStarts
  <1>1. PICK k \in 0..NewestRelease : HolderSees(mig[p], k)
    BY InsideHolds DEF ApplyStarts
  <1>2. open = Whole(k) /\ mig[p].todo = Todo(mig[p], k) /\ k \in Nat
    BY <1>1, NewestFacts DEF HolderSees, ApplyStarts
  <1> DEFINE r == At(mig[p], "record")
  <1>3. IF mig[p].up THEN k < mig[p].target ELSE mig[p].target < k
    BY <1>0, <1>2, TodoLeft DEF ApplyStarts
  <1>4. NextVersion(p) = IF mig[p].up THEN k + 1 ELSE k
    BY <1>0, <1>2, <1>3, NextIs
  <1>5. open' = IF mig[p].up THEN [versions |-> 1..k, scripts |-> 1..(k + 1)]
                ELSE [versions |-> 1..(k - 1), scripts |-> 1..k]
    <2>1. 1..k \cup {k + 1} = 1..(k + 1) /\ (1..k) \ {k} = 1..(k - 1)
      BY <1>2
    <2>2. CASE mig[p].up
      <3>1. open' = [open EXCEPT !.scripts = 1..(k + 1)]
        BY <1>2, <1>4, <2>1, <2>2, Zenon DEF ApplyStarts, Whole
      <3> QED
        BY <1>2, <2>2, <3>1, SchemaSet DEF Whole
    <2>3. CASE ~mig[p].up
      <3>1. open' = [open EXCEPT !.versions = 1..(k - 1)]
        BY <1>2, <1>4, <2>1, <2>3, Zenon DEF ApplyStarts, Whole
      <3> QED
        BY <1>2, <2>3, <3>1, SchemaSet DEF Whole
    <2> QED
      BY <2>2, <2>3
  <1>6. mig' = [mig EXCEPT ![p] = r]
    BY DEF ApplyStarts, At
  <1>7. /\ r \in RunType /\ r.pc = "record" /\ r.up = mig[p].up /\ r.target = mig[p].target
        /\ r.todo = mig[p].todo
    BY <1>0, AtFields
  <1> HIDE DEF r
  <1>8. RunsInv' /\ mig'[p] = r
    <2>1. lockedBy' = p
      BY <1>0 DEF ApplyStarts
    <2> QED
      BY <1>0, <1>6, <1>7, <2>1, RunsStep, Zenon
  <1>9. r.todo = Todo(r, k)
    BY <1>2, <1>7 DEF Todo
  <1>10. HolderSees(mig[p], k)'
    BY <1>1, <1>3, <1>5, <1>7, <1>8, <1>9, Zenon DEF HolderSees, ApplyStarts, Todo
  <1>11. PICK s \in 0..NewestRelease : Committed(s)
    BY DEF MigrateInv
  <1>12. Committed(s)'
    BY <1>11 DEF Committed, ApplyStarts
  <1> QED
    BY <1>0, <1>8, <1>10, <1>12 DEF ApplyStarts, MigrateInv, RunsInv

\* A version is applied, or reverted: the holder sees one more, or one fewer.
LEMMA EndsKeeps == ASSUME MigrateInv, NEW p \in Migrators, ApplyEnds(p) PROVE MigrateInv'
  <1>0. /\ lockedBy = p /\ p # "none" /\ RunsInv /\ mig[p] \in RunType
        /\ mig[p].target <= Latest[p]
    BY InsideHolds DEF ApplyEnds
  <1>1. PICK k \in 0..NewestRelease : HolderSees(mig[p], k)
    BY InsideHolds DEF ApplyEnds
  <1>2. /\ mig[p].todo = Todo(mig[p], k) /\ k \in Nat /\ mig[p].target \in Nat /\ NewestRelease \in Nat
        /\ Latest[p] \in Nat /\ Latest[p] <= NewestRelease
        /\ IF mig[p].up THEN k < mig[p].target ELSE mig[p].target < k
    BY <1>0, <1>1, NewestFacts DEF HolderSees, ApplyEnds, RunType
  <1>3. NextVersion(p) = IF mig[p].up THEN k + 1 ELSE k
    BY <1>0, <1>2, NextIs
  <1> DEFINE k2 == IF mig[p].up THEN k + 1 ELSE k - 1
             r == [mig[p] EXCEPT !.pc = "apply", !.todo = Todo(mig[p], k2), !.version = k2]
  <1>4. k2 \in 0..NewestRelease /\ k2 \in Nat
    BY <1>0, <1>2
  <1>5. PICK n \in 0..NewestRelease : n = k2
    BY <1>4
  <1>6. Todo(mig[p], k) \ {NextVersion(p)} = Todo(mig[p], n)
    <2>1. CASE mig[p].up
      <3>1. ((k + 1)..mig[p].target) \ {k + 1} = (k + 1 + 1)..mig[p].target
        BY <1>2
      <3> QED
        BY <1>3, <1>5, <2>1, <3>1 DEF Todo
    <2>2. CASE ~mig[p].up
      <3>1. ((mig[p].target + 1)..k) \ {k} = (mig[p].target + 1)..(k - 1)
        BY <1>2
      <3> QED
        BY <1>3, <1>5, <2>2, <3>1 DEF Todo
    <2> QED
      BY <2>1, <2>2
  <1>7. mig' = [mig EXCEPT ![p] = r]
    <2>1. (IF mig[p].up THEN NextVersion(p) ELSE NextVersion(p) - 1) = k2
      BY <1>3
    <2>2. mig[p].todo \ {NextVersion(p)} = Todo(mig[p], k2)
      BY <1>2, <1>5, <1>6
    <2> HIDE DEF k2
    <2> QED
      BY <2>1, <2>2, Zenon DEF ApplyEnds
  <1>8. /\ r \in RunType /\ r.pc = "apply" /\ r.up = mig[p].up /\ r.target = mig[p].target
        /\ r.todo = Todo(mig[p], n) /\ r.version = n
    <2>1. Todo(mig[p], n) \in SUBSET Nat
      BY <1>2, <1>4, <1>5 DEF Todo
    <2> HIDE DEF k2
    <2> QED
      BY <1>0, <1>4, <1>5, <2>1, ZenonT(30) DEF RunType
  <1>9. open' = Whole(n)
    <2>1. 1..k \cup {k + 1} = 1..(k + 1) /\ (1..k) \ {k} = 1..(k - 1)
      BY <1>2
    <2>2. CASE mig[p].up
      <3>0. open = [versions |-> 1..k, scripts |-> 1..(k + 1)]
        BY <1>1, <2>2 DEF HolderSees, ApplyEnds
      <3>1. open' = [open EXCEPT !.versions = 1..(k + 1)]
        BY <1>3, <2>1, <2>2, <3>0, Zenon DEF ApplyEnds
      <3> QED
        BY <1>5, <2>2, <3>0, <3>1, SchemaSet DEF Whole
    <2>3. CASE ~mig[p].up
      <3>0. open = [versions |-> 1..(k - 1), scripts |-> 1..k]
        BY <1>1, <2>3 DEF HolderSees, ApplyEnds
      <3>1. open' = [open EXCEPT !.scripts = 1..(k - 1)]
        BY <1>3, <2>1, <2>3, <3>0, Zenon DEF ApplyEnds
      <3> QED
        BY <1>5, <2>3, <3>0, <3>1, SchemaSet DEF Whole
    <2> QED
      BY <2>2, <2>3
  <1>10. RunsInv' /\ mig'[p] = r
    <2>1. lockedBy' = p
      BY <1>0 DEF ApplyEnds
    <2> HIDE DEF r
    <2> QED
      BY <1>0, <1>7, <1>8, <2>1, RunsStep, Zenon
  <1>11. r.todo = Todo(r, n)
    BY <1>8 DEF Todo
  <1>12. PICK s \in 0..NewestRelease : Committed(s)
    BY DEF MigrateInv
  <1>13. schema' = schema \/ schema' = Whole(n)
    BY <1>9 DEF ApplyEnds, Applied
  <1>14. mig[p].up => s <= k /\ n = k + 1 /\ schema.versions \subseteq 1..n
    <2>1. mig[p].up => 1..s \subseteq 1..k
      BY <1>1, <1>12 DEF HolderSees, Committed, Whole
    <2>2. s \in Nat /\ (mig[p].up => n = k + 1)
      BY <1>2, <1>5
    <2>3. mig[p].up => s <= k
      BY <1>2, <2>1, <2>2, FirstsDiffer
    <2>4. schema.versions = 1..s
      BY <1>12 DEF Committed, Whole
    <2> QED
      BY <1>2, <2>2, <2>3, <2>4
  <1>15. ~mig[p].up => reverted
    BY <1>1 DEF HolderSees, ApplyEnds
  <1> HIDE DEF r, k2
  <1>16. HolderSees(mig[p], n)'
    <2>1. mig[p].up => schema'.versions \subseteq 1..n
      BY <1>13, <1>14 DEF Whole
    <2> QED
      BY <1>8, <1>9, <1>10, <1>11, <1>15, <2>1, Zenon DEF HolderSees, ApplyEnds, Todo
  <1>17. \E t \in 0..NewestRelease : Committed(t)'
    <2>1. CASE schema' = schema
      BY <1>12, <2>1 DEF Committed, ApplyEnds
    <2>2. CASE schema' = Whole(n)
      <3>1. ASSUME ~reverted, NEW q \in started PROVE Latest[q] <= n
        <4>1. mig[p].up /\ Latest[q] <= s /\ s <= k /\ n = k + 1 /\ Latest[q] \in Nat
          BY <1>12, <1>14, <1>15, <3>1, MigrateAssumption DEF Committed, MigrateInv
        <4> QED
          BY <1>2, <1>12, <4>1
      <3> QED
        BY <2>2, <3>1 DEF Committed, ApplyEnds, Whole
    <2> QED
      BY <1>13, <2>1, <2>2
  <1> QED
    BY <1>0, <1>10, <1>16, <1>17 DEF ApplyEnds, MigrateInv, RunsInv

LEMMA FailsKeeps == ASSUME MigrateInv, NEW p \in Migrators, ApplyFails(p) PROVE MigrateInv'
  <1>0. /\ lockedBy = p /\ p # "none" /\ RunsInv /\ mig[p] \in RunType
        /\ mig[p].target <= Latest[p]
    BY InsideHolds DEF ApplyFails
  <1>1. PICK k \in 0..NewestRelease : HolderSees(mig[p], k)
    BY InsideHolds DEF ApplyFails
  <1>2. /\ mig[p].todo = Todo(mig[p], k) /\ k \in Nat /\ mig[p].target \in Nat
        /\ IF mig[p].up THEN k < mig[p].target ELSE mig[p].target < k
    BY <1>0, <1>1, NewestFacts DEF HolderSees, ApplyFails, RunType
  <1>3. NextVersion(p) = IF mig[p].up THEN k + 1 ELSE k
    BY <1>0, <1>2, NextIs
  <1> DEFINE r == At(mig[p], "failed")
  <1>4. open' = Whole(k)
    <2>1. (1..(k + 1)) \ {k + 1} = 1..k /\ (k > 0 => (1..(k - 1)) \cup {k} = 1..k)
      BY <1>2
    <2>2. CASE mig[p].up
      <3>0. open = [versions |-> 1..k, scripts |-> 1..(k + 1)]
        BY <1>1, <2>2 DEF HolderSees, ApplyFails
      <3>1. open' = [open EXCEPT !.scripts = 1..k]
        BY <1>3, <2>1, <2>2, <3>0, Zenon DEF ApplyFails
      <3> QED
        BY <3>0, <3>1, SchemaSet DEF Whole
    <2>3. CASE ~mig[p].up
      <3>0. open = [versions |-> 1..(k - 1), scripts |-> 1..k] /\ k > 0
        BY <1>1, <1>2, <2>3 DEF HolderSees, ApplyFails
      <3>1. open' = [open EXCEPT !.versions = 1..k]
        BY <1>3, <2>1, <2>3, <3>0, Zenon DEF ApplyFails
      <3> QED
        BY <3>0, <3>1, SchemaSet DEF Whole
    <2> QED
      BY <2>2, <2>3
  <1>5. mig' = [mig EXCEPT ![p] = r]
    BY DEF ApplyFails, At
  <1>6. r \in RunType /\ r.pc = "failed" /\ r.up = mig[p].up /\ r.target = mig[p].target
    BY <1>0, AtFields
  <1> HIDE DEF r
  <1>7. RunsInv' /\ mig'[p] = r
    <2>1. lockedBy' = p
      BY <1>0 DEF ApplyFails
    <2> QED
      BY <1>0, <1>5, <1>6, <2>1, RunsStep, Zenon
  <1>8. HolderSees(mig[p], k)'
    BY <1>1, <1>4, <1>6, <1>7 DEF HolderSees, ApplyFails
  <1>9. PICK s \in 0..NewestRelease : Committed(s)
    BY DEF MigrateInv
  <1>10. Committed(s)'
    BY <1>9 DEF Committed, ApplyFails
  <1> QED
    BY <1>0, <1>7, <1>8, <1>10 DEF ApplyFails, MigrateInv, RunsInv

\* What the holder leaves is whole, and no less than it found unless it reverted.
LEMMA ClosesKeeps == ASSUME MigrateInv, NEW p \in Migrators, MigrateCloses(p) PROVE MigrateInv'
  <1>0. /\ lockedBy = p /\ p # "none" /\ RunsInv /\ mig[p] \in RunType
        /\ mig[p].target <= Latest[p]
    BY InsideHolds DEF MigrateCloses
  <1>1. PICK k \in 0..NewestRelease : HolderSees(mig[p], k)
    BY InsideHolds DEF MigrateCloses
  <1>2. open = Whole(k) /\ k \in Nat /\ NewestRelease \in Nat
    BY <1>1, NewestFacts DEF HolderSees, MigrateCloses
  <1> DEFINE r == At(mig[p], "idle")
  <1>3. mig' = [mig EXCEPT ![p] = r]
    BY DEF MigrateCloses, At
  <1>4. r \in RunType /\ r.pc = "idle" /\ r.target = mig[p].target
    BY <1>0, AtFields
  <1> HIDE DEF r
  <1>5. RunsInv'
    <2>1. lockedBy' = "none"
      BY DEF MigrateCloses
    <2> QED
      BY <1>0, <1>3, <1>4, <2>1, RunsStep, Zenon
  <1>6. PICK s \in 0..NewestRelease : Committed(s)
    BY DEF MigrateInv
  <1>7. reverted' \in BOOLEAN /\ (~reverted' => ~reverted \/ open.versions = 1..NewestRelease)
    BY DEF MigrateCloses, MigrateInv
  <1>8. ASSUME ~reverted', NEW q \in started PROVE Latest[q] <= k
    <2>0. Latest[q] \in 0..NewestRelease
      BY NewestFacts DEF MigrateInv
    <2>1. CASE ~reverted
      <3>1. mig[p].up
        BY <1>1, <2>1 DEF HolderSees, MigrateCloses
      <3>2. 1..s \subseteq 1..k /\ Latest[q] <= s
        BY <1>1, <1>6, <2>1, <3>1 DEF HolderSees, Committed, Whole
      <3>3. s <= k
        BY <1>2, <3>2, FirstsDiffer
      <3> QED
        BY <1>2, <2>0, <3>2, <3>3
    <2>2. CASE open.versions = 1..NewestRelease
      <3>1. 1..NewestRelease \subseteq 1..k
        BY <1>2, <2>2 DEF Whole
      <3>2. NewestRelease <= k
        BY <1>2, <3>1, FirstsDiffer
      <3> QED
        BY <1>2, <2>0, <3>2
    <2> QED
      BY <1>7, <1>8, <2>1, <2>2
  <1>9. Committed(k)'
    BY <1>2, <1>8 DEF Committed, MigrateCloses, Whole
  <1> QED
    BY <1>5, <1>7, <1>9 DEF MigrateCloses, MigrateInv, RunsInv

LEMMA DiesKeeps == ASSUME MigrateInv, NEW p \in Migrators, MigratorDies(p) PROVE MigrateInv'
  <1>0. mig[p] \in RunType /\ RunsInv /\ p # "none" /\ mig[p].target <= Latest[p]
    BY MigrateAssumption, InvParts DEF MigrateInv
  <1> DEFINE r == At(mig[p], "idle")
  <1>1. mig' = [mig EXCEPT ![p] = r]
    BY DEF MigratorDies, At
  <1>2. r \in RunType /\ r.pc = "idle" /\ r.target = mig[p].target
    BY <1>0, AtFields
  <1> HIDE DEF r
  <1>3. RunsInv' /\ \A q \in Migrators \ {p} : mig'[q] = mig[q]
    <2>1. /\ lockedBy' \in Migrators \cup {"none"}
          /\ \/ lockedBy' = lockedBy
             \/ lockedBy = p /\ lockedBy' = "none"
      BY DEF MigratorDies, MigrateInv
    <2> QED
      BY <1>0, <1>1, <1>2, <2>1, RunsStep, Zenon
  <1>4. PICK s \in 0..NewestRelease : Committed(s)
    BY DEF MigrateInv
  <1>5. Committed(s)'
    BY <1>4 DEF Committed, MigratorDies
  <1>6. ASSUME lockedBy' # "none" PROVE \E k \in 0..NewestRelease : HolderSees(mig[lockedBy], k)'
    <2>1. lockedBy # p /\ lockedBy' = lockedBy /\ lockedBy \in Migrators \ {p} /\ open' = open
      BY <1>6 DEF MigratorDies, MigrateInv
    <2>2. PICK k \in 0..NewestRelease : HolderSees(mig[lockedBy], k)
      BY <1>6, <2>1 DEF MigrateInv
    <2>3. HolderSees(mig[lockedBy], k)'
      BY <1>3, <2>1, <2>2 DEF HolderSees, MigratorDies
    <2> QED
      BY <2>3
  <1> QED
    BY <1>3, <1>5, <1>6 DEF MigratorDies, MigrateInv, RunsInv

LEMMA StartKeeps == ASSUME MigrateInv, NEW p \in Migrators, ReleaseStarts(p) PROVE MigrateInv'
  <1>1. PICK s \in 0..NewestRelease : Committed(s)
    BY DEF MigrateInv
  <1>2. Highest(schema.versions) = s
    BY <1>1, HighestOfFirst, NewestFacts DEF Committed, Whole
  <1>3. Latest[p] <= s
    BY <1>2, MigrateAssumption, NewestFacts DEF ReleaseStarts
  <1>4. Committed(s)'
    BY <1>1, <1>3 DEF Committed, ReleaseStarts
  <1>5. \A k : HolderSees(mig[lockedBy], k) => HolderSees(mig[lockedBy], k)'
    BY DEF HolderSees, ReleaseStarts
  <1> QED
    BY <1>4, <1>5 DEF ReleaseStarts, MigrateInv

LEMMA MigrateStutters == ASSUME MigrateInv, UNCHANGED migrateVars PROVE MigrateInv'
  BY DEF MigrateInv, migrateVars, Committed, HolderSees

-----------------------------------------------------------------------------
\* Versions and objects, with or without a gap.
Matched(sc) ==
  /\ sc = [versions |-> sc.versions, scripts |-> sc.scripts]
  /\ sc.versions \subseteq 1..NewestRelease /\ sc.scripts = sc.versions

\* What the lock's holder sees: at half of a step, one version's object is
\* there without its row.
Balanced(p) ==
  /\ mig[p].pc \in {"read", "apply", "record", "failed"}
  /\ mig[p].pc # "record" => Matched(open)
  /\ mig[p].pc \in {"apply", "record"} => mig[p].todo \subseteq 1..NewestRelease
  /\ mig[p].pc = "apply" => IF mig[p].up THEN mig[p].todo \cap open.versions = {}
                            ELSE mig[p].todo \subseteq open.versions
  /\ mig[p].pc = "record" =>
       /\ NextVersion(p) \in mig[p].todo /\ NextVersion(p) \notin open.versions
       /\ open.versions \subseteq 1..NewestRelease
       /\ open = [versions |-> open.versions, scripts |-> open.versions \cup {NextVersion(p)}]
       /\ IF mig[p].up THEN mig[p].todo \cap open.versions = {}
          ELSE mig[p].todo \ {NextVersion(p)} \subseteq open.versions

BalanceInv ==
  /\ RunsInv
  /\ Matched(schema)
  /\ lockedBy # "none" => Balanced(lockedBy)

\* A set of versions has a first and a last.
LEMMA FirstOf == ASSUME NEW S, S \subseteq Nat, S # {} PROVE \E m \in S : \A u \in S : m <= u
  <1>1. PICK m \in S : \A u \in S : ~(<<u, m>> \in OpToRel(<, Nat))
    BY NatLessThanWellFounded, WFMin, Zenon
  <1>2. \A u \in S : <<u, m>> \in OpToRel(<, Nat) <=> u < m
    BY DEF OpToRel
  <1>3. \A u \in S : ~(u < m)
    BY <1>1, <1>2, Zenon
  <1> QED
    BY <1>3

LEMMA LastOf ==
  ASSUME NEW n \in Nat, NEW S, S \subseteq 1..n, S # {}
  PROVE  \E m \in S : \A u \in S : u <= m
  <1> DEFINE T == {b \in Nat : \A u \in S : u <= b}
  <1>1. n \in T /\ T \subseteq Nat
    OBVIOUS
  <1>2. PICK b \in T : \A c \in T : b <= c
    BY <1>1, FirstOf, Zenon
  <1>3. ASSUME b \notin S PROVE FALSE
    <2>1. \A u \in S : u \in Nat /\ u <= b - 1
      BY <1>3
    <2>2. PICK u \in S : u \in Nat /\ u <= b - 1
      BY <2>1, Zenon
    <2>3. b - 1 \in Nat
      BY <2>2
    <2> QED
      BY <1>2, <2>1, <2>3
  <1> QED
    BY <1>3

LEMMA HighestIs == ASSUME NEW S, S \subseteq 1..NewestRelease PROVE Highest(S) \in 0..NewestRelease
  <1>0. NewestRelease \in Nat
    BY NewestFacts
  <1>1. CASE S = {}
    BY <1>0, <1>1 DEF Highest
  <1>2. CASE S # {}
    <2>1. \E m \in S : \A u \in S : u <= m
      BY <1>0, <1>2, LastOf, Zenon
    <2>2. Highest(S) \in S
      BY <1>2, <2>1, Zenon DEF Highest
    <2>3. Highest(S) \in 1..NewestRelease
      BY <2>2, Zenon
    <2> QED
      BY <1>0, <2>3
  <1> QED
    BY <1>1, <1>2

LEMMA NextIn ==
  ASSUME NEW p \in Migrators, mig[p].todo \subseteq 1..NewestRelease, mig[p].todo # {}
  PROVE  NextVersion(p) \in mig[p].todo
  <1>1. CASE mig[p].up
    <2>1. \A v \in 1..NewestRelease : v \in Nat
      BY NewestFacts
    <2>2. \E m \in mig[p].todo : \A u \in mig[p].todo : m <= u
      <3>1. mig[p].todo \subseteq Nat
        BY <2>1, Zenon
      <3> QED
        BY <3>1, FirstOf, Zenon
    <2> QED
      BY <1>1, <2>2, Zenon DEF NextVersion
  <1>2. CASE ~mig[p].up
    <2>1. \E m \in mig[p].todo : \A u \in mig[p].todo : u <= m
      BY NewestFacts, LastOf, Zenon
    <2> QED
      BY <1>2, <2>1, Zenon DEF NextVersion
  <1> QED
    BY <1>1, <1>2

LEMMA BalanceHolder ==
  ASSUME BalanceInv, NEW p \in Migrators, mig[p].pc \in {"read", "apply", "record", "failed"}
  PROVE  /\ lockedBy = p /\ p # "none" /\ RunsInv /\ mig[p] \in RunType
         /\ mig[p].target <= Latest[p] /\ Balanced(p) /\ Matched(schema)
  BY MigrateAssumption DEF BalanceInv, RunsInv

\* A process's run is at another place, with the same versions to do.
LEMMA PlaceRuns ==
  ASSUME RunsInv, NEW p \in Migrators, NEW place \in {"idle", "lock", "read", "apply", "record", "failed"},
         mig' = [mig EXCEPT ![p] = At(mig[p], place)],
         lockedBy' \in Migrators \cup {"none"}, p # lockedBy' => place \in {"idle", "lock"},
         \/ lockedBy' = lockedBy
         \/ lockedBy = "none" /\ lockedBy' = p
         \/ lockedBy = p /\ lockedBy' = "none"
  PROVE  /\ RunsInv' /\ \A q \in Migrators \ {p} : mig'[q] = mig[q]
         /\ mig'[p].pc = place /\ mig'[p].up = mig[p].up /\ mig'[p].todo = mig[p].todo
         /\ NextVersion(p)' = NextVersion(p)
  <1> DEFINE r == At(mig[p], place)
  <1>1. mig[p] \in RunType /\ mig[p].target <= Latest[p]
    BY DEF RunsInv
  <1>2. r \in RunType /\ r.pc = place /\ r.up = mig[p].up /\ r.target = mig[p].target /\ r.todo = mig[p].todo
    BY <1>1, AtFields
  <1> HIDE DEF r
  <1>3. mig' = [mig EXCEPT ![p] = r]
    BY DEF r
  <1>4. RunsInv' /\ mig'[p] = r /\ \A q \in Migrators \ {p} : mig'[q] = mig[q]
    BY <1>1, <1>2, <1>3, RunsStep, Zenon
  <1> QED
    BY <1>2, <1>4, Zenon DEF NextVersion

LEMMA OtherBalanced ==
  ASSUME NEW q, Balanced(q), mig'[q] = mig[q], open' = open
  PROVE  Balanced(q)'
  <1>1. NextVersion(q)' = NextVersion(q)
    BY Zenon DEF NextVersion
  <1> QED
    BY <1>1, Zenon DEF Balanced, Matched

LEMMA CalledBalances == ASSUME BalanceInv, NEW p \in Migrators, MigrateCalled(p) PROVE BalanceInv'
  <1>1. RunsInv' /\ \A q \in Migrators \ {p} : mig'[q] = mig[q]
    BY CalledRuns DEF BalanceInv
  <1>2. lockedBy # "none" => lockedBy \in Migrators \ {p} /\ Balanced(lockedBy)
    BY DEF BalanceInv, RunsInv, Balanced, MigrateCalled
  <1>3. lockedBy # "none" => Balanced(lockedBy)'
    <2> SUFFICES ASSUME lockedBy # "none" PROVE Balanced(lockedBy)'
      OBVIOUS
    <2>1. mig'[lockedBy] = mig[lockedBy] /\ lockedBy' = lockedBy /\ open' = open
      BY <1>1, <1>2 DEF MigrateCalled
    <2> QED
      BY <1>2, <2>1, OtherBalanced, ZenonT(30) DEF Balanced, NextVersion
  <1>4. Matched(schema)' /\ lockedBy' = lockedBy
    BY DEF BalanceInv, MigrateCalled, Matched
  <1> QED
    BY <1>1, <1>3, <1>4 DEF BalanceInv

LEMMA LocksBalances == ASSUME BalanceInv, NEW p \in Migrators, MigrateLocks(p) PROVE BalanceInv'
  <1>1. RunsInv /\ p # "none" /\ lockedBy = "none" /\ lockedBy' = p /\ Matched(schema)
    BY MigrateAssumption DEF BalanceInv, MigrateLocks, LockFree
  <1>2. mig' = [mig EXCEPT ![p] = At(mig[p], "read")]
    BY DEF MigrateLocks, At
  <1>3. RunsInv' /\ mig'[p].pc = "read"
    BY <1>1, <1>2, PlaceRuns, Zenon
  <1>4. Balanced(p)' /\ Matched(schema)'
    BY <1>1, <1>3 DEF Balanced, MigrateLocks, Matched
  <1> QED
    BY <1>1, <1>3, <1>4 DEF BalanceInv

LEMMA ReadsBalances == ASSUME BalanceInv, NEW p \in Migrators, MigrateReads(p) PROVE BalanceInv'
  <1>0. /\ lockedBy = p /\ p # "none" /\ RunsInv /\ mig[p] \in RunType
        /\ mig[p].target <= Latest[p] /\ Matched(schema) /\ Matched(open)
    BY BalanceHolder DEF MigrateReads, Balanced
  <1> DEFINE todo == Unapplied(p, open.versions)
             top == Highest(open.versions)
             r == [mig[p] EXCEPT !.pc = "apply", !.todo = todo, !.version = top]
  <1>1. /\ todo \subseteq 1..NewestRelease
        /\ IF mig[p].up THEN todo \cap open.versions = {} ELSE todo \subseteq open.versions
    <2>1. \A v \in 1..Latest[p] : v \in 1..NewestRelease
      BY NewestFacts
    <2> QED
      BY <2>1, Zenon DEF Unapplied
  <1>2. todo \in SUBSET Nat /\ top \in Nat
    <2>1. \A v \in 1..NewestRelease : v \in Nat
      BY NewestFacts
    <2>2. top \in 0..NewestRelease
      BY <1>0, HighestIs DEF Matched
    <2> QED
      BY <1>1, <2>1, <2>2, NewestFacts
  <1>3. mig' = [mig EXCEPT ![p] = r]
    BY Zenon DEF MigrateReads
  <1> HIDE DEF todo, top
  <1>4. r \in RunType /\ r.pc = "apply" /\ r.up = mig[p].up /\ r.target = mig[p].target /\ r.todo = todo
    BY <1>0, <1>2, Zenon DEF RunType
  <1> HIDE DEF r
  <1>5. RunsInv' /\ mig'[p] = r
    <2>1. lockedBy' = p
      BY <1>0 DEF MigrateReads
    <2> QED
      BY <1>0, <1>3, <1>4, <2>1, RunsStep, Zenon
  <1>6. Balanced(p)' /\ Matched(schema)'
    <2>1. Matched(open)' /\ Matched(schema)' /\ open' = open
      BY <1>0 DEF Matched, MigrateReads
    <2> QED
      BY <1>1, <1>4, <1>5, <2>1 DEF Balanced
  <1> QED
    BY <1>0, <1>5, <1>6 DEF BalanceInv, MigrateReads

\* Half of a step: one version's object is there without its row.
LEMMA StartsBalances == ASSUME BalanceInv, NEW p \in Migrators, ApplyStarts(p) PROVE BalanceInv'
  <1>0. /\ lockedBy = p /\ p # "none" /\ RunsInv /\ Matched(schema) /\ Matched(open)
        /\ mig[p].todo \subseteq 1..NewestRelease /\ mig[p].todo # {}
        /\ IF mig[p].up THEN mig[p].todo \cap open.versions = {} ELSE mig[p].todo \subseteq open.versions
    BY BalanceHolder DEF ApplyStarts, Balanced
  <1>1. NextVersion(p) \in mig[p].todo
    BY <1>0, NextIn
  <1>2. mig' = [mig EXCEPT ![p] = At(mig[p], "record")]
    BY DEF ApplyStarts, At
  <1>3. /\ RunsInv' /\ mig'[p].pc = "record" /\ mig'[p].up = mig[p].up /\ mig'[p].todo = mig[p].todo
        /\ NextVersion(p)' = NextVersion(p)
    <2>1. lockedBy' = p
      BY <1>0 DEF ApplyStarts
    <2> QED
      BY <1>0, <1>2, <2>1, PlaceRuns, Zenon
  <1> DEFINE v == NextVersion(p)
  <1>4. open' = [versions |-> open'.versions, scripts |-> open'.versions \cup {v}]
        /\ open'.versions = IF mig[p].up THEN open.versions ELSE open.versions \ {v}
    <2> HIDE DEF v
    <2>1. CASE mig[p].up
      <3>1. open' = [open EXCEPT !.scripts = open.scripts \cup {v}]
        BY <2>1, Zenon DEF ApplyStarts, v
      <3> QED
        BY <1>0, <2>1, <3>1, SchemaSet DEF Matched
    <2>2. CASE ~mig[p].up
      <3>1. open' = [open EXCEPT !.versions = open.versions \ {v}]
        BY <2>2, Zenon DEF ApplyStarts, v
      <3>2. (open.versions \ {v}) \cup {v} = open.versions
        BY <1>0, <1>1, <2>2 DEF v
      <3> QED
        BY <1>0, <2>2, <3>1, <3>2, SchemaSet DEF Matched
    <2> QED
      BY <2>1, <2>2
  <1>5. /\ v \notin open'.versions /\ open'.versions \subseteq 1..NewestRelease
        /\ IF mig[p].up THEN mig[p].todo \cap open'.versions = {} ELSE mig[p].todo \ {v} \subseteq open'.versions
    BY <1>0, <1>1, <1>4 DEF Matched
  <1>6. Balanced(p)'
    BY <1>0, <1>1, <1>3, <1>4, <1>5 DEF Balanced
  <1>7. Matched(schema)' /\ lockedBy' = p
    BY <1>0 DEF ApplyStarts, Matched
  <1> QED
    BY <1>3, <1>6, <1>7 DEF BalanceInv

\* A half step as its end finds it.
LEMMA HalfStep ==
  ASSUME BalanceInv, NEW p \in Migrators, mig[p].pc = "record"
  PROVE  /\ lockedBy = p /\ p # "none" /\ RunsInv /\ Matched(schema) /\ mig[p] \in RunType
         /\ mig[p].target <= Latest[p] /\ mig[p].todo \subseteq 1..NewestRelease
         /\ NextVersion(p) \in mig[p].todo /\ NextVersion(p) \notin open.versions
         /\ open.versions \subseteq 1..NewestRelease
         /\ open = [versions |-> open.versions, scripts |-> open.versions \cup {NextVersion(p)}]
         /\ IF mig[p].up THEN mig[p].todo \cap open.versions = {}
            ELSE mig[p].todo \ {NextVersion(p)} \subseteq open.versions
  BY BalanceHolder DEF Balanced

LEMMA EndsBalances == ASSUME BalanceInv, NEW p \in Migrators, ApplyEnds(p) PROVE BalanceInv'
  <1> DEFINE v == NextVersion(p)
             r == [mig[p] EXCEPT !.pc = "apply", !.todo = mig[p].todo \ {v},
                                 !.version = IF mig[p].up THEN v ELSE v - 1]
             versions == IF mig[p].up THEN open.versions \cup {v} ELSE open.versions
  <1>0. /\ lockedBy = p /\ p # "none" /\ RunsInv /\ Matched(schema) /\ mig[p] \in RunType
        /\ mig[p].target <= Latest[p] /\ mig[p].todo \subseteq 1..NewestRelease
        /\ v \in mig[p].todo /\ v \notin open.versions /\ open.versions \subseteq 1..NewestRelease
        /\ open = [versions |-> open.versions, scripts |-> open.versions \cup {v}]
        /\ IF mig[p].up THEN mig[p].todo \cap open.versions = {} ELSE mig[p].todo \ {v} \subseteq open.versions
    BY HalfStep DEF ApplyEnds
  <1>1. mig' = [mig EXCEPT ![p] = r]
    BY ZenonT(30) DEF ApplyEnds
  <1>2. open' = [versions |-> versions, scripts |-> versions]
    <2>1. CASE mig[p].up
      <3>1. open' = [open EXCEPT !.versions = open.versions \cup {v}]
        BY <2>1, Zenon DEF ApplyEnds
      <3> HIDE DEF v
      <3> QED
        BY <1>0, <2>1, <3>1, SchemaSet
    <2>2. CASE ~mig[p].up
      <3>1. open' = [open EXCEPT !.scripts = open.scripts \ {v}]
        BY <2>2, Zenon DEF ApplyEnds
      <3>2. open.scripts \ {v} = open.versions
        <4>1. (open.versions \cup {v}) \ {v} = open.versions
          BY <1>0
        <4>2. open.scripts = open.versions \cup {v}
          BY <1>0
        <4> QED
          BY <4>1, <4>2
      <3> QED
        BY <1>0, <2>2, <3>1, <3>2, SchemaSet, Zenon
    <2> QED
      BY <2>1, <2>2
  <1> HIDE DEF v
  <1>3. versions \subseteq 1..NewestRelease /\ v \in 1..NewestRelease
    BY <1>0
  <1>4. IF mig[p].up THEN (mig[p].todo \ {v}) \cap versions = {} ELSE mig[p].todo \ {v} \subseteq versions
    BY <1>0
  <1> HIDE DEF versions
  <1>5. Matched(open)'
    BY <1>2, <1>3 DEF Matched
  <1>6. Matched(schema)' /\ lockedBy' = p
    <2>1. (schema' = open' \/ schema' = schema) /\ lockedBy' = p
      BY <1>0 DEF ApplyEnds, Applied
    <2> QED
      BY <1>0, <1>5, <2>1, Zenon DEF Matched
  <1>7. r \in RunType /\ r.pc = "apply" /\ r.up = mig[p].up /\ r.target = mig[p].target /\ r.todo = mig[p].todo \ {v}
    <2>1. v \in Nat /\ v - 1 \in Nat
      BY <1>3, NewestFacts
    <2>2. mig[p].todo \ {v} \in SUBSET Nat
      BY <1>0 DEF RunType
    <2> QED
      BY <1>0, <2>1, <2>2, Zenon DEF RunType
  <1> HIDE DEF r
  <1>8. RunsInv' /\ mig'[p] = r
    BY <1>0, <1>1, <1>6, <1>7, RunsStep, ZenonT(30)
  <1>9. Balanced(p)'
    <2>1. mig[p].todo \ {v} \subseteq 1..NewestRelease /\ open'.versions = versions
      BY <1>0, <1>2
    <2> QED
      BY <1>4, <1>5, <1>7, <1>8, <2>1 DEF Balanced
  <1> QED
    BY <1>6, <1>8, <1>9 DEF BalanceInv

LEMMA FailsBalances == ASSUME BalanceInv, NEW p \in Migrators, ApplyFails(p) PROVE BalanceInv'
  <1> DEFINE v == NextVersion(p)
             versions == IF mig[p].up THEN open.versions ELSE open.versions \cup {v}
  <1>0. /\ lockedBy = p /\ p # "none" /\ RunsInv /\ Matched(schema) /\ mig[p].todo \subseteq 1..NewestRelease
        /\ v \in mig[p].todo /\ v \notin open.versions /\ open.versions \subseteq 1..NewestRelease
        /\ open = [versions |-> open.versions, scripts |-> open.versions \cup {v}]
    BY HalfStep DEF ApplyFails
  <1>1. open' = [versions |-> versions, scripts |-> versions]
    <2>1. CASE mig[p].up
      <3>1. open' = [open EXCEPT !.scripts = open.scripts \ {v}]
        BY <2>1, Zenon DEF ApplyFails
      <3>2. open.scripts \ {v} = open.versions
        <4>1. (open.versions \cup {v}) \ {v} = open.versions
          BY <1>0
        <4>2. open.scripts = open.versions \cup {v}
          BY <1>0
        <4> QED
          BY <4>1, <4>2
      <3> QED
        BY <1>0, <2>1, <3>1, <3>2, SchemaSet, Zenon
    <2>2. CASE ~mig[p].up
      <3>1. open' = [open EXCEPT !.versions = open.versions \cup {v}]
        BY <2>2, Zenon DEF ApplyFails
      <3> HIDE DEF v
      <3> QED
        BY <1>0, <2>2, <3>1, SchemaSet
    <2> QED
      BY <2>1, <2>2
  <1> HIDE DEF v
  <1>2. versions \subseteq 1..NewestRelease
    BY <1>0
  <1> HIDE DEF versions
  <1>3. mig' = [mig EXCEPT ![p] = At(mig[p], "failed")]
    BY DEF ApplyFails, At
  <1>4. Matched(open)' /\ Matched(schema)' /\ lockedBy' = p
    <2>1. schema' = schema /\ lockedBy' = p
      BY <1>0 DEF ApplyFails
    <2>2. Matched(open)'
      BY <1>1, <1>2 DEF Matched
    <2> QED
      BY <1>0, <2>1, <2>2, Zenon DEF Matched
  <1>5. RunsInv' /\ mig'[p].pc = "failed"
    BY <1>0, <1>3, <1>4, PlaceRuns, Zenon
  <1> QED
    BY <1>4, <1>5 DEF BalanceInv, Balanced

LEMMA ClosesBalances == ASSUME BalanceInv, NEW p \in Migrators, MigrateCloses(p) PROVE BalanceInv'
  <1>1. lockedBy = p /\ RunsInv /\ Matched(open)
    BY BalanceHolder DEF MigrateCloses, Balanced
  <1>2. mig' = [mig EXCEPT ![p] = At(mig[p], "idle")]
    BY DEF MigrateCloses, At
  <1>3. lockedBy' = "none" /\ Matched(schema)'
    BY <1>1 DEF MigrateCloses, Matched
  <1>4. RunsInv'
    BY <1>1, <1>2, <1>3, PlaceRuns, Zenon
  <1> QED
    BY <1>3, <1>4 DEF BalanceInv

LEMMA DiesBalances == ASSUME BalanceInv, NEW p \in Migrators, MigratorDies(p) PROVE BalanceInv'
  <1>1. mig' = [mig EXCEPT ![p] = At(mig[p], "idle")]
    BY DEF MigratorDies, At
  <1>2. /\ lockedBy' \in Migrators \cup {"none"}
        /\ \/ lockedBy' = lockedBy
           \/ lockedBy = p /\ lockedBy' = "none"
    BY DEF MigratorDies, BalanceInv, RunsInv
  <1>3. RunsInv' /\ \A q \in Migrators \ {p} : mig'[q] = mig[q]
    BY <1>1, <1>2, PlaceRuns, Zenon DEF BalanceInv
  <1>4. lockedBy' # "none" => Balanced(lockedBy)'
    <2> SUFFICES ASSUME lockedBy' # "none" PROVE Balanced(lockedBy)'
      OBVIOUS
    <2>1. lockedBy' = lockedBy /\ lockedBy \in Migrators \ {p} /\ open' = open
      BY DEF MigratorDies, BalanceInv, RunsInv
    <2>2. Balanced(lockedBy) /\ mig'[lockedBy] = mig[lockedBy]
      BY <1>3, <2>1 DEF BalanceInv
    <2> QED
      BY <2>1, <2>2, OtherBalanced, ZenonT(30) DEF Balanced, NextVersion
  <1>5. Matched(schema)'
    BY DEF MigratorDies, BalanceInv, Matched
  <1> QED
    BY <1>3, <1>4, <1>5 DEF BalanceInv

\* Steps that leave the migrations alone.
LEMMA BalanceStays ==
  ASSUME BalanceInv, UNCHANGED <<schema, open, lockedBy, mig>>
  PROVE  BalanceInv'
  <1>1. RunsInv' /\ Matched(schema)'
    BY DEF BalanceInv, RunsInv, Matched
  <1>2. lockedBy # "none" => Balanced(lockedBy)'
    <2>1. lockedBy # "none" => Balanced(lockedBy)
      BY DEF BalanceInv
    <2>2. UNCHANGED <<open, lockedBy, mig>>
      OBVIOUS
    <2> QED
      BY <2>1, <2>2, OtherBalanced, ZenonT(30) DEF Balanced, NextVersion
  <1> QED
    BY <1>1, <1>2 DEF BalanceInv

-----------------------------------------------------------------------------
\* A Down under unknown versions is a Down.
Flags == reverted \in BOOLEAN /\ cut \in BOOLEAN /\ (cut => reverted) /\ started \subseteq Migrators

SchemaInv == BalanceInv /\ Flags /\ (~cut => MigrateInv)

LEMMA SchemaStart == MigrateInit => SchemaInv
  <1> SUFFICES ASSUME MigrateInit PROVE SchemaInv
    OBVIOUS
  <1>1. MigrateInv
    BY MigrateStart
  <1>2. RunsInv
    BY <1>1, InvParts
  <1>3. Matched(schema) /\ lockedBy = "none"
    BY DEF MigrateInit, Matched
  <1> QED
    BY <1>1, <1>2, <1>3, Zenon DEF SchemaInv, BalanceInv, Flags, MigrateInit, MigrateInv

\* A run that leaves no gap ends what a Down under unknown versions began: what
\* it commits is whole, and all of it if no Down counts any more.
LEMMA ClosesWhole ==
  ASSUME SchemaInv, cut, NEW p \in Migrators, MigrateCloses(p), ~cut'
  PROVE  MigrateInv'
  <1>1. BalanceInv' /\ lockedBy' = "none" /\ schema' = open /\ started' = started
    BY ClosesBalances, Zenon DEF SchemaInv, MigrateCloses
  <1>2. Matched(open)
    BY BalanceHolder DEF SchemaInv, MigrateCloses, Balanced
  <1>3. PICK s \in 0..NewestRelease : open.versions = 1..s
    <2>1. open.versions = 1..Highest(open.versions)
      BY Zenon DEF MigrateCloses
    <2>2. Highest(open.versions) \in 0..NewestRelease
      BY <1>2, HighestIs DEF Matched
    <2> QED
      BY <2>1, <2>2, Zenon
  <1>4. open = Whole(s)
    BY <1>2, <1>3 DEF Matched, Whole
  <1>5. reverted' \in BOOLEAN /\ (~reverted' => open.versions = 1..NewestRelease)
    BY Zenon DEF MigrateCloses, SchemaInv, Flags
  <1>6. ASSUME ~reverted', NEW q \in started PROVE Latest[q] <= s
    <2>1. Latest[q] \in 0..NewestRelease /\ NewestRelease \in Nat /\ s \in Nat
      BY NewestFacts DEF SchemaInv, Flags
    <2>2. 1..NewestRelease \subseteq 1..s
      BY <1>3, <1>5, <1>6, Zenon
    <2>3. NewestRelease <= s
      BY <2>1, <2>2, FirstsDiffer
    <2> QED
      BY <2>1, <2>3
  <1>7. Committed(s)'
    BY <1>1, <1>4, <1>6 DEF Committed, Whole
  <1> QED
    BY <1>1, <1>5, <1>7 DEF MigrateInv, BalanceInv, RunsInv, SchemaInv, Flags

LEMMA ReadsFlags == ASSUME Flags, NEW p \in Migrators, MigrateReads(p) PROVE Flags'
  BY Zenon DEF Flags, MigrateReads

\* The newest version with all before it is no gap.
LEMMA ClosesFlags == ASSUME Flags, NEW p \in Migrators, MigrateCloses(p) PROVE Flags'
  <1>1. Highest(1..NewestRelease) = NewestRelease
    BY HighestOfFirst, NewestFacts
  <1> QED
    BY <1>1, Zenon DEF Flags, MigrateCloses

LEMMA StepKept == ASSUME SchemaInv, NEW p \in Migrators,
                         \/ MigrateCalled(p) \/ MigrateLocks(p) \/ MigrateReads(p)
                         \/ ApplyStarts(p) \/ ApplyEnds(p) \/ ApplyFails(p) \/ MigrateCloses(p)
                         \/ MigratorDies(p) \/ ReleaseStarts(p)
                  PROVE  SchemaInv'
  <1>1. CASE MigrateCalled(p)
    BY <1>1, CalledBalances, CalledKeeps, Zenon DEF SchemaInv, Flags, MigrateCalled
  <1>2. CASE MigrateLocks(p)
    BY <1>2, LocksBalances, LocksKeeps, Zenon DEF SchemaInv, Flags, MigrateLocks
  <1>3. CASE MigrateReads(p)
    <2>1. ~cut' => ~cut
      BY <1>3, Zenon DEF MigrateReads
    <2> QED
      BY <1>3, <2>1, ReadsBalances, ReadsFlags, ReadsKeeps, Zenon DEF SchemaInv
  <1>4. CASE ApplyStarts(p)
    BY <1>4, StartsBalances, StartsKeeps, Zenon DEF SchemaInv, Flags, ApplyStarts
  <1>5. CASE ApplyEnds(p)
    BY <1>5, EndsBalances, EndsKeeps, Zenon DEF SchemaInv, Flags, ApplyEnds
  <1>6. CASE ApplyFails(p)
    BY <1>6, FailsBalances, FailsKeeps, Zenon DEF SchemaInv, Flags, ApplyFails
  <1>7. CASE MigrateCloses(p)
    BY <1>7, ClosesBalances, ClosesFlags, ClosesKeeps, ClosesWhole, Zenon DEF SchemaInv
  <1>8. CASE MigratorDies(p)
    BY <1>8, DiesBalances, DiesKeeps, Zenon DEF SchemaInv, Flags, MigratorDies
  <1>9. CASE ReleaseStarts(p)
    <2>1. UNCHANGED <<schema, open, lockedBy, mig>> /\ Flags'
      BY <1>9, Zenon DEF SchemaInv, Flags, ReleaseStarts
    <2> QED
      BY <1>9, <2>1, BalanceStays, StartKeeps, Zenon DEF SchemaInv, ReleaseStarts
  <1> QED
    BY <1>1, <1>2, <1>3, <1>4, <1>5, <1>6, <1>7, <1>8, <1>9

LEMMA SchemaStutters == ASSUME SchemaInv, UNCHANGED migrateVars PROVE SchemaInv'
  <1>1. Flags' /\ UNCHANGED <<schema, open, lockedBy, mig, cut>>
    BY DEF SchemaInv, Flags, migrateVars
  <1> QED
    BY <1>1, BalanceStays, MigrateStutters, Zenon DEF SchemaInv

LEMMA SchemaImplies == SchemaInv => SchemaWhole
  <1> SUFFICES ASSUME SchemaInv PROVE SchemaWhole
    OBVIOUS
  <1>0. schema.scripts = schema.versions /\ (~reverted => ~cut)
    BY DEF SchemaInv, BalanceInv, Matched, Flags
  <1> SUFFICES ASSUME ~cut, MigrateInv
               PROVE  /\ schema.versions = 1 .. Highest(schema.versions) /\ VersionReported
                      /\ ~reverted => \A p \in started : 1 .. Latest[p] \subseteq schema.scripts
    BY <1>0, Zenon DEF SchemaWhole, SchemaInv
  <1>1. PICK s \in 0..NewestRelease : Committed(s)
    BY DEF MigrateInv
  <1>2. Highest(schema.versions) = s /\ schema.versions = 1..s /\ schema.scripts = 1..s
    BY <1>1, HighestOfFirst, NewestFacts DEF Committed, Whole
  <1>3. ASSUME NEW p \in Migrators, mig[p].pc = "apply" PROVE mig[p].version = Highest(open.versions)
    <2>1. PICK k \in 0..NewestRelease : HolderSees(mig[p], k)
      BY <1>3, InsideHolds
    <2>2. mig[p].version = k /\ open.versions = 1..k
      BY <1>3, <2>1 DEF HolderSees, Whole
    <2> QED
      BY <2>2, HighestOfFirst, NewestFacts
  <1>4. ASSUME ~reverted, NEW p \in started PROVE 1..Latest[p] \subseteq schema.scripts
    <2>1. Latest[p] <= s /\ Latest[p] \in Nat /\ s \in Nat
      BY <1>1, <1>4, MigrateAssumption, NewestFacts DEF Committed, MigrateInv
    <2> QED
      BY <1>2, <2>1
  <1> QED
    BY <1>2, <1>3, <1>4 DEF VersionReported

\* Whatever processes, of whatever releases, migrate up and down at once on
\* either engine, fail in the middle of a version or die: the committed schema
\* has the objects of exactly the versions it records.  Until a release reverts
\* under versions it does not know, and again once a run has left no gap, these
\* are the first versions and a run that ended well reports the one it left.  A
\* client that started keeps the objects of its release until a Down takes them
\* (run in hoppermigrate.go, the drivers' Apply and Close, checkSchema in
\* client.go).
THEOREM SchemaKept == MigrateSpec => []SchemaWhole
  <1>1. SchemaInv /\ [MigrateNext]_migrateVars => SchemaInv'
    <2> SUFFICES ASSUME SchemaInv, [MigrateNext]_migrateVars PROVE SchemaInv'
      OBVIOUS
    <2>1. CASE MigrateNext
      BY <2>1, StepKept DEF MigrateNext
    <2> QED
      BY <2>1, SchemaStutters
  <1> QED
    BY <1>1, SchemaStart, SchemaImplies, PTL DEF MigrateSpec
=============================================================================
