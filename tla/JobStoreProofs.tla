--------------------------- MODULE JobStoreProofs ---------------------------
(***************************************************************************)
(* Proofs about JobStore for any set of jobs, any clients and any bounds:   *)
(* that its rows are well formed and its claims sound, that finished jobs   *)
(* stay finished and that wakes are honored.                                *)
(***************************************************************************)
EXTENDS JobStore, TLAPS

\* The time a prover may take on a leaf that names none, on a loaded machine too.
USE SMTT(30), ZenonT(30)

(* A row stays a row when its columns get values of their types. *)
LEMMA InsertedTyped ==
    ASSUME NEW r \in Row, NEW st \in States, NEW m \in Nat, NEW t \in Time, NEW e \in Time \cup {NoTime}, NEW q \in Nat
    PROVE  [r EXCEPT !.state = st, !.maxAttempts = m, !.scheduledAt = t, !.expiresAt = e, !.seq = q] \in Row
BY Zenon DEF Row

LEMMA FinishedTyped ==
    ASSUME NEW r \in Row, AbsentRow \in Row, NEW st \in States
    PROVE  FinishedRow(r, st) \in Row
<1>1. r.attempt \in Int /\ r.maxAttempts \in Nat /\ r.fence \in Fence
  BY Zenon DEF Row
<1>2. [AbsentRow EXCEPT !.state = st, !.fence = r.fence] \in Row
  BY <1>1, Zenon DEF Row
<1>3. [AbsentRow EXCEPT !.state = st, !.attempt = r.attempt, !.maxAttempts = r.maxAttempts, !.fence = r.fence] \in Row
  BY <1>1, Zenon DEF Row
<1> QED BY <1>2, <1>3, Zenon DEF FinishedRow

(* Every row an operation writes is a row of the table. *)
LEMMA RowTypes ==
    ASSUME TypeOK, NEW j \in Jobs
    PROVE  /\ jobs[j] \in Row
           /\ AbsentRow \in Row
           /\ \A st \in Terminal \cup {"deleted"} : FinishedRow(jobs[j], st) \in Row
           /\ \A m \in AttemptChoices, d \in Delays, ttl \in TTLs : InsertedRow(m, d, ttl) \in Row
           /\ \A m \in AttemptChoices, d \in Delays : ReplacedRow(jobs[j], m, d) \in Row
           /\ RunNow(jobs[j]) \in Row
           /\ [RunNow(jobs[j]) EXCEPT !.expiresAt = NoTime] \in Row
           /\ MarkedRow(jobs[j]) \in Row
           /\ RetriedRow(j) \in Row
           /\ \A r \in Result : FinalizedRow(j, r) \in Row
           /\ LapsedRow(jobs[j]) \in Row
           /\ CanceledRow(jobs[j]) \in Row
           /\ jobs[j].fence < MaxFence => \A c \in Clients \cup {NoClient} : ClaimedRow(jobs[j], c) \in Row
<1> USE JobStoreAssumption DEF Row, States, Live, Waiting, Terminal, Time, Fence, NoTime
<1>1. jobs[j] \in Row /\ now \in Nat /\ nextSeq \in Nat
  BY DEF TypeOK
<1>2. AbsentRow \in Row
  BY DEF AbsentRow
<1>3. ASSUME NEW st \in Terminal \cup {"deleted"} PROVE FinishedRow(jobs[j], st) \in Row
  <2> HIDE DEF Row, States
  <2>1. st \in States
    BY <1>3, Zenon DEF States
  <2> QED BY <1>1, <1>2, <2>1, FinishedTyped, Zenon
<1>4. ASSUME NEW m \in AttemptChoices, NEW d \in Delays, NEW ttl \in TTLs PROVE InsertedRow(m, d, ttl) \in Row
  <2>1. now + d \in Nat /\ Deadline(ttl) \in Time \cup {NoTime} /\ m \in Nat
    BY <1>1, <1>4 DEF Deadline
  <2>2. StateAt(now + d) \in States
    BY Zenon DEF StateAt
  <2> HIDE DEF Row, States, Time
  <2>3. now + d \in Time
    BY <2>1, Zenon DEF Time
  <2> QED BY <1>1, <1>2, <2>1, <2>2, <2>3, InsertedTyped, Zenon DEF InsertedRow
<1>4a. ASSUME NEW m \in AttemptChoices, NEW d \in Delays PROVE ReplacedRow(jobs[j], m, d) \in Row
  <2>1. now + d \in Nat /\ m \in Nat
    BY <1>1, <1>4a
  <2>2. StateAt(now + d) \in States
    BY Zenon DEF StateAt
  <2> QED BY <1>1, <2>1, <2>2, ZenonT(30) DEF ReplacedRow
<1>5. RunNow(jobs[j]) \in Row
  <2>1. Earlier(jobs[j].scheduledAt, now) \in Time
    BY <1>1, Zenon DEF Earlier
  <2> QED BY <1>1, <2>1, Zenon DEF RunNow
<1>5a. [RunNow(jobs[j]) EXCEPT !.expiresAt = NoTime] \in Row
  BY <1>5, Zenon
<1>5b. MarkedRow(jobs[j]) \in Row
  BY <1>1, Zenon DEF MarkedRow
<1>6. RetriedRow(j) \in Row
  <2>1. AttemptsAllowed(jobs[j]) \in Nat
    BY <1>1 DEF AttemptsAllowed
  <2> QED BY <1>1, <2>1, Zenon DEF RetriedRow
<1>7. ASSUME NEW r \in Result PROVE FinalizedRow(j, r) \in Row
  <2>1. CASE r.state \in Terminal \cup {"deleted"}
    BY <1>3, <2>1, Zenon DEF FinalizedRow
  <2>2. CASE r.state \notin Terminal \cup {"deleted"}
    <3>1. r.delay \in Nat /\ r.state \in {"retryable", "scheduled"}
      <4>1. r.delay \in Delays \cup {0} /\ r.state \in Terminal \cup {"deleted", "retryable", "scheduled"}
        BY Zenon DEF Result
      <4>2. r.delay \in Nat
        BY <4>1, 0 \in Nat, Zenon
      <4>3. r.state \in {"retryable", "scheduled"}
        BY <2>2, <4>1, Zenon
      <4> QED BY <4>2, <4>3, Zenon
    <3>2. DueAt(j, r.delay) \in Time
      BY <1>1, <3>1 DEF DueAt
    <3>3. AttemptAfter(j, r.back) \in Int
      BY <1>1 DEF AttemptAfter
    <3> QED BY <1>1, <2>2, <3>1, <3>2, <3>3, ZenonT(30) DEF FinalizedRow
  <2> QED BY <2>1, <2>2, Zenon
<1>8. LapsedRow(jobs[j]) \in Row
  <2>1. [jobs[j] EXCEPT !.state = "retryable", !.scheduledAt = now, !.wakeRequestedAt = NoTime] \in Row
    BY <1>1, Zenon
  <2>2. FinishedRow(jobs[j], "canceled") \in Row /\ FinishedRow(jobs[j], "discarded") \in Row
    BY <1>3, Zenon
  <2> HIDE DEF Row
  <2> QED BY <2>1, <2>2, Zenon DEF LapsedRow
<1>9. CanceledRow(jobs[j]) \in Row
  <2>1. [jobs[j] EXCEPT !.cancelRequested = TRUE] \in Row
    BY <1>1, Zenon
  <2>2. FinishedRow(jobs[j], "canceled") \in Row
    BY <1>3, Zenon
  <2> HIDE DEF Row
  <2> QED BY <2>1, <2>2, Zenon DEF CanceledRow
<1>10. ASSUME jobs[j].fence < MaxFence, NEW c \in Clients \cup {NoClient} PROVE ClaimedRow(jobs[j], c) \in Row
  <2>1. jobs[j].fence + 1 \in Fence /\ jobs[j].attempt + 1 \in Int
    BY <1>1, <1>10
  <2> QED BY <1>1, <2>1, Zenon DEF ClaimedRow
<1> QED BY <1>1, <1>2, <1>3, <1>4, <1>4a, <1>5, <1>5a, <1>5b, <1>6, <1>7, <1>8, <1>9, <1>10, Zenon

LEMMA TypeInit == Init => TypeOK
<1> SUFFICES ASSUME Init PROVE TypeOK
  BY Zenon
<1>1. AbsentRow \in Row
  BY JobStoreAssumption DEF AbsentRow, Row, States, Live, Waiting, Terminal, Time, Fence, NoTime
<1>2. NoLease \in LeaseRow
  BY JobStoreAssumption DEF NoLease, LeaseRow, Time, Fence
<1> QED BY <1>1, <1>2, JobStoreAssumption DEF Init, TypeOK, ClientRow, Claim, Time

(* The lease rows and the claims that operations record have their types. *)
LEMMA RecordTypes ==
    ASSUME TypeOK, NEW j \in Jobs
    PROVE  /\ NoLease \in LeaseRow
           /\ \A f \in Fence : LeaseAt(f) \in LeaseRow
           /\ CurrentClaim(j) \in Claim
           /\ jobs[j].fence < MaxFence => \A c \in Clients \cup {NoClient} : ClaimOf(j, c) \in Claim
<1>1. jobs[j] \in Row /\ now \in Nat
  BY JobStoreAssumption DEF TypeOK
<1>2. NoLease \in LeaseRow
  BY JobStoreAssumption DEF NoLease, LeaseRow, Time, Fence
<1>3. ASSUME NEW f \in Fence PROVE LeaseAt(f) \in LeaseRow
  BY <1>1, JobStoreAssumption DEF LeaseAt, LeaseRow, Time
<1>4. CurrentClaim(j) \in Claim
  BY <1>1, Zenon DEF CurrentClaim, Claim, Row
<1>5. ASSUME jobs[j].fence < MaxFence, NEW c \in Clients \cup {NoClient} PROVE ClaimOf(j, c) \in Claim
  <2>1. jobs[j].fence + 1 \in Fence /\ jobs[j].attempt + 1 \in Int /\ jobs[j].maxAttempts \in Nat
    BY <1>1, <1>5, JobStoreAssumption DEF Row, Fence
  <2> QED BY <2>1, Zenon DEF ClaimOf, Claim
<1> QED BY <1>2, <1>3, <1>4, <1>5, Zenon

(* CountResult keeps the type of results. *)
LEMMA CountType ==
    ASSUME TypeOK, NEW j \in Jobs, NEW f \in Fence, CountResult(j, f)
    PROVE  results' \in [Jobs -> [Fence -> Nat]]
<1>1. results[j] \in [Fence -> Nat] /\ results[j][f] + 1 \in Nat
  BY DEF TypeOK
<1> QED BY <1>1, Zenon DEF TypeOK, CountResult

(* Every action preserves the type invariant. *)
LEMMA TypeNext == TypeOK /\ [Next]_vars => TypeOK'
<1> SUFFICES ASSUME TypeOK, [Next]_vars PROVE TypeOK'
  BY Zenon
<1>j. \A j \in Jobs : jobs[j] \in Row
  BY Zenon DEF TypeOK
<1>1. ASSUME NEW j \in Jobs, NEW m \in AttemptChoices, NEW d \in Delays, NEW ttl \in TTLs, JobInsert(j, m, d, ttl) PROVE TypeOK'
  <2>1. InsertedRow(m, d, ttl) \in Row
    BY <1>1, RowTypes, Zenon
  <2>2. nextSeq' \in Nat
    BY <1>1 DEF TypeOK, JobInsert
  <2> QED BY <1>1, <2>1, <2>2, Zenon DEF TypeOK, JobInsert
<1>2. ASSUME NEW j \in Jobs, NEW m \in AttemptChoices, NEW d \in Delays, JobReplace(j, m, d) PROVE TypeOK'
  BY <1>2, RowTypes, Zenon DEF TypeOK, JobReplace
<1>3. ASSUME NEW c \in Clients, NEW S \in SUBSET Jobs, JobClaim(c, S) PROVE TypeOK'
  <2>1. \A j \in S : ClaimOf(j, c) \in Claim /\ ClaimedRow(jobs[j], c) \in Row
    BY <1>3, RowTypes, RecordTypes, Zenon DEF JobClaim
  <2>2. jobs' \in [Jobs -> Row]
    BY <1>3, <1>j, <2>1, Zenon DEF JobClaim
  <2>3. claims' \subseteq Claim
    BY <1>3, <2>1, Zenon DEF JobClaim, TypeOK
  <2> QED BY <1>3, <2>2, <2>3, Zenon DEF TypeOK, JobClaim
<1>4. ASSUME NEW j \in Jobs, NEW f \in Fence, JobClaimByID(j, f) PROVE TypeOK'
  <2>1. f + 1 \in Fence
    BY <1>4, JobStoreAssumption DEF JobClaimByID, Fence
  <2> QED BY <1>4, <2>1, RowTypes, RecordTypes, Zenon DEF TypeOK, JobClaimByID
<1>5. ASSUME NEW cl \in claims, NEW r \in Result, JobFinalize(cl, r) PROVE TypeOK'
  BY <1>5, RowTypes, CountType, Zenon DEF TypeOK, JobFinalize, Claim
<1>6. ASSUME NEW cl \in claims, NEW r \in Result, LeaseFinish(cl, r) PROVE TypeOK'
  BY <1>6, RowTypes, CountType, RecordTypes, Zenon DEF TypeOK, LeaseFinish, Claim
<1>7. ASSUME NEW cl \in claims, JobLeaseRenew(cl) PROVE TypeOK'
  BY <1>7, RecordTypes, Zenon DEF TypeOK, JobLeaseRenew, Claim
<1>8. ASSUME NEW j \in Jobs, JobRescueCandidates(j) PROVE TypeOK'
  <2>1. [claim |-> CurrentClaim(j), stuck |-> Stuck(j)] \in [claim : Claim, stuck : BOOLEAN]
    BY RecordTypes, Zenon DEF Stuck
  <2> QED BY <1>8, <2>1, Zenon DEF TypeOK, JobRescueCandidates
<1>9. ASSUME NEW cand \in lost, Rescue(cand.claim) PROVE TypeOK'
  <2>1. cand.claim \in Claim
    BY Zenon DEF TypeOK
  <2>2. RescueResult(cand.claim) \in Result
    BY Zenon DEF RescueResult, Result, Terminal
  <2> QED BY <1>9, <2>1, <2>2, RowTypes, CountType, Zenon DEF TypeOK, Rescue, Claim
<1>10. ASSUME NEW c \in Clients, NEW j \in Jobs, JobExpireLease(c, j) PROVE TypeOK'
  <2>1. leases[j].fence \in Fence
    BY Zenon DEF TypeOK, LeaseRow
  <2> QED BY <1>10, <2>1, RowTypes, CountType, RecordTypes, Zenon DEF TypeOK, JobExpireLease
<1>11. ASSUME NEW j \in Jobs, JobDiscardExpired(j) PROVE TypeOK'
  BY <1>11, RowTypes, Zenon DEF TypeOK, JobDiscardExpired, Terminal
<1>12. ASSUME NEW j \in Jobs, JobCancel(j) PROVE TypeOK'
  BY <1>12, RowTypes, Zenon DEF TypeOK, JobCancel
<1>13. ASSUME NEW j \in Jobs, JobDelete(j) PROVE TypeOK'
  BY <1>13, RowTypes, Zenon DEF TypeOK, JobDelete
<1>14. ASSUME NEW j \in Jobs, JobRetryHistory(j) PROVE TypeOK'
  <2>1. RetriedRow(j) \in Row
    BY <1>14, RowTypes, Zenon
  <2>2. nextSeq' \in Nat
    BY <1>14 DEF TypeOK, JobRetryHistory
  <2> QED BY <1>14, <2>1, <2>2, Zenon DEF TypeOK, JobRetryHistory
<1>15. ASSUME NEW j \in Jobs, JobRetryLive(j) PROVE TypeOK'
  BY <1>15, RowTypes, Zenon DEF TypeOK, JobRetryLive
<1>16. ASSUME NEW key \in {OrderingKey[j] : j \in Jobs}, JobRetryOrderingKey(key) PROVE TypeOK'
  BY <1>16, RowTypes, Zenon DEF TypeOK, JobRetryOrderingKey
<1>17. ASSUME NEW c \in Clients, ClientRegister(c) PROVE TypeOK'
  <2>1. clients' \in [Clients -> ClientRow]
    BY <1>17, JobStoreAssumption DEF TypeOK, ClientRegister, ClientRow, Time
  <2> QED BY <1>17, <2>1, Zenon DEF TypeOK, ClientRegister
<1>18. ASSUME NEW c \in Clients, ClientRenew(c) PROVE TypeOK'
  <2>1. clients' \in [Clients -> ClientRow]
    BY <1>18, JobStoreAssumption DEF TypeOK, ClientRenew, ClientRow, Time
  <2> QED BY <1>18, <2>1, Zenon DEF TypeOK, ClientRenew
<1>19. ASSUME NEW c \in Clients, ClientDelete(c) PROVE TypeOK'
  <2>1. clients' \in [Clients -> ClientRow]
    BY <1>19, Zenon DEF TypeOK, ClientDelete, RemovedClient, ClientRow, Time
  <2> QED BY <1>19, <2>1, Zenon DEF TypeOK, ClientDelete
<1>20. CASE ClientPruneExpired
  <2>1. clients' \in [Clients -> ClientRow]
    BY <1>20, Zenon DEF TypeOK, ClientPruneExpired, RemovedClient, ClientRow, Time
  <2> QED BY <1>20, <2>1, Zenon DEF TypeOK, ClientPruneExpired
<1>21. CASE Tick
  BY <1>21, JobStoreAssumption DEF TypeOK, Tick
<1>22. CASE UNCHANGED vars
  BY <1>22, Zenon DEF TypeOK, vars
<1> QED BY Zenon, <1>1, <1>2, <1>3, <1>4, <1>5, <1>6, <1>7, <1>8, <1>9, <1>10, <1>11, <1>12, <1>13, <1>14, <1>15, <1>16,
           <1>17, <1>18, <1>19, <1>20, <1>21, <1>22 DEF Next

(* Every reachable state has its type. *)
THEOREM TypeCorrect == Spec => []TypeOK
  BY TypeInit, TypeNext, PTL DEF Spec
-----------------------------------------------------------------------------
(* What each row an operation writes says of its claim. *)
LEMMA RowClaims ==
    ASSUME TypeOK, NEW j \in Jobs
    PROVE  /\ \A st \in Terminal \cup {"deleted"} :
                 FinishedRow(jobs[j], st).state = st /\ FinishedRow(jobs[j], st).fence = jobs[j].fence
           /\ \A m, d, ttl : InsertedRow(m, d, ttl).state \notin {"running", "absent"} /\ InsertedRow(m, d, ttl).fence = 0
           /\ \A m, d : ReplacedRow(jobs[j], m, d).state \notin {"running", "absent"} /\ ReplacedRow(jobs[j], m, d).fence = jobs[j].fence
           /\ RunNow(jobs[j]).state = "available" /\ RunNow(jobs[j]).fence = jobs[j].fence
           /\ MarkedRow(jobs[j]).state = jobs[j].state /\ MarkedRow(jobs[j]).fence = jobs[j].fence
           /\ RetriedRow(j).state = "available" /\ RetriedRow(j).fence = jobs[j].fence
           /\ \A r \in Result : FinalizedRow(j, r).state \notin {"running", "absent"} /\ FinalizedRow(j, r).fence = jobs[j].fence
           /\ LapsedRow(jobs[j]).state \notin {"running", "absent"} /\ LapsedRow(jobs[j]).fence = jobs[j].fence
           /\ CanceledRow(jobs[j]).fence = jobs[j].fence
           /\ (CanceledRow(jobs[j]).state = "running") = IsRunning(j)
           /\ CanceledRow(jobs[j]).state # "absent"
           /\ \A c : ClaimedRow(jobs[j], c).state = "running" /\ ClaimedRow(jobs[j], c).fence = jobs[j].fence + 1
<1> USE DEF Row, Terminal
<1>1. jobs[j] \in Row
  BY Zenon DEF TypeOK
<1>2. \A st \in Terminal \cup {"deleted"} :
        FinishedRow(jobs[j], st).state = st /\ FinishedRow(jobs[j], st).fence = jobs[j].fence
  BY <1>1, Zenon DEF FinishedRow, AbsentRow
<1>3. \A m, d, ttl : InsertedRow(m, d, ttl).state \notin {"running", "absent"} /\ InsertedRow(m, d, ttl).fence = 0
  BY Zenon DEF InsertedRow, AbsentRow, StateAt
<1>4. \A m, d : ReplacedRow(jobs[j], m, d).state \notin {"running", "absent"} /\ ReplacedRow(jobs[j], m, d).fence = jobs[j].fence
  BY <1>1, Zenon DEF ReplacedRow, StateAt
<1>5. RunNow(jobs[j]).state = "available" /\ RunNow(jobs[j]).fence = jobs[j].fence
  BY <1>1, Zenon DEF RunNow
<1>6. MarkedRow(jobs[j]).state = jobs[j].state /\ MarkedRow(jobs[j]).fence = jobs[j].fence
  BY <1>1, Zenon DEF MarkedRow
<1>7. RetriedRow(j).state = "available" /\ RetriedRow(j).fence = jobs[j].fence
  BY <1>1, Zenon DEF RetriedRow
<1>8. \A r \in Result : FinalizedRow(j, r).state \notin {"running", "absent"} /\ FinalizedRow(j, r).fence = jobs[j].fence
  BY <1>1, <1>2, Zenon DEF FinalizedRow, Result
<1>9. LapsedRow(jobs[j]).state \notin {"running", "absent"} /\ LapsedRow(jobs[j]).fence = jobs[j].fence
  BY <1>1, <1>2 DEF LapsedRow
<1>10. CanceledRow(jobs[j]).fence = jobs[j].fence /\ (CanceledRow(jobs[j]).state = "running") = IsRunning(j)
         /\ CanceledRow(jobs[j]).state # "absent"
  BY <1>1, <1>2, Zenon DEF CanceledRow, IsRunning
<1>11. \A c : ClaimedRow(jobs[j], c).state = "running" /\ ClaimedRow(jobs[j], c).fence = jobs[j].fence + 1
  BY <1>1, Zenon DEF ClaimedRow
<1> QED BY <1>2, <1>3, <1>4, <1>5, <1>6, <1>7, <1>8, <1>9, <1>10, <1>11

(* A job that has not been inserted has not been claimed. *)
AbsentUnclaimed == \A j \in Jobs : jobs[j].state = "absent" => jobs[j].fence = 0

LEMMA AbsentNext == TypeOK /\ AbsentUnclaimed /\ [Next]_vars => AbsentUnclaimed'
<1> SUFFICES ASSUME TypeOK, AbsentUnclaimed, [Next]_vars PROVE AbsentUnclaimed'
  BY Zenon
<1>j. jobs = [j \in Jobs |-> jobs[j]] /\ \A k \in Terminal \cup {"deleted"} : k # "absent"
  BY Zenon DEF TypeOK, Terminal
<1>1. ASSUME NEW j \in Jobs, jobs'[j].state = "absent" PROVE jobs'[j] = jobs[j]
  <2>1. CASE jobs' = jobs
    BY <2>1, Zenon
  <2>2. CASE \E k \in Jobs : \E row : jobs' = [jobs EXCEPT ![k] = row] /\ row.state # "absent"
    BY <1>1, <1>j, <2>2, Zenon
  <2>3. CASE \E c \in Clients, S \in SUBSET Jobs : JobClaim(c, S)
    <3>1. PICK c \in Clients, S \in SUBSET Jobs : JobClaim(c, S)
      BY <2>3, Zenon
    <3>2. jobs'[j] = IF j \in S THEN ClaimedRow(jobs[j], c) ELSE jobs[j]
      BY <3>1, Zenon DEF JobClaim
    <3>3. ClaimedRow(jobs[j], c).state = "running"
      BY RowClaims, Zenon
    <3> QED BY <1>1, <3>2, <3>3, Zenon
  <2>4. CASE \E key : JobRetryOrderingKey(key)
    BY <1>1, <2>4, RowClaims DEF JobRetryOrderingKey, IsRunning
  <2>5. ASSUME NEW cl \in claims, NEW r \in Result, JobFinalize(cl, r) \/ LeaseFinish(cl, r)
        PROVE  \E k \in Jobs : \E row : jobs' = [jobs EXCEPT ![k] = row] /\ row.state # "absent"
    BY <2>5, RowClaims, SMTT(30) DEF JobFinalize, LeaseFinish, TypeOK, Claim
  <2>6. ASSUME NEW cand \in lost, Rescue(cand.claim)
        PROVE  \E k \in Jobs : \E row : jobs' = [jobs EXCEPT ![k] = row] /\ row.state # "absent"
    <3>1. RescueResult(cand.claim) \in Result /\ cand.claim.job \in Jobs
      BY Zenon DEF RescueResult, Result, Terminal, TypeOK, Claim
    <3>2. FinalizedRow(cand.claim.job, RescueResult(cand.claim)).state # "absent"
      BY <3>1, RowClaims, Zenon
    <3> QED BY <2>6, <3>1, <3>2, Zenon DEF Rescue
  <2>7. ASSUME NEW k \in Jobs, JobDiscardExpired(k) \/ JobDelete(k) \/ JobCancel(k) \/ JobRetryHistory(k) \/ JobRetryLive(k)
        PROVE  \E row : jobs' = [jobs EXCEPT ![k] = row] /\ row.state # "absent"
    <3>1. [RunNow(jobs[k]) EXCEPT !.expiresAt = NoTime].state = "available"
      BY RowTypes, RowClaims DEF Row
    <3>a. FinishedRow(jobs[k], "discarded").state # "absent" /\ FinishedRow(jobs[k], "deleted").state # "absent"
      BY RowClaims DEF Terminal
    <3>2. CASE JobDiscardExpired(k)
      BY <3>2, <3>a, Zenon DEF JobDiscardExpired
    <3>3. CASE JobDelete(k)
      BY <3>3, <3>a, Zenon DEF JobDelete
    <3>4. CASE JobCancel(k)
      BY <3>4, RowClaims, ZenonT(30) DEF JobCancel
    <3>5. CASE JobRetryHistory(k)
      BY <3>5, RowClaims, Zenon DEF JobRetryHistory
    <3>6. CASE JobRetryLive(k)
      BY <3>1, <3>6, Zenon DEF JobRetryLive
    <3> QED BY <2>7, <3>2, <3>3, <3>4, <3>5, <3>6, Zenon
  <2>8. ASSUME NEW k \in Jobs, NEW m \in AttemptChoices, NEW d \in Delays, NEW ttl \in TTLs,
               JobInsert(k, m, d, ttl)
        PROVE  \E row : jobs' = [jobs EXCEPT ![k] = row] /\ row.state # "absent"
    <3>1. InsertedRow(m, d, ttl).state # "absent"
      BY RowClaims
    <3> QED BY <2>8, <3>1, Zenon DEF JobInsert
  <2>9. ASSUME NEW k \in Jobs, NEW m \in AttemptChoices, NEW d \in Delays, JobReplace(k, m, d)
        PROVE  \E row : jobs' = [jobs EXCEPT ![k] = row] /\ row.state # "absent"
    <3>1. ReplacedRow(jobs[k], m, d).state # "absent"
      BY RowClaims
    <3> QED BY <2>9, <3>1, Zenon DEF JobReplace
  <2>10. ASSUME NEW k \in Jobs, (\E f \in Fence : JobClaimByID(k, f)) \/ (\E c \in Clients : JobExpireLease(c, k))
        PROVE  \E row : jobs' = [jobs EXCEPT ![k] = row] /\ row.state # "absent"
    <3>1. ClaimedRow(jobs[k], NoClient).state # "absent" /\ LapsedRow(jobs[k]).state # "absent"
      BY RowClaims, Zenon
    <3> QED BY <2>10, <3>1, Zenon DEF JobClaimByID, JobExpireLease
  <2> QED BY <2>1, <2>2, <2>3, <2>4, <2>5, <2>6, <2>7, <2>8, <2>9, <2>10, Zenon
          DEF Next, vars, JobLeaseRenew, JobRescueCandidates, ClientRegister, ClientRenew, ClientDelete, ClientPruneExpired, Tick
<1> QED BY <1>1, Zenon DEF AbsentUnclaimed

(* A step that leaves every job's claim and the results alone is a stutter of the ledger. *)
LEMMA LedgerStutter ==
    ASSUME \A j \in Jobs : (jobs'[j].state = "running") = (jobs[j].state = "running") /\ jobs'[j].fence = jobs[j].fence,
           results' = results
    PROVE  UNCHANGED Ledger!ledger
  BY Zenon DEF Ledger!ledger, IsRunning

(* A step that ends the claim of one job and counts its result is a step of the ledger. *)
LEMMA LedgerEnd ==
    ASSUME TypeOK, NEW j \in Jobs, NEW f \in Fence,
           IsRunning(j), jobs[j].fence = f,
           \A k \in Jobs \ {j} : jobs'[k] = jobs[k],
           jobs'[j].state # "running", jobs'[j].fence = jobs[j].fence,
           CountResult(j, f)
    PROVE  Ledger!LedgerNext
<1>1. Ledger!End(j, f)
  BY Zenon DEF Ledger!End, CountResult, IsRunning, TypeOK
<1> QED BY <1>1, Zenon DEF Ledger!LedgerNext, Ledger!Fences, Fence

(* A step that claims the jobs of S is a step of the ledger. *)
LEMMA LedgerTake ==
    ASSUME TypeOK, NEW S \in SUBSET Jobs,
           \A j \in S : /\ ~IsRunning(j) /\ jobs[j].fence < MaxFence
                        /\ jobs'[j].state = "running" /\ jobs'[j].fence = jobs[j].fence + 1,
           \A k \in Jobs \ S : jobs'[k] = jobs[k],
           results' = results
    PROVE  Ledger!LedgerNext
<1>1. Ledger!Take(S)
  BY Zenon DEF Ledger!Take, IsRunning
<1> QED BY <1>1, Zenon DEF Ledger!LedgerNext

(* Every step of the store is one of these. *)
LEMMA LedgerStep == TypeOK /\ AbsentUnclaimed /\ [Next]_vars => [Ledger!LedgerNext]_(Ledger!ledger)
<1> SUFFICES ASSUME TypeOK, AbsentUnclaimed, [Next]_vars PROVE Ledger!LedgerNext \/ UNCHANGED Ledger!ledger
  BY Zenon
<1>j. jobs = [j \in Jobs |-> jobs[j]] /\ (\A j \in Jobs : jobs[j].fence \in Fence /\ leases[j].fence \in Fence)
  BY Zenon DEF TypeOK, Row, LeaseRow
<1> USE DEF IsRunning
<1>1. ASSUME NEW j \in Jobs, NEW m \in AttemptChoices, NEW d \in Delays, NEW ttl \in TTLs, JobInsert(j, m, d, ttl)
      PROVE  UNCHANGED Ledger!ledger
  BY <1>1, <1>j, RowClaims, LedgerStutter DEF JobInsert, AbsentUnclaimed
<1>2. ASSUME NEW j \in Jobs, NEW m \in AttemptChoices, NEW d \in Delays, JobReplace(j, m, d)
      PROVE  UNCHANGED Ledger!ledger
  BY <1>2, <1>j, RowClaims, LedgerStutter DEF JobReplace, IsWaiting, Waiting
<1>3. ASSUME NEW c \in Clients, NEW S \in SUBSET Jobs, JobClaim(c, S) PROVE Ledger!LedgerNext
  <2>1. \A j \in S : /\ ~IsRunning(j) /\ jobs[j].fence < MaxFence
                     /\ jobs'[j].state = "running" /\ jobs'[j].fence = jobs[j].fence + 1
    <3>1. \A j \in S : jobs'[j] = ClaimedRow(jobs[j], c)
      BY <1>3, Zenon DEF JobClaim
    <3>2. \A j \in S : ~IsRunning(j) /\ jobs[j].fence < MaxFence
      BY <1>3, Zenon DEF JobClaim, Claimable, IsWaiting, Waiting
    <3> QED BY <3>1, <3>2, RowClaims
  <2>2. (\A k \in Jobs \ S : jobs'[k] = jobs[k]) /\ results' = results
    BY <1>3, Zenon DEF JobClaim
  <2> QED BY <2>1, <2>2, LedgerTake, Zenon
<1>4. ASSUME NEW j \in Jobs, NEW f \in Fence, JobClaimByID(j, f) PROVE Ledger!LedgerNext
  <2>1. \A k \in {j} : ~IsRunning(k) /\ jobs[k].fence < MaxFence /\ jobs'[k].state = "running" /\ jobs'[k].fence = jobs[k].fence + 1
    BY <1>4, <1>j, RowClaims DEF JobClaimByID
  <2>2. (\A k \in Jobs \ {j} : jobs'[k] = jobs[k]) /\ results' = results
    BY <1>4, <1>j, Zenon DEF JobClaimByID
  <2>3. {j} \in SUBSET Jobs
    BY Zenon
  <2> HIDE DEF IsRunning
  <2> QED BY <2>1, <2>2, <2>3, LedgerTake, Zenon
<1>5. ASSUME NEW cl \in claims, NEW r \in Result, JobFinalize(cl, r) PROVE Ledger!LedgerNext
  BY <1>5, <1>j, RowClaims, LedgerEnd, Zenon DEF JobFinalize, ClientOwns, TypeOK, Claim
<1>6. ASSUME NEW cl \in claims, NEW r \in Result, LeaseFinish(cl, r) PROVE Ledger!LedgerNext
  BY <1>6, <1>j, RowClaims, LedgerEnd, Zenon DEF LeaseFinish, LeaseOwns, TypeOK, Claim
<1>7. ASSUME NEW cl \in claims, JobLeaseRenew(cl) PROVE UNCHANGED Ledger!ledger
  BY <1>7, LedgerStutter, SMTT(30) DEF JobLeaseRenew
<1>8. ASSUME NEW j \in Jobs, JobRescueCandidates(j) PROVE UNCHANGED Ledger!ledger
  BY <1>8, LedgerStutter, Zenon DEF JobRescueCandidates
<1>9. ASSUME NEW cand \in lost, Rescue(cand.claim) PROVE Ledger!LedgerNext
  <2>1. cand.claim.job \in Jobs /\ cand.claim.fence \in Fence
    BY Zenon DEF TypeOK, Claim
  <2>2. RescueResult(cand.claim) \in Result
    BY Zenon DEF RescueResult, Result, Terminal
  <2> QED BY <1>9, <1>j, <2>1, <2>2, RowClaims, LedgerEnd, Zenon DEF Rescue, ClientOwns
<1>10. ASSUME NEW c \in Clients, NEW j \in Jobs, JobExpireLease(c, j) PROVE Ledger!LedgerNext
  BY <1>10, <1>j, RowClaims, LedgerEnd, Zenon DEF JobExpireLease, LeaseDue
<1>11. ASSUME NEW j \in Jobs, JobDiscardExpired(j) PROVE UNCHANGED Ledger!ledger
  BY <1>11, <1>j, RowClaims, LedgerStutter DEF JobDiscardExpired, IsWaiting, Waiting, Terminal
<1>12. ASSUME NEW j \in Jobs, JobCancel(j) PROVE UNCHANGED Ledger!ledger
  BY <1>12, <1>j, RowClaims, LedgerStutter DEF JobCancel
<1>13. ASSUME NEW j \in Jobs, JobDelete(j) PROVE UNCHANGED Ledger!ledger
  BY <1>13, <1>j, RowClaims, LedgerStutter DEF JobDelete, IsWaiting, Waiting, Terminal
<1>14. ASSUME NEW j \in Jobs, JobRetryHistory(j) PROVE UNCHANGED Ledger!ledger
  BY <1>14, <1>j, RowClaims, LedgerStutter DEF JobRetryHistory, Terminal
<1>15. ASSUME NEW j \in Jobs, JobRetryLive(j) PROVE UNCHANGED Ledger!ledger
  BY <1>15, <1>j, RowClaims, LedgerStutter DEF JobRetryLive, IsWaiting, Waiting
<1>16. ASSUME NEW key \in {OrderingKey[j] : j \in Jobs}, JobRetryOrderingKey(key) PROVE UNCHANGED Ledger!ledger
  BY <1>16, <1>j, RowClaims, LedgerStutter, Zenon DEF JobRetryOrderingKey, OldestWakeable, Wakeable
<1>17. ASSUME NEW c \in Clients, ClientRegister(c) \/ ClientRenew(c) \/ ClientDelete(c) PROVE UNCHANGED Ledger!ledger
  BY <1>17, LedgerStutter, Zenon DEF ClientRegister, ClientRenew, ClientDelete
<1>18. CASE ClientPruneExpired \/ Tick \/ UNCHANGED vars
  BY <1>18, LedgerStutter, Zenon DEF ClientPruneExpired, Tick, vars
<1> QED BY Zenon, <1>1, <1>2, <1>3, <1>4, <1>5, <1>6, <1>7, <1>8, <1>9, <1>10, <1>11, <1>12, <1>13, <1>14, <1>15, <1>16,
           <1>17, <1>18 DEF Next

LEMMA LedgerStart == Init => Ledger!LedgerInit /\ AbsentUnclaimed
<1> SUFFICES ASSUME Init PROVE Ledger!LedgerInit /\ AbsentUnclaimed
  BY Zenon
<1>1. \A j \in Jobs : jobs[j].fence = 0 /\ jobs[j].state = "absent"
  BY Zenon DEF Init, AbsentRow
<1>2. results = [j \in Jobs |-> [f \in Ledger!Fences |-> 0]]
  BY Zenon DEF Init, Ledger!Fences, Fence
<1> QED BY <1>1, <1>2, Zenon DEF Ledger!LedgerInit, IsRunning, AbsentUnclaimed

(* The job store implements FencedClaims. *)
THEOREM LedgerKept == Spec => KeepsLedger
  BY LedgerStart, LedgerStep, AbsentNext, TypeCorrect, PTL DEF Spec, KeepsLedger, Ledger!LedgerSpec
-----------------------------------------------------------------------------
(* The claim a job runs in has had no result yet, and a fence that no claim has reached has none. *)
NoneYet ==
    \A j \in Jobs, f \in Fence :
        (IsRunning(j) /\ f = jobs[j].fence) \/ f > jobs[j].fence => results[j][f] = 0

LEMMA ResultsNext ==
    ASSUME TypeOK, TypeOK', AtMostOneResult, NoneYet, [Ledger!LedgerNext]_(Ledger!ledger)
    PROVE  AtMostOneResult' /\ NoneYet'
<1>t. /\ \A j \in Jobs : jobs[j].fence \in Fence /\ jobs'[j].fence \in Fence
      /\ results \in [Jobs -> [Fence -> Nat]]
      /\ \A f \in Fence : f \in Int
  <2>1. \A j \in Jobs : jobs[j].fence \in Fence /\ jobs'[j].fence \in Fence
    BY Zenon DEF TypeOK, Row
  <2>2. \A f \in Fence : f \in Int
    BY JobStoreAssumption DEF Fence
  <2> QED BY <2>1, <2>2, Zenon DEF TypeOK
<1>1. CASE UNCHANGED Ledger!ledger
  <2>1. results' = results /\ \A j \in Jobs : IsRunning(j)' = IsRunning(j) /\ jobs'[j].fence = jobs[j].fence
    BY <1>1, Zenon DEF Ledger!ledger
  <2> QED BY <2>1, Zenon DEF AtMostOneResult, NoneYet
<1>2. ASSUME NEW S \in SUBSET Jobs, Ledger!Take(S) PROVE AtMostOneResult' /\ NoneYet'
  <2>1. /\ results' = results
        /\ \A j \in Jobs : /\ j \in S => jobs'[j].fence = jobs[j].fence + 1
                           /\ j \notin S => jobs'[j].fence = jobs[j].fence /\ IsRunning(j)' = IsRunning(j)
    BY <1>2, Zenon DEF Ledger!Take, IsRunning
  <2>2. ASSUME NEW j \in Jobs, NEW f \in Fence, (IsRunning(j)' /\ f = jobs'[j].fence) \/ f > jobs'[j].fence
        PROVE  results[j][f] = 0
    <3>1. CASE j \in S
      <4>1. f > jobs[j].fence
        BY <1>t, <2>1, <2>2, <3>1
      <4> QED BY <4>1, Zenon DEF NoneYet
    <3>2. CASE j \notin S
      BY <2>1, <2>2, <3>2, Zenon DEF NoneYet
    <3> QED BY <3>1, <3>2, Zenon
  <2> QED BY <2>1, <2>2, Zenon DEF AtMostOneResult, NoneYet
<1>3. ASSUME NEW j \in Jobs, NEW f \in Fence, Ledger!End(j, f) PROVE AtMostOneResult' /\ NoneYet'
  <2>1. /\ IsRunning(j) /\ jobs[j].fence = f
        /\ \A k \in Jobs : jobs'[k].fence = jobs[k].fence
        /\ ~IsRunning(j)'
        /\ \A k \in Jobs \ {j} : IsRunning(k)' = IsRunning(k)
    BY <1>3, Zenon DEF Ledger!End, IsRunning
  <2>2. \A k \in Jobs, g \in Fence : results'[k][g] = IF k = j /\ g = f THEN results[k][g] + 1 ELSE results[k][g]
    BY <1>3, <1>t, Zenon DEF Ledger!End
  <2>3. results[j][f] = 0
    BY <2>1, Zenon DEF NoneYet
  <2> QED BY <1>t, <2>1, <2>2, <2>3 DEF AtMostOneResult, NoneYet
<1> QED BY <1>1, <1>2, <1>3, Zenon DEF Ledger!LedgerNext, Ledger!Fences, Fence

(* Of the results of one claim at most one is applied. *)
THEOREM ResultsOnce == Spec => []AtMostOneResult
<1>1. Init => AtMostOneResult /\ NoneYet
  BY DEF Init, AtMostOneResult, NoneYet
<1> QED BY <1>1, LedgerStart, LedgerStep, AbsentNext, ResultsNext, TypeCorrect, PTL DEF Spec

-----------------------------------------------------------------------------
(***************************************************************************)
(* Proofs that ordering keys and unique keys are kept, for any set of jobs, *)
(* any assignment of keys to them and any bounds.                           *)
(***************************************************************************)
(* Where each row an operation writes stands in its queue. *)
LEMMA RowPlaces ==
    ASSUME TypeOK, NEW j \in Jobs
    PROVE  /\ \A st \in Terminal \cup {"deleted"} : FinishedRow(jobs[j], st).state \notin Live
           /\ \A m, d, ttl : InsertedRow(m, d, ttl).state \in Waiting /\ InsertedRow(m, d, ttl).seq = nextSeq
           /\ \A m, d : ReplacedRow(jobs[j], m, d).seq = jobs[j].seq
           /\ RunNow(jobs[j]).seq = jobs[j].seq
           /\ [RunNow(jobs[j]) EXCEPT !.expiresAt = NoTime].seq = jobs[j].seq
           /\ [RunNow(jobs[j]) EXCEPT !.expiresAt = NoTime].state = "available"
           /\ MarkedRow(jobs[j]).seq = jobs[j].seq
           /\ RetriedRow(j).seq = nextSeq
           /\ \A r \in Result : FinalizedRow(j, r).state \in Live => FinalizedRow(j, r).seq = jobs[j].seq
           /\ LapsedRow(jobs[j]).state \in Live => LapsedRow(jobs[j]).seq = jobs[j].seq
           /\ CanceledRow(jobs[j]).state \in Live => CanceledRow(jobs[j]).seq = jobs[j].seq
           /\ \A c : ClaimedRow(jobs[j], c).seq = jobs[j].seq
<1> USE DEF Row, Terminal, Live, Waiting
<1>1. jobs[j] \in Row
  BY Zenon DEF TypeOK
<1>2. \A st \in Terminal \cup {"deleted"} : FinishedRow(jobs[j], st).state \notin Live
  BY RowClaims, Zenon
<1>3. \A m, d, ttl : InsertedRow(m, d, ttl).state \in Waiting /\ InsertedRow(m, d, ttl).seq = nextSeq
  BY ZenonT(30) DEF InsertedRow, AbsentRow, StateAt
<1>4. \A m, d : ReplacedRow(jobs[j], m, d).seq = jobs[j].seq
  BY <1>1, Zenon DEF ReplacedRow
<1>5. RunNow(jobs[j]).seq = jobs[j].seq /\ MarkedRow(jobs[j]).seq = jobs[j].seq /\ RetriedRow(j).seq = nextSeq
  BY <1>1, Zenon DEF RunNow, MarkedRow, RetriedRow
<1>6. /\ [RunNow(jobs[j]) EXCEPT !.expiresAt = NoTime].seq = jobs[j].seq
      /\ [RunNow(jobs[j]) EXCEPT !.expiresAt = NoTime].state = "available"
  BY <1>5, RowTypes, RowClaims
<1>7. \A r \in Result : FinalizedRow(j, r).state \in Live => FinalizedRow(j, r).seq = jobs[j].seq
  BY <1>1, <1>2, Zenon DEF FinalizedRow
<1>8. LapsedRow(jobs[j]).state \in Live => LapsedRow(jobs[j]).seq = jobs[j].seq
  BY <1>1, <1>2, Zenon DEF LapsedRow
<1>9. CanceledRow(jobs[j]).state \in Live => CanceledRow(jobs[j]).seq = jobs[j].seq
  BY <1>1, <1>2, Zenon DEF CanceledRow
<1>10. \A c : ClaimedRow(jobs[j], c).seq = jobs[j].seq
  BY <1>1, Zenon DEF ClaimedRow
<1> QED BY <1>2, <1>3, <1>4, <1>5, <1>6, <1>7, <1>8, <1>9, <1>10, SMTT(30)

(* The seqs of live jobs are distinct, and below the next one. *)
SeqsFresh ==
    /\ \A j \in Jobs : IsLive(j) => jobs[j].seq < nextSeq
    /\ \A j, k \in Jobs : IsLive(j) /\ IsLive(k) /\ jobs[j].seq = jobs[k].seq => j = k

(* The inductive invariant: the key invariants hold because seqs are fresh. *)
KeyInv == SeqsFresh /\ OneRunningPerKey /\ OldestRunsFirst /\ UniqueWhileLive

(***************************************************************************)
(* What a step other than a claim does to a job that is live after it: it   *)
(* was live, keeps its place and is not claimed; or it is the one job that  *)
(* joins the end of the queue, and no live job has its unique key.          *)
(***************************************************************************)
Stays(j) ==
    /\ IsLive(j) /\ jobs'[j].seq = jobs[j].seq
    /\ IsRunning(j)' => IsRunning(j)

Joins(j) ==
    /\ IsWaiting(j)' /\ jobs'[j].seq = nextSeq
    /\ \A k \in Jobs \ {j} : jobs'[k] = jobs[k] /\ (SameUnique(j, k) => ~IsLive(k))

QueueStep ==
    \/ nextSeq' = nextSeq /\ \A j \in Jobs : IsLive(j)' => Stays(j)
    \/ nextSeq' = nextSeq + 1 /\ \E n \in Jobs : Joins(n)

LEMMA QueueStepKeeps ==
    ASSUME TypeOK, TypeOK', KeyInv, QueueStep
    PROVE  KeyInv'
<1> USE DEF IsLive, IsRunning, IsWaiting, Live, Waiting
<1>t. nextSeq \in Nat /\ nextSeq' \in Nat /\ \A j \in Jobs : jobs[j].seq \in Nat /\ jobs'[j].seq \in Nat
  BY Zenon DEF TypeOK, Row
<1>1. CASE nextSeq' = nextSeq /\ \A j \in Jobs : IsLive(j)' => Stays(j)
  <2>1. SeqsFresh'
    BY <1>t, <1>1, Zenon DEF KeyInv, SeqsFresh, Stays
  <2>2. OneRunningPerKey' /\ UniqueWhileLive'
    BY <1>1, Zenon DEF KeyInv, OneRunningPerKey, UniqueWhileLive, Stays, SameOrdering, SameUnique
  <2>3. OldestRunsFirst'
    <3> SUFFICES ASSUME NEW j \in Jobs, NEW k \in Jobs, SameOrdering(j, k), IsRunning(j)', IsWaiting(k)'
                 PROVE  jobs'[j].seq < jobs'[k].seq
      BY Zenon DEF OldestRunsFirst, SameOrdering
    <3>1. IsRunning(j) /\ Stays(j) /\ Stays(k) /\ j # k
      BY <1>1, Zenon DEF Stays
    <3>2. ~IsRunning(k)
      BY <3>1, Zenon DEF KeyInv, OneRunningPerKey
    <3> QED BY <1>t, <3>1, <3>2, Zenon DEF KeyInv, OldestRunsFirst, Stays
  <2> QED BY <2>1, <2>2, <2>3, Zenon DEF KeyInv
<1>2. ASSUME nextSeq' = nextSeq + 1, NEW n \in Jobs, Joins(n) PROVE KeyInv'
  <2>1. \A k \in Jobs \ {n} : jobs'[k] = jobs[k]
    BY <1>2, Zenon DEF Joins
  <2>2. IsWaiting(n)' /\ jobs'[n].seq = nextSeq
    BY <1>2, Zenon DEF Joins
  <2>3. SeqsFresh'
    BY <1>t, <1>2, <2>1, <2>2 DEF KeyInv, SeqsFresh
  <2>4. OneRunningPerKey'
    BY <2>1, <2>2, Zenon DEF KeyInv, OneRunningPerKey, SameOrdering
  <2>5. OldestRunsFirst'
    BY <1>t, <2>1, <2>2, Zenon DEF KeyInv, OldestRunsFirst, SeqsFresh, SameOrdering
  <2>6. UniqueWhileLive'
    BY <1>2, <2>1, Zenon DEF KeyInv, UniqueWhileLive, Joins, SameUnique
  <2> QED BY <2>3, <2>4, <2>5, <2>6, Zenon DEF KeyInv
<1> QED BY <1>1, <1>2, Zenon DEF QueueStep

(* A claim of jobs whose keys are free, each at its place, keeps the keys. *)
LEMMA ClaimKeeps ==
    ASSUME TypeOK, TypeOK', KeyInv, NEW S \in SUBSET Jobs,
           \A j \in S : IsWaiting(j) /\ KeyFree(j) /\ jobs'[j].state = "running" /\ jobs'[j].seq = jobs[j].seq,
           \A k \in Jobs \ S : jobs'[k] = jobs[k],
           nextSeq' = nextSeq
    PROVE  KeyInv'
<1> USE DEF IsLive, IsRunning, IsWaiting, Live, Waiting
<1>t. nextSeq \in Nat /\ nextSeq' \in Nat /\ \A j \in Jobs : jobs[j].seq \in Nat /\ jobs'[j].seq \in Nat
  BY Zenon DEF TypeOK, Row
<1>1. \A j \in Jobs : IsLive(j)' = IsLive(j) /\ jobs'[j].seq = jobs[j].seq
  OBVIOUS
<1>2. SeqsFresh' /\ UniqueWhileLive'
  BY <1>1 DEF KeyInv, SeqsFresh, UniqueWhileLive, SameUnique
<1>3. ASSUME NEW j \in Jobs, NEW k \in Jobs, SameOrdering(j, k), IsRunning(j)', IsRunning(k)' PROVE j = k
  <2>s. SameOrdering(k, j)
    BY <1>3, Zenon DEF SameOrdering
  <2>1. CASE j \in S /\ k \in S
    <3>1. jobs[j].seq = jobs[k].seq
      BY <1>t, <1>3, <2>1, <2>s DEF KeyFree
    <3> QED BY <2>1, <3>1, Zenon DEF KeyInv, SeqsFresh
  <2>2. CASE j \in S /\ k \notin S
    BY <1>3, <2>2, Zenon DEF KeyFree
  <2>3. CASE j \notin S /\ k \in S
    BY <1>3, <2>3, <2>s, Zenon DEF KeyFree
  <2>4. CASE j \notin S /\ k \notin S
    BY <1>3, <2>4, Zenon DEF KeyInv, OneRunningPerKey
  <2> QED BY <2>1, <2>2, <2>3, <2>4, Zenon
<1>4. ASSUME NEW j \in Jobs, NEW k \in Jobs, SameOrdering(j, k), IsRunning(j)', IsWaiting(k)'
      PROVE  jobs'[j].seq < jobs'[k].seq
  <2>1. k \notin S /\ IsWaiting(k) /\ jobs'[k] = jobs[k]
    BY <1>4, Zenon
  <2>2. CASE j \in S
    <3>1. jobs[j].seq <= jobs[k].seq
      BY <1>4, <2>1, <2>2, Zenon DEF KeyFree
    <3>2. jobs[j].seq # jobs[k].seq
      BY <2>1, <2>2, Zenon DEF KeyInv, SeqsFresh
    <3> QED BY <1>t, <1>1, <3>1, <3>2
  <2>3. CASE j \notin S
    BY <1>4, <2>1, <2>3, Zenon DEF KeyInv, OldestRunsFirst
  <2> QED BY <2>2, <2>3, Zenon
<1>5. OneRunningPerKey'
  BY <1>3, Zenon DEF OneRunningPerKey, SameOrdering
<1>6. OldestRunsFirst'
  BY <1>4, Zenon DEF OldestRunsFirst, SameOrdering
<1> QED BY <1>2, <1>5, <1>6, Zenon DEF KeyInv

(* Every step is a claim of such jobs or a step of the queue. *)
LEMMA KeyNext ==
    ASSUME TypeOK, TypeOK', KeyInv, [Next]_vars
    PROVE  KeyInv'
<1>j. jobs = [j \in Jobs |-> jobs[j]]
  BY Zenon DEF TypeOK
<1>s. (\E j \in Jobs : \E row :
         /\ jobs' = [jobs EXCEPT ![j] = row] /\ IsLive(j)
         /\ row.state \in Live => row.seq = jobs[j].seq
         /\ row.state = "running" => IsRunning(j)
         /\ nextSeq' = nextSeq)
         => QueueStep
  BY <1>j, Zenon DEF QueueStep, Stays, IsLive, IsRunning
<1>n. (\E j \in Jobs : \E row :
         /\ jobs' = [jobs EXCEPT ![j] = row]
         /\ row.state \in Waiting /\ row.seq = nextSeq
         /\ \A k \in Jobs \ {j} : SameUnique(j, k) => ~IsLive(k)
         /\ nextSeq' = nextSeq + 1)
         => QueueStep
  BY <1>j, Zenon DEF QueueStep, Joins, IsWaiting
<1>0. jobs' = jobs /\ nextSeq' = nextSeq => QueueStep
  BY Zenon DEF QueueStep, Stays, IsLive, IsRunning
<1>a. "available" \in Waiting /\ "running" \in Live /\ \A st \in Waiting : st \in Live /\ st # "running"
  BY Zenon DEF Waiting, Live
<1>1. ASSUME NEW j \in Jobs, NEW m \in AttemptChoices, NEW d \in Delays, NEW ttl \in TTLs, JobInsert(j, m, d, ttl)
      PROVE  QueueStep
  <2>1. InsertedRow(m, d, ttl).state \in Waiting /\ InsertedRow(m, d, ttl).seq = nextSeq
    BY RowPlaces
  <2> QED BY <1>1, <1>n, <2>1, Zenon DEF JobInsert
<1>2. ASSUME NEW j \in Jobs, NEW m \in AttemptChoices, NEW d \in Delays, JobReplace(j, m, d) PROVE QueueStep
  <2>1. ReplacedRow(jobs[j], m, d).seq = jobs[j].seq /\ ReplacedRow(jobs[j], m, d).state # "running"
    BY RowPlaces, RowClaims
  <2> QED BY <1>2, <1>s, <1>a, <2>1, Zenon DEF JobReplace, IsWaiting, IsLive
<1>3. ASSUME NEW c \in Clients, NEW S \in SUBSET Jobs, JobClaim(c, S) PROVE KeyInv'
  <2>1. \A j \in S : jobs'[j] = ClaimedRow(jobs[j], c) /\ IsWaiting(j) /\ KeyFree(j)
    BY <1>3, Zenon DEF JobClaim, Claimable
  <2>2. \A j \in S : jobs'[j].state = "running" /\ jobs'[j].seq = jobs[j].seq
    BY <2>1, RowClaims, RowPlaces
  <2>3. (\A k \in Jobs \ S : jobs'[k] = jobs[k]) /\ nextSeq' = nextSeq
    BY <1>3, Zenon DEF JobClaim
  <2> QED BY <2>1, <2>2, <2>3, ClaimKeeps, Zenon
<1>4. ASSUME NEW j \in Jobs, NEW f \in Fence, JobClaimByID(j, f) PROVE KeyInv'
  <2>1. IsWaiting(j) /\ KeyFree(j) /\ jobs'[j] = ClaimedRow(jobs[j], NoClient)
    BY <1>4, <1>j, Zenon DEF JobClaimByID, IsLive, IsRunning, IsWaiting, Live
  <2>2. \A k \in {j} : IsWaiting(k) /\ KeyFree(k) /\ jobs'[k].state = "running" /\ jobs'[k].seq = jobs[k].seq
    BY <2>1, RowClaims, RowPlaces
  <2>3. (\A k \in Jobs \ {j} : jobs'[k] = jobs[k]) /\ nextSeq' = nextSeq /\ {j} \in SUBSET Jobs
    BY <1>4, <1>j, Zenon DEF JobClaimByID
  <2> QED BY <2>2, <2>3, ClaimKeeps, Zenon
<1>5. ASSUME NEW cl \in claims, NEW r \in Result, JobFinalize(cl, r) \/ LeaseFinish(cl, r) PROVE QueueStep
  <2>1. cl.job \in Jobs /\ jobs' = [jobs EXCEPT ![cl.job] = FinalizedRow(cl.job, r)] /\ IsLive(cl.job) /\ nextSeq' = nextSeq
    BY <1>5, <1>a, Zenon DEF JobFinalize, LeaseFinish, ClientOwns, LeaseOwns, TypeOK, Claim, IsLive
  <2> QED BY <2>1, <1>s, RowPlaces, RowClaims, Zenon
<1>6. ASSUME NEW cand \in lost, Rescue(cand.claim) PROVE QueueStep
  <2>1. cand.claim.job \in Jobs /\ RescueResult(cand.claim) \in Result
    BY Zenon DEF TypeOK, Claim, RescueResult, Result, Terminal
  <2>2. /\ jobs' = [jobs EXCEPT ![cand.claim.job] = FinalizedRow(cand.claim.job, RescueResult(cand.claim))]
        /\ IsLive(cand.claim.job) /\ nextSeq' = nextSeq
    BY <1>6, <1>a, Zenon DEF Rescue, ClientOwns, IsLive
  <2> QED BY <2>1, <2>2, <1>s, RowPlaces, RowClaims, Zenon
<1>7. ASSUME NEW c \in Clients, NEW j \in Jobs, JobExpireLease(c, j) PROVE QueueStep
  <2>1. jobs' = [jobs EXCEPT ![j] = LapsedRow(jobs[j])] /\ IsLive(j) /\ nextSeq' = nextSeq
    BY <1>7, <1>a, Zenon DEF JobExpireLease, LeaseDue, IsRunning, IsLive
  <2> QED BY <2>1, <1>s, RowPlaces, RowClaims, Zenon
<1>8. ASSUME NEW j \in Jobs, JobDiscardExpired(j) \/ JobDelete(j) PROVE QueueStep
  <2>1. \A st \in {"discarded", "deleted"} : FinishedRow(jobs[j], st).state \notin Live
    BY RowPlaces, Zenon DEF Terminal
  <2>2. CASE IsWaiting(j)
    BY <1>8, <1>a, <1>s, <2>1, <2>2, Zenon DEF JobDiscardExpired, JobDelete, IsWaiting, IsLive
  <2>3. CASE ~IsWaiting(j)
    <3>1. jobs' = [jobs EXCEPT ![j] = FinishedRow(jobs[j], "deleted")] /\ nextSeq' = nextSeq
      BY <1>8, <2>3, Zenon DEF JobDiscardExpired, JobDelete
    <3> QED BY <1>a, <1>j, <2>1, <3>1, Zenon DEF QueueStep, Stays, IsLive, IsRunning
  <2> QED BY <2>2, <2>3, Zenon
<1>9. ASSUME NEW j \in Jobs, JobCancel(j) PROVE QueueStep
  BY <1>9, <1>s, RowPlaces, RowClaims, Zenon DEF JobCancel
<1>10. ASSUME NEW j \in Jobs, JobRetryHistory(j) PROVE QueueStep
  <2>1. RetriedRow(j).seq = nextSeq /\ RetriedRow(j).state \in Waiting
    BY <1>a, RowPlaces, RowClaims, Zenon
  <2> QED BY <1>10, <1>n, <2>1, Zenon DEF JobRetryHistory
<1>11. ASSUME NEW j \in Jobs, JobRetryLive(j) PROVE QueueStep
  <2>1. jobs' = [jobs EXCEPT ![j] = [RunNow(jobs[j]) EXCEPT !.expiresAt = NoTime]] /\ IsLive(j) /\ nextSeq' = nextSeq
    BY <1>11, <1>a, Zenon DEF JobRetryLive, IsWaiting, IsLive
  <2> QED BY <1>s, <2>1, RowPlaces, Zenon
<1>12. ASSUME NEW key \in {OrderingKey[j] : j \in Jobs}, JobRetryOrderingKey(key) PROVE QueueStep
  BY <1>12, <1>a, RowPlaces, RowClaims, Zenon
     DEF JobRetryOrderingKey, OldestWakeable, Wakeable, QueueStep, Stays, IsLive, IsRunning, Waiting, Live
<1>13. CASE UNCHANGED <<jobs, nextSeq>>
  BY <1>13, <1>0, QueueStepKeeps, Zenon
<1> QED BY <1>1, <1>2, <1>3, <1>4, <1>5, <1>6, <1>7, <1>8, <1>9, <1>10, <1>11, <1>12, <1>13, QueueStepKeeps, Zenon
        DEF Next, vars, JobLeaseRenew, JobRescueCandidates, ClientRegister, ClientRenew, ClientDelete, ClientPruneExpired, Tick

LEMMA KeyStart == Init => KeyInv
  BY DEF Init, KeyInv, SeqsFresh, OneRunningPerKey, OldestRunsFirst, UniqueWhileLive, IsLive, IsRunning, IsWaiting,
         AbsentRow, Live, Waiting

(* At most one job of an ordering key runs at a time. *)
THEOREM KeyRunsOne == Spec => []OneRunningPerKey
  BY KeyStart, KeyNext, TypeCorrect, PTL DEF Spec, KeyInv

(* Jobs of an ordering key run in the order of their insertion. *)
THEOREM KeyRunsOldest == Spec => []OldestRunsFirst
  BY KeyStart, KeyNext, TypeCorrect, PTL DEF Spec, KeyInv

(* A unique key is held by at most one live job. *)
THEOREM UniqueKept == Spec => []UniqueWhileLive
  BY KeyStart, KeyNext, TypeCorrect, PTL DEF Spec, KeyInv

------------------------------------------------------------------------------
(***************************************************************************)
(* Every step changes each job's row in one of these ways, or not at all.   *)
(* A claim and the end of an attempt are the two that change who runs it.   *)
(***************************************************************************)
(* A job that does not run is made to wait, or waits on.  Only a replacing  *)
(* insert sets max_attempts without regard to the attempts made.            *)
Queues(j) ==
    LET r == jobs[j]
        s == jobs'[j]
    IN  /\ r.state # "running" /\ s.state \in Waiting
        /\ r.state \in Terminal => s.state = "available"
        /\ r.state # "deleted"
        /\ s.fence = r.fence
        /\ s.wakeRequestedAt \in {r.wakeRequestedAt, NoTime}
        /\ s.attempt = IF r.state = "absent" THEN 0 ELSE r.attempt
        /\ \/ s.attempt < s.maxAttempts
           \/ r.state \in Waiting /\ (s.maxAttempts = r.maxAttempts \/ UniqueKey[j] # NoKey)

(* A job that does not run leaves the queue, or leaves history. *)
Leaves(j) ==
    LET r == jobs[j]
    IN  /\ r.state \in Waiting \cup Terminal
        /\ \/ r.state \in Waiting /\ \E st \in Terminal \cup {"deleted"} : jobs'[j] = FinishedRow(r, st)
           \/ jobs'[j] = FinishedRow(r, "deleted")

(* A running job is marked: canceled, or woken. *)
Marks(j) ==
    LET r == jobs[j]
    IN  /\ r.state = "running"
        /\ jobs'[j] = [r EXCEPT !.cancelRequested = TRUE] \/ jobs'[j] = MarkedRow(r)

(* A waiting job is claimed by c, a client or NoClient. *)
Claims(j, c) ==
    /\ IsWaiting(j) /\ jobs[j].fence < MaxFence
    /\ jobs'[j] = ClaimedRow(jobs[j], c)

(* The attempt of a running job ends: it is finished, or it waits again,    *)
(* with an attempt left, and at once if it was woken while it ran.          *)
Ends(j) ==
    LET r == jobs[j]
        s == jobs'[j]
    IN  /\ r.state = "running" /\ s.state \in (Waiting \cup Terminal \cup {"deleted"})
        /\ s.fence = r.fence
        /\ s.wakeRequestedAt = NoTime
        /\ s.state \in Waiting =>
              /\ s.attempt = r.attempt - 1 \/ (s.attempt = r.attempt /\ r.attempt < r.maxAttempts)
              /\ s.maxAttempts = r.maxAttempts
              /\ Woken(j) => s.scheduledAt = now
        /\ s.state \in Terminal => s.attempt = r.attempt
        /\ s.state = "deleted" => s.attempt = 0

(* Nothing is claimed and no attempt ends. *)
QuietRow(j) == jobs'[j] = jobs[j] \/ Queues(j) \/ Leaves(j) \/ Marks(j)

(***************************************************************************)
(* A step is quiet, claims jobs for a client, claims one by a lease, or     *)
(* ends one attempt; the lease of a job is granted and released with it.    *)
(***************************************************************************)
QuietStep ==
    /\ \A j \in Jobs : QuietRow(j)
    /\ \A j \in Jobs : leases'[j].held = leases[j].held /\ leases'[j].fence = leases[j].fence
    /\ claims' = claims

ClientClaimStep ==
    \E c \in Clients, S \in SUBSET Jobs :
        /\ clients[c].row # "unused"
        /\ \A j \in S : Claims(j, c)
        /\ \A j \in Jobs \ S : jobs'[j] = jobs[j]
        /\ leases' = leases
        /\ claims' = claims \cup {ClaimOf(j, c) : j \in S}

LeaseClaimStep ==
    \E n \in Jobs :
        /\ Claims(n, NoClient)
        /\ \A j \in Jobs \ {n} : jobs'[j] = jobs[j] /\ leases'[j] = leases[j]
        /\ leases'[n].held /\ leases'[n].fence = jobs[n].fence + 1
        /\ claims' = claims \cup {ClaimOf(n, NoClient)}

EndStep ==
    \E n \in Jobs :
        /\ Ends(n)
        /\ \A j \in Jobs \ {n} : jobs'[j] = jobs[j] /\ leases'[j] = leases[j]
        /\ IF jobs[n].attemptedBy = NoClient THEN ~leases'[n].held ELSE leases'[n] = leases[n]
        /\ claims' = claims

ClaimStep == QuietStep \/ ClientClaimStep \/ LeaseClaimStep \/ EndStep

(***************************************************************************)
(* The inductive invariant.  Claims are told apart by their fences because  *)
(* no claim is ahead of its job's fence; a rescue writes the result of a    *)
(* claim that was made; and the rows keep what the next claim or retry      *)
(* starts from.                                                             *)
(***************************************************************************)
ClaimsBehind == \A cl \in claims : cl.fence <= jobs[cl.job].fence

ClaimantsKnown == \A cl \in claims : cl.by # NoClient => clients[cl.by].row # "unused"

LostClaimed == \A cand \in lost : cand.claim \in claims /\ cand.claim.by # NoClient

AttemptsCounted ==
    \A j \in Jobs :
        /\ jobs[j].attempt >= 0
        /\ IsRunning(j) => jobs[j].attempt >= 1
        /\ UniqueKey[j] = NoKey /\ IsRunning(j) => jobs[j].attempt <= jobs[j].maxAttempts
        /\ UniqueKey[j] = NoKey /\ IsWaiting(j) => jobs[j].attempt < jobs[j].maxAttempts

(* Only a running job carries a wake, asked for since it was claimed. *)
WakesFresh ==
    \A j \in Jobs :
        /\ ~IsRunning(j) => jobs[j].wakeRequestedAt = NoTime
        /\ IsRunning(j) => jobs[j].attemptedAt <= now
        /\ IsRunning(j) /\ jobs[j].wakeRequestedAt # NoTime => Woken(j)

ClaimInv ==
    /\ AbsentUnclaimed
    /\ ClaimsBehind /\ FencesUnique /\ RunningIsClaimed
    /\ LeaseIffUnowned
    /\ ClaimantsKnown /\ LostClaimed /\ LostStaysLost
    /\ AttemptsCounted /\ WakesFresh
-----------------------------------------------------------------------------
(* What each row an operation writes says of the attempts made, and of wakes. *)
LEMMA RowAttempts ==
    ASSUME TypeOK, NEW j \in Jobs
    PROVE  /\ \A st \in Terminal \cup {"deleted"} :
                 /\ FinishedRow(jobs[j], st).wakeRequestedAt = NoTime
                 /\ FinishedRow(jobs[j], st).attempt = IF st = "deleted" THEN 0 ELSE jobs[j].attempt
           /\ \A m, d, ttl : /\ InsertedRow(m, d, ttl).attempt = 0 /\ InsertedRow(m, d, ttl).maxAttempts = m
                             /\ InsertedRow(m, d, ttl).wakeRequestedAt = NoTime
                             /\ InsertedRow(m, d, ttl).state \in Waiting
           /\ \A m, d : /\ ReplacedRow(jobs[j], m, d).attempt = jobs[j].attempt
                        /\ ReplacedRow(jobs[j], m, d).wakeRequestedAt = jobs[j].wakeRequestedAt
                        /\ ReplacedRow(jobs[j], m, d).state \in Waiting
           /\ RunNow(jobs[j]).attempt = jobs[j].attempt /\ RunNow(jobs[j]).maxAttempts = jobs[j].maxAttempts
           /\ RunNow(jobs[j]).wakeRequestedAt = NoTime
           /\ RetriedRow(j).attempt = jobs[j].attempt /\ RetriedRow(j).attempt < RetriedRow(j).maxAttempts
           /\ RetriedRow(j).wakeRequestedAt = jobs[j].wakeRequestedAt
<1> USE DEF Row, Terminal, Waiting
<1>1. jobs[j] \in Row
  BY Zenon DEF TypeOK
<1>2. \A st \in Terminal \cup {"deleted"} :
        /\ FinishedRow(jobs[j], st).wakeRequestedAt = NoTime
        /\ FinishedRow(jobs[j], st).attempt = IF st = "deleted" THEN 0 ELSE jobs[j].attempt
  BY Zenon DEF FinishedRow, AbsentRow
<1>3. \A m, d, ttl : /\ InsertedRow(m, d, ttl).attempt = 0 /\ InsertedRow(m, d, ttl).maxAttempts = m
                     /\ InsertedRow(m, d, ttl).wakeRequestedAt = NoTime
                     /\ InsertedRow(m, d, ttl).state \in Waiting
  BY DEF InsertedRow, AbsentRow, StateAt
<1>4. \A m, d : /\ ReplacedRow(jobs[j], m, d).attempt = jobs[j].attempt
                /\ ReplacedRow(jobs[j], m, d).wakeRequestedAt = jobs[j].wakeRequestedAt
                /\ ReplacedRow(jobs[j], m, d).state \in Waiting
  BY <1>1, Zenon DEF ReplacedRow, StateAt
<1>5. /\ RunNow(jobs[j]).attempt = jobs[j].attempt /\ RunNow(jobs[j]).maxAttempts = jobs[j].maxAttempts
      /\ RunNow(jobs[j]).wakeRequestedAt = NoTime
  BY <1>1, Zenon DEF RunNow
<1>6. RetriedRow(j).attempt = jobs[j].attempt /\ RetriedRow(j).wakeRequestedAt = jobs[j].wakeRequestedAt
  BY <1>1, Zenon DEF RetriedRow
<1>7. jobs[j].attempt < AttemptsAllowed(jobs[j])
  BY <1>1 DEF AttemptsAllowed
<1>8. RetriedRow(j).maxAttempts = AttemptsAllowed(jobs[j])
  BY <1>1, Zenon DEF RetriedRow
<1> QED BY <1>2, <1>3, <1>4, <1>5, <1>6, <1>7, <1>8

(* The row of an attempt that ends and waits again. *)
LEMMA WaitingRows ==
    ASSUME TypeOK, NEW j \in Jobs
    PROVE  /\ \A r \in Result : r.state \notin Terminal \cup {"deleted"} =>
                 LET s == FinalizedRow(j, r)
                 IN  /\ s.state = r.state /\ s.fence = jobs[j].fence /\ s.wakeRequestedAt = NoTime
                     /\ s.scheduledAt = DueAt(j, r.delay) /\ s.attempt = AttemptAfter(j, r.back)
                     /\ s.maxAttempts = jobs[j].maxAttempts
           /\ jobs[j].attempt < jobs[j].maxAttempts /\ ~jobs[j].cancelRequested =>
                 LET s == LapsedRow(jobs[j])
                 IN  /\ s.state = "retryable" /\ s.fence = jobs[j].fence /\ s.wakeRequestedAt = NoTime
                     /\ s.scheduledAt = now /\ s.attempt = jobs[j].attempt
                     /\ s.maxAttempts = jobs[j].maxAttempts
<1>1. jobs[j] \in Row
  BY Zenon DEF TypeOK
<1> QED BY <1>1, Zenon DEF FinalizedRow, LapsedRow, Row

(* An attempt that ends with a result its claim allows ends as Ends says. *)
LEMMA FinalizedEnds ==
    ASSUME TypeOK, NEW j \in Jobs, IsRunning(j), NEW r \in Result,
           r.state \in Waiting => r.back \/ jobs[j].attempt < jobs[j].maxAttempts,
           jobs' = [jobs EXCEPT ![j] = FinalizedRow(j, r)]
    PROVE  Ends(j)
<1>1. jobs'[j] = FinalizedRow(j, r)
  BY Zenon DEF TypeOK
<1>2. CASE r.state \in Terminal \cup {"deleted"}
  <2>1. jobs'[j] = FinishedRow(jobs[j], r.state)
    BY <1>1, <1>2, ZenonT(30) DEF FinalizedRow
  <2>2. /\ jobs'[j].state = r.state /\ jobs'[j].fence = jobs[j].fence
        /\ jobs'[j].wakeRequestedAt = NoTime
        /\ jobs'[j].attempt = IF r.state = "deleted" THEN 0 ELSE jobs[j].attempt
    BY <1>2, <2>1, RowClaims, RowAttempts
  <2> QED BY <1>2, <2>2, Zenon DEF Ends, IsRunning, Terminal, Waiting
<1>3. CASE r.state \notin Terminal \cup {"deleted"}
  <2>1. r.state \in Waiting
    BY <1>3, Zenon DEF Result, Waiting
  <2>2. /\ jobs'[j].state = r.state /\ jobs'[j].fence = jobs[j].fence /\ jobs'[j].wakeRequestedAt = NoTime
        /\ jobs'[j].scheduledAt = DueAt(j, r.delay) /\ jobs'[j].attempt = AttemptAfter(j, r.back)
        /\ jobs'[j].maxAttempts = jobs[j].maxAttempts
    BY <1>1, <1>3, WaitingRows
  <2>3. Woken(j) => DueAt(j, r.delay) = now
    BY Zenon DEF DueAt
  <2>4. \/ AttemptAfter(j, r.back) = jobs[j].attempt - 1
        \/ AttemptAfter(j, r.back) = jobs[j].attempt /\ jobs[j].attempt < jobs[j].maxAttempts
    BY <2>1, Zenon DEF AttemptAfter
  <2> QED BY <2>1, <2>2, <2>3, <2>4, Zenon DEF Ends, IsRunning, Terminal, Waiting
<1> QED BY <1>2, <1>3, Zenon

(* An attempt whose lease lapses ends as Ends says. *)
LEMMA LapsedEnds ==
    ASSUME TypeOK, NEW j \in Jobs, IsRunning(j), jobs' = [jobs EXCEPT ![j] = LapsedRow(jobs[j])]
    PROVE  Ends(j)
<1>1. jobs'[j] = LapsedRow(jobs[j])
  BY Zenon DEF TypeOK
<1>2. CASE jobs[j].attempt < jobs[j].maxAttempts /\ ~jobs[j].cancelRequested
  BY <1>1, <1>2, WaitingRows, ZenonT(30) DEF Ends, IsRunning, Terminal, Waiting
<1>3. CASE ~(jobs[j].attempt < jobs[j].maxAttempts /\ ~jobs[j].cancelRequested)
  <2>1. PICK st \in {"canceled", "discarded"} : jobs'[j] = FinishedRow(jobs[j], st)
    BY <1>1, <1>3, Zenon DEF LapsedRow
  <2>2. st \in Terminal
    BY ZenonT(30) DEF Terminal
  <2>3. /\ jobs'[j].state = st /\ jobs'[j].fence = jobs[j].fence
        /\ jobs'[j].wakeRequestedAt = NoTime /\ jobs'[j].attempt = jobs[j].attempt
    BY <2>1, <2>2, RowClaims, RowAttempts
  <2> QED BY <2>3, Zenon DEF Ends, IsRunning, Terminal, Waiting
<1> QED BY <1>2, <1>3, Zenon

(* Every step is one of the four. *)
LEMMA StepShape ==
    ASSUME TypeOK, ClaimInv, [Next]_vars
    PROVE  ClaimStep
<1>j. jobs = [j \in Jobs |-> jobs[j]] /\ leases = [j \in Jobs |-> leases[j]]
  BY Zenon DEF TypeOK
<1>q. (\E j \in Jobs : QuietRow(j) /\ \E row : jobs' = [jobs EXCEPT ![j] = row]) /\ leases' = leases /\ claims' = claims
        => QuietStep
  BY <1>j, Zenon DEF QuietStep, QuietRow
<1>0. jobs' = jobs /\ claims' = claims
        /\ (\A j \in Jobs : leases'[j].held = leases[j].held /\ leases'[j].fence = leases[j].fence) => QuietStep
  BY Zenon DEF QuietStep, QuietRow
<1>e. ASSUME NEW j \in Jobs, NEW row, jobs' = [jobs EXCEPT ![j] = row], Ends(j), claims' = claims,
             \/ jobs[j].attemptedBy # NoClient /\ leases' = leases
             \/ jobs[j].attemptedBy = NoClient /\ leases' = [leases EXCEPT ![j] = NoLease]
      PROVE  EndStep
  BY <1>e, <1>j DEF EndStep, NoLease
<1>1. ASSUME NEW j \in Jobs, NEW m \in AttemptChoices, NEW d \in Delays, NEW ttl \in TTLs, JobInsert(j, m, d, ttl)
      PROVE  QuietStep
  <2>1. jobs'[j] = InsertedRow(m, d, ttl) /\ jobs[j].state = "absent" /\ jobs[j].fence = 0
    BY <1>1, <1>j, Zenon DEF JobInsert, ClaimInv, AbsentUnclaimed
  <2>2. m \in Int /\ 0 < m
    BY JobStoreAssumption
  <2>3. InsertedRow(m, d, ttl).fence = 0
    BY RowClaims, SMTT(30)
  <2>4. /\ InsertedRow(m, d, ttl).attempt = 0 /\ InsertedRow(m, d, ttl).maxAttempts = m
        /\ InsertedRow(m, d, ttl).wakeRequestedAt = NoTime /\ InsertedRow(m, d, ttl).state \in Waiting
    BY RowAttempts, SMTT(30)
  <2>5. Queues(j)
    BY <2>1, <2>2, <2>3, <2>4, SMTT(30) DEF Queues, Terminal, Waiting
  <2> QED BY <1>1, <1>q, <2>5, Zenon DEF JobInsert, QuietRow
<1>2. ASSUME NEW j \in Jobs, NEW m \in AttemptChoices, NEW d \in Delays, JobReplace(j, m, d) PROVE QuietStep
  <2>1. jobs'[j] = ReplacedRow(jobs[j], m, d) /\ jobs[j].state \in Waiting /\ UniqueKey[j] # NoKey
    BY <1>2, <1>j, ZenonT(30) DEF JobReplace, IsWaiting
  <2>2. Queues(j)
    BY <2>1, RowClaims, RowAttempts, SMTT(30) DEF Queues, Terminal, Waiting
  <2> QED BY <1>2, <1>q, <2>2, Zenon DEF JobReplace, QuietRow
<1>3. ASSUME NEW c \in Clients, NEW S \in SUBSET Jobs, JobClaim(c, S) PROVE ClientClaimStep
  BY <1>3, Zenon DEF JobClaim, ClientClaimStep, Claims, Claimable
<1>4. ASSUME NEW j \in Jobs, NEW f \in Fence, JobClaimByID(j, f) PROVE LeaseClaimStep
  <2>1. Claims(j, NoClient)
    BY <1>4, <1>j, Zenon DEF JobClaimByID, Claims, IsLive, IsRunning, IsWaiting, Live
  <2>2. leases'[j].held /\ leases'[j].fence = jobs[j].fence + 1
    BY <1>4, <1>j, Zenon DEF JobClaimByID, LeaseAt
  <2>3. \A k \in Jobs \ {j} : jobs'[k] = jobs[k] /\ leases'[k] = leases[k]
    BY <1>4, <1>j, Zenon DEF JobClaimByID
  <2> QED BY <1>4, <2>1, <2>2, <2>3, Zenon DEF JobClaimByID, LeaseClaimStep
<1>c. ASSUME NEW cl \in claims, ClientOwns(cl) \/ LeaseOwns(cl)
      PROVE  /\ cl.job \in Jobs /\ IsRunning(cl.job)
             /\ cl.attempt = jobs[cl.job].attempt /\ cl.maxAttempts = jobs[cl.job].maxAttempts
             /\ ~Replaced(cl)
  <2>1. cl \in Claim /\ cl.job \in Jobs /\ IsRunning(cl.job) /\ cl.fence = jobs[cl.job].fence
    BY <1>c, Zenon DEF TypeOK, Claim, ClientOwns, LeaseOwns, IsRunning
  <2>2. CurrentClaim(cl.job) \in claims
    BY <2>1, Zenon DEF ClaimInv, RunningIsClaimed
  <2>3. cl = CurrentClaim(cl.job)
    BY <2>1, <2>2, Zenon DEF ClaimInv, FencesUnique, CurrentClaim
  <2>4. cl.attempt = jobs[cl.job].attempt /\ cl.maxAttempts = jobs[cl.job].maxAttempts
    BY <2>3 DEF CurrentClaim
  <2>5. ~Replaced(cl)
    <3>1. \A other \in claims : other.fence \in Int /\ other.fence <= jobs[other.job].fence
      BY JobStoreAssumption DEF ClaimInv, ClaimsBehind, TypeOK, Claim, Fence
    <3> QED BY <2>1, <3>1 DEF Replaced
  <2> QED BY <2>1, <2>4, <2>5, Zenon
<1>r. ASSUME NEW cl \in claims, ClientOwns(cl) \/ LeaseOwns(cl), NEW r \in Result, NEW b, Outcome(cl, r, b)
      PROVE  r.state \in Waiting => r.back \/ jobs[cl.job].attempt < jobs[cl.job].maxAttempts
  BY <1>c, <1>r, Zenon DEF Outcome, Waiting
<1>5. ASSUME NEW cl \in claims, NEW r \in Result, JobFinalize(cl, r) PROVE EndStep
  <2>1. ClientOwns(cl) /\ Outcome(cl, r, cl.job \in notices) /\ jobs' = [jobs EXCEPT ![cl.job] = FinalizedRow(cl.job, r)]
    BY <1>5, Zenon DEF JobFinalize
  <2>2. Ends(cl.job)
    BY <1>c, <1>r, <2>1, FinalizedEnds, Zenon
  <2>3. jobs[cl.job].attemptedBy # NoClient /\ leases' = leases /\ claims' = claims
    BY <1>5, Zenon DEF JobFinalize, ClientOwns
  <2> QED BY <1>c, <1>e, <2>1, <2>2, <2>3, Zenon
<1>6. ASSUME NEW cl \in claims, NEW r \in Result, LeaseFinish(cl, r) PROVE EndStep
  <2>1. /\ LeaseOwns(cl) /\ Outcome(cl, r, jobs[cl.job].cancelRequested)
        /\ jobs' = [jobs EXCEPT ![cl.job] = FinalizedRow(cl.job, r)]
    BY <1>6, Zenon DEF LeaseFinish
  <2>2. Ends(cl.job)
    BY <1>c, <1>r, <2>1, FinalizedEnds, Zenon
  <2>3. jobs[cl.job].attemptedBy = NoClient /\ leases' = [leases EXCEPT ![cl.job] = NoLease] /\ claims' = claims
    BY <1>6, Zenon DEF LeaseFinish, LeaseOwns
  <2> QED BY <1>c, <1>e, <2>1, <2>2, <2>3, Zenon
<1>7. ASSUME NEW cl \in claims, JobLeaseRenew(cl) PROVE QuietStep
  <2>1. leases[cl.job].held /\ leases[cl.job].fence = cl.fence /\ leases' = [leases EXCEPT ![cl.job] = LeaseAt(cl.fence)]
    BY <1>7, Zenon DEF JobLeaseRenew, LeaseOwns
  <2>2. \A j \in Jobs : leases'[j].held = leases[j].held /\ leases'[j].fence = leases[j].fence
    BY <1>j, <2>1, Zenon DEF LeaseAt, TypeOK, LeaseRow
  <2> QED BY <1>0, <1>7, <2>2, Zenon DEF JobLeaseRenew
<1>8. ASSUME NEW j \in Jobs, JobRescueCandidates(j) PROVE QuietStep
  BY <1>0, <1>8, Zenon DEF JobRescueCandidates
<1>9. ASSUME NEW cand \in lost, Rescue(cand.claim) PROVE EndStep
  <2> DEFINE cl == cand.claim
  <2>1. cl \in claims /\ ClientOwns(cl) /\ jobs' = [jobs EXCEPT ![cl.job] = FinalizedRow(cl.job, RescueResult(cl))]
    BY <1>9, Zenon DEF Rescue, ClaimInv, LostClaimed
  <2>2. RescueResult(cl) \in Result
    BY Zenon DEF RescueResult, Result, Terminal
  <2> HIDE DEF cl
  <2>3. /\ cl.job \in Jobs /\ IsRunning(cl.job)
        /\ cl.attempt = jobs[cl.job].attempt /\ cl.maxAttempts = jobs[cl.job].maxAttempts
    BY <1>c, <2>1, Zenon
  <2>4. jobs[cl.job].attempt \in Int /\ jobs[cl.job].maxAttempts \in Int
    BY <2>3 DEF TypeOK, Row
  <2>5. RescueResult(cl).state \in Waiting => jobs[cl.job].attempt < jobs[cl.job].maxAttempts
    BY <2>3, <2>4 DEF RescueResult, Waiting
  <2>6. Ends(cl.job)
    BY <2>1, <2>2, <2>3, <2>5, FinalizedEnds, Zenon
  <2>7. jobs[cl.job].attemptedBy # NoClient /\ leases' = leases /\ claims' = claims
    BY <1>9, <2>1, Zenon DEF Rescue, ClientOwns
  <2> QED BY <1>e, <2>1, <2>3, <2>6, <2>7, Zenon
<1>10. ASSUME NEW c \in Clients, NEW j \in Jobs, JobExpireLease(c, j) PROVE EndStep
  <2>1. IsRunning(j) /\ jobs[j].attemptedBy = NoClient /\ jobs' = [jobs EXCEPT ![j] = LapsedRow(jobs[j])]
    BY <1>10, Zenon DEF JobExpireLease, LeaseDue
  <2>2. Ends(j)
    BY <2>1, LapsedEnds, Zenon
  <2> QED BY <1>10, <1>e, <2>1, <2>2, Zenon DEF JobExpireLease
<1>11. ASSUME NEW j \in Jobs, JobDiscardExpired(j) \/ JobDelete(j) PROVE QuietStep
  <2>1. Leaves(j)
    BY <1>11, <1>j, Zenon DEF JobDiscardExpired, JobDelete, Leaves, IsWaiting, Waiting, Terminal
  <2> QED BY <1>11, <1>q, <2>1, Zenon DEF JobDiscardExpired, JobDelete, QuietRow
<1>12. ASSUME NEW j \in Jobs, JobCancel(j) PROVE QuietStep
  <2>1. jobs[j].state \in Live /\ jobs'[j] = CanceledRow(jobs[j])
    BY <1>12, <1>j, Zenon DEF JobCancel, IsLive
  <2>2. Leaves(j) \/ Marks(j)
    BY <2>1, Zenon DEF Leaves, Marks, CanceledRow, Live, Terminal
  <2> QED BY <1>12, <1>q, <2>2, Zenon DEF JobCancel, QuietRow
<1>13. ASSUME NEW j \in Jobs, JobRetryHistory(j) PROVE QuietStep
  <2>1. jobs'[j] = RetriedRow(j) /\ jobs[j].state \in Terminal
    BY <1>13, <1>j, SMTT(30) DEF JobRetryHistory
  <2>2. Queues(j)
    BY <2>1, RowClaims, RowAttempts, SMTT(30) DEF Queues, Terminal, Waiting
  <2> QED BY <1>13, <1>q, <2>2, Zenon DEF JobRetryHistory, QuietRow
<1>w. ASSUME NEW j \in Jobs, jobs[j].state \in Waiting,
             jobs'[j] = RunNow(jobs[j]) \/ jobs'[j] = [RunNow(jobs[j]) EXCEPT !.expiresAt = NoTime]
      PROVE  Queues(j)
  <2>1. /\ jobs'[j].state = "available" /\ jobs'[j].fence = jobs[j].fence /\ jobs'[j].wakeRequestedAt = NoTime
        /\ jobs'[j].attempt = jobs[j].attempt /\ jobs'[j].maxAttempts = jobs[j].maxAttempts
    <3>1. RunNow(jobs[j]) \in Row
      BY RowTypes, Zenon
    <3> QED BY <1>w, <3>1, RowClaims, RowAttempts DEF Row
  <2> QED BY <1>w, <2>1, Zenon DEF Queues, Waiting, Terminal
<1>14. ASSUME NEW j \in Jobs, JobRetryLive(j) PROVE QuietStep
  <2>1. Queues(j)
    BY <1>14, <1>j, <1>w, Zenon DEF JobRetryLive, IsWaiting
  <2> QED BY <1>14, <1>q, <2>1, Zenon DEF JobRetryLive, QuietRow
<1>15. ASSUME NEW key \in {OrderingKey[j] : j \in Jobs}, JobRetryOrderingKey(key) PROVE QuietStep
  <2>1. ASSUME NEW j \in Jobs PROVE QuietRow(j)
    <3>1. CASE OrderingKey[j] = key /\ IsRunning(j)
      BY <1>15, <3>1, Zenon DEF JobRetryOrderingKey, QuietRow, Marks, IsRunning
    <3>2. CASE ~(OrderingKey[j] = key /\ IsRunning(j)) /\ j \in OldestWakeable(key)
      <4>1. jobs'[j] = RunNow(jobs[j]) /\ jobs[j].state \in Waiting
        BY <1>15, <3>2, Zenon DEF JobRetryOrderingKey, OldestWakeable, Wakeable, Waiting
      <4> QED BY <1>w, <4>1, Zenon DEF QuietRow
    <3>3. CASE ~(OrderingKey[j] = key /\ IsRunning(j)) /\ j \notin OldestWakeable(key)
      BY <1>15, <3>3, Zenon DEF JobRetryOrderingKey, QuietRow
    <3> QED BY <3>1, <3>2, <3>3, Zenon
  <2> QED BY <1>15, <2>1, Zenon DEF JobRetryOrderingKey, QuietStep
<1>16. ASSUME NEW c \in Clients, ClientRegister(c) \/ ClientRenew(c) \/ ClientDelete(c) PROVE QuietStep
  <2>1. UNCHANGED <<jobs, leases, claims>>
    BY <1>16, Zenon DEF ClientRegister, ClientRenew, ClientDelete
  <2> QED BY <1>0, <2>1, Zenon
<1>17. CASE ClientPruneExpired \/ Tick \/ UNCHANGED vars
  BY <1>0, <1>17, Zenon DEF ClientPruneExpired, Tick, vars, ClaimStep
<1> QED BY <1>1, <1>2, <1>3, <1>4, <1>5, <1>6, <1>7, <1>8, <1>9, <1>10, <1>11, <1>12, <1>13, <1>14, <1>15, <1>16, <1>17, ZenonT(30)
        DEF Next, ClaimStep
-----------------------------------------------------------------------------
(* What the rows and the claims say together: the invariant without the clients. *)
RowInv ==
    /\ ClaimsBehind /\ FencesUnique /\ RunningIsClaimed
    /\ LeaseIffUnowned /\ AttemptsCounted /\ WakesFresh

(* The types of what the invariant compares. *)
LEMMA FieldTypes ==
    ASSUME TypeOK
    PROVE  /\ now \in Nat
           /\ \A j \in Jobs : /\ jobs[j].fence \in Int /\ jobs[j].attempt \in Int /\ jobs[j].maxAttempts \in Int
                              /\ jobs[j].attemptedAt \in Int /\ jobs[j].wakeRequestedAt \in Int
           /\ \A cl \in claims : cl.job \in Jobs /\ cl.fence \in Int /\ cl.by \in Clients \cup {NoClient}
<1> USE DEF TypeOK
<1>1. now \in Nat
  BY JobStoreAssumption
<1>2. \A j \in Jobs : jobs[j] \in Row
  BY Zenon
<1>3. \A j \in Jobs : /\ jobs[j].fence \in Int /\ jobs[j].attempt \in Int /\ jobs[j].maxAttempts \in Int
                     /\ jobs[j].attemptedAt \in Int /\ jobs[j].wakeRequestedAt \in Int
  BY <1>2, JobStoreAssumption DEF Row, Fence, Time, NoTime
<1>4. \A cl \in claims : cl.job \in Jobs /\ cl.fence \in Int /\ cl.by \in Clients \cup {NoClient}
  BY JobStoreAssumption DEF Claim, Fence
<1> QED BY <1>1, <1>3, <1>4, Zenon

(* A quiet step leaves each claim as it is, and a running job's row but for its marks. *)
LEMMA QuietRows ==
    ASSUME TypeOK, NEW j \in Jobs, QuietRow(j)
    PROVE  /\ jobs'[j].fence = jobs[j].fence
           /\ IsRunning(j)' = IsRunning(j)
           /\ IsRunning(j) => /\ CurrentClaim(j)' = CurrentClaim(j)
                              /\ jobs'[j].attemptedBy = jobs[j].attemptedBy
                              /\ jobs'[j].attemptedAt = jobs[j].attemptedAt
                              /\ jobs'[j].attempt = jobs[j].attempt /\ jobs'[j].maxAttempts = jobs[j].maxAttempts
                              /\ jobs'[j].wakeRequestedAt \in {jobs[j].wakeRequestedAt, now}
           /\ ~IsRunning(j) => jobs'[j].wakeRequestedAt \in {jobs[j].wakeRequestedAt, NoTime}
<1> USE DEF IsRunning
<1>1. CASE jobs'[j] = jobs[j]
  BY <1>1, Zenon DEF CurrentClaim
<1>2. CASE Queues(j)
  BY <1>2, Zenon DEF Queues, Waiting
<1>3. CASE Leaves(j)
  <2>1. PICK st \in Terminal \cup {"deleted"} : jobs'[j] = FinishedRow(jobs[j], st)
    BY <1>3, Zenon DEF Leaves
  <2>2. jobs[j].state # "running" /\ st # "running"
    BY <1>3, Zenon DEF Leaves, Waiting, Terminal
  <2>3. FinishedRow(jobs[j], st).state = st /\ FinishedRow(jobs[j], st).fence = jobs[j].fence
    BY RowClaims, Zenon
  <2>4. FinishedRow(jobs[j], st).wakeRequestedAt = NoTime
    BY RowAttempts, Zenon
  <2> QED BY <2>1, <2>2, <2>3, <2>4, Zenon
<1>4. CASE Marks(j)
  <2>1. jobs[j] \in Row
    BY Zenon DEF TypeOK
  <2>2. /\ jobs'[j].state = jobs[j].state /\ jobs'[j].fence = jobs[j].fence
        /\ jobs'[j].attempt = jobs[j].attempt /\ jobs'[j].maxAttempts = jobs[j].maxAttempts
    BY <1>4, <2>1, ZenonT(30) DEF Marks, MarkedRow, Row
  <2>3. /\ jobs'[j].attemptedBy = jobs[j].attemptedBy /\ jobs'[j].attemptedAt = jobs[j].attemptedAt
        /\ jobs'[j].wakeRequestedAt \in {jobs[j].wakeRequestedAt, now}
    BY <1>4, <2>1, Zenon DEF Marks, MarkedRow, Row
  <2> QED BY <1>4, <2>2, <2>3, Zenon DEF CurrentClaim, Marks
<1> QED BY <1>1, <1>2, <1>3, <1>4, Zenon DEF QuietRow

LEMMA QuietKeeps ==
    ASSUME TypeOK, TypeOK', RowInv, QuietStep, now' >= now
    PROVE  RowInv'
<1>t. now' \in Nat /\ \A j \in Jobs : jobs'[j].wakeRequestedAt \in Int /\ jobs'[j].attemptedAt \in Int
  <2>1. now' \in Nat
    BY JobStoreAssumption DEF TypeOK
  <2>2. \A j \in Jobs : jobs'[j].wakeRequestedAt \in Int /\ jobs'[j].attemptedAt \in Int
    BY DEF TypeOK, Row, Time, NoTime
  <2> QED BY <2>1, <2>2, Zenon
<1>1. ClaimsBehind' /\ FencesUnique'
  BY QuietRows, FieldTypes, Zenon DEF RowInv, QuietStep, ClaimsBehind, FencesUnique
<1>2. RunningIsClaimed'
  BY QuietRows, Zenon DEF RowInv, QuietStep, RunningIsClaimed
<1>3. LeaseIffUnowned'
  BY QuietRows, Zenon DEF RowInv, QuietStep, LeaseIffUnowned
<1>4. AttemptsCounted'
  <2> SUFFICES ASSUME NEW j \in Jobs
               PROVE  /\ jobs'[j].attempt >= 0
                      /\ IsRunning(j)' => jobs'[j].attempt >= 1
                      /\ UniqueKey[j] = NoKey /\ IsRunning(j)' => jobs'[j].attempt <= jobs'[j].maxAttempts
                      /\ UniqueKey[j] = NoKey /\ IsWaiting(j)' => jobs'[j].attempt < jobs'[j].maxAttempts
    BY Zenon DEF AttemptsCounted
  <2>1. QuietRow(j)
    BY Zenon DEF QuietStep
  <2>2. CASE jobs'[j] = jobs[j] \/ Marks(j)
    BY <2>1, <2>2, QuietRows, ZenonT(30) DEF RowInv, AttemptsCounted, IsRunning, IsWaiting, Waiting, Marks
  <2>3. CASE Queues(j)
    BY <2>3, FieldTypes DEF RowInv, AttemptsCounted, Queues, IsRunning, IsWaiting, Waiting
  <2>4. CASE Leaves(j)
    <3>1. PICK st \in Terminal \cup {"deleted"} : jobs'[j] = FinishedRow(jobs[j], st)
      BY <2>4, ZenonT(30) DEF Leaves
    <3>2. ~IsRunning(j)' /\ ~IsWaiting(j)'
      BY <3>1, RowClaims DEF IsRunning, IsWaiting, Waiting, Terminal
    <3>3. jobs'[j].attempt >= 0
      BY <3>1, RowAttempts DEF RowInv, AttemptsCounted
    <3> QED BY <3>2, <3>3, Zenon
  <2> QED BY <2>1, <2>2, <2>3, <2>4, Zenon DEF QuietRow
<1>5. WakesFresh'
  <2> SUFFICES ASSUME NEW j \in Jobs
               PROVE  /\ ~IsRunning(j)' => jobs'[j].wakeRequestedAt = NoTime
                      /\ IsRunning(j)' => jobs'[j].attemptedAt <= now'
                      /\ IsRunning(j)' /\ jobs'[j].wakeRequestedAt # NoTime => jobs'[j].wakeRequestedAt >= jobs'[j].attemptedAt
    BY ZenonT(30) DEF WakesFresh, Woken
  <2>1. CASE IsRunning(j)
    BY <1>t, <2>1, QuietRows, FieldTypes DEF QuietStep, RowInv, WakesFresh, Woken
  <2>2. CASE ~IsRunning(j)
    BY <2>2, QuietRows, Zenon DEF QuietStep, RowInv, WakesFresh
  <2> QED BY <2>1, <2>2, Zenon
<1> QED BY <1>1, <1>2, <1>3, <1>4, <1>5, Zenon DEF RowInv

(* What a claim writes. *)
LEMMA ClaimedRows ==
    ASSUME TypeOK, NEW j \in Jobs, NEW c, Claims(j, c)
    PROVE  /\ ~IsRunning(j) /\ IsWaiting(j) /\ IsRunning(j)' /\ ~IsWaiting(j)'
           /\ jobs'[j].fence = jobs[j].fence + 1 /\ jobs'[j].attempt = jobs[j].attempt + 1
           /\ jobs'[j].maxAttempts = jobs[j].maxAttempts /\ jobs'[j].attemptedBy = c
           /\ jobs'[j].attemptedAt = now /\ jobs'[j].wakeRequestedAt = jobs[j].wakeRequestedAt
           /\ CurrentClaim(j)' = ClaimOf(j, c)
<1>1. jobs[j] \in Row /\ jobs'[j] = ClaimedRow(jobs[j], c) /\ jobs[j].state \in Waiting
  BY Zenon DEF TypeOK, Claims, IsWaiting
<1>2. /\ jobs'[j].state = "running"
      /\ jobs'[j].fence = jobs[j].fence + 1 /\ jobs'[j].attempt = jobs[j].attempt + 1
      /\ jobs'[j].maxAttempts = jobs[j].maxAttempts /\ jobs'[j].attemptedBy = c
      /\ jobs'[j].attemptedAt = now /\ jobs'[j].wakeRequestedAt = jobs[j].wakeRequestedAt
  BY <1>1, ZenonT(30) DEF ClaimedRow, Row
<1>3. ~IsRunning(j) /\ IsWaiting(j) /\ IsRunning(j)' /\ ~IsWaiting(j)'
  BY <1>1, <1>2, Zenon DEF IsRunning, IsWaiting, Waiting
<1> QED BY <1>2, <1>3, Zenon DEF CurrentClaim, ClaimOf

(* A claim of the jobs of S by c, a client or a lease holder, keeps the invariant of rows. *)
LEMMA ClaimStepKeeps ==
    ASSUME TypeOK, TypeOK', RowInv, now' >= now,
           NEW c \in Clients \cup {NoClient}, NEW S \in SUBSET Jobs,
           \A j \in S : Claims(j, c),
           \A j \in Jobs \ S : jobs'[j] = jobs[j] /\ leases'[j] = leases[j],
           \A j \in S : IF c = NoClient THEN leases'[j].held /\ leases'[j].fence = jobs[j].fence + 1
                        ELSE leases'[j] = leases[j],
           claims' = claims \cup {ClaimOf(j, c) : j \in S}
    PROVE  RowInv'
<1>t. now' \in Nat
  BY JobStoreAssumption DEF TypeOK
<1>n. \A j \in S : ClaimOf(j, c).job = j /\ ClaimOf(j, c).fence = jobs[j].fence + 1
  BY Zenon DEF ClaimOf
<1>1. ClaimsBehind'
  <2> SUFFICES ASSUME NEW cl \in claims' PROVE cl.fence <= jobs'[cl.job].fence
    BY Zenon DEF ClaimsBehind
  <2>1. CASE cl \in claims
    <3>1. cl.fence <= jobs[cl.job].fence /\ cl.job \in Jobs /\ cl.fence \in Int /\ jobs[cl.job].fence \in Int
      BY <2>1, FieldTypes, Zenon DEF RowInv, ClaimsBehind
    <3>2. jobs'[cl.job].fence = jobs[cl.job].fence \/ jobs'[cl.job].fence = jobs[cl.job].fence + 1
      BY <3>1, ClaimedRows, Zenon
    <3> QED BY <3>1, <3>2
  <2>2. CASE \E j \in S : cl = ClaimOf(j, c)
    BY <1>n, <2>2, ClaimedRows, FieldTypes
  <2> QED BY <2>1, <2>2, Zenon
<1>2. FencesUnique'
  <2>1. \A a \in claims, j \in S : a.job = j => a.fence # ClaimOf(j, c).fence
    BY <1>n, FieldTypes DEF RowInv, ClaimsBehind
  <2> SUFFICES ASSUME NEW a \in claims', NEW b \in claims', a.job = b.job, a.fence = b.fence PROVE a = b
    BY Zenon DEF FencesUnique
  <2>2. CASE a \in claims /\ b \in claims
    BY <2>2, Zenon DEF RowInv, FencesUnique
  <2>3. CASE a \in claims /\ b \notin claims
    BY <1>n, <2>1, <2>3
  <2>4. CASE a \notin claims /\ b \in claims
    BY <1>n, <2>1, <2>4
  <2>5. CASE a \notin claims /\ b \notin claims
    BY <1>n, <2>5
  <2> QED BY <2>2, <2>3, <2>4, <2>5, ZenonT(30)
<1>3. RunningIsClaimed'
  <2> SUFFICES ASSUME NEW j \in Jobs, IsRunning(j)' PROVE CurrentClaim(j)' \in claims'
    BY Zenon DEF RunningIsClaimed
  <2>1. CASE j \in S
    BY <2>1, ClaimedRows
  <2>2. CASE j \notin S
    BY <2>2, Zenon DEF RowInv, RunningIsClaimed, CurrentClaim, IsRunning
  <2> QED BY <2>1, <2>2, Zenon
<1>4. LeaseIffUnowned'
  <2> SUFFICES ASSUME NEW j \in Jobs
               PROVE  /\ leases'[j].held <=> IsRunning(j)' /\ jobs'[j].attemptedBy = NoClient
                      /\ leases'[j].held => leases'[j].fence = jobs'[j].fence
    BY ZenonT(30) DEF LeaseIffUnowned
  <2>1. CASE j \in S
    BY <2>1, ClaimedRows DEF RowInv, LeaseIffUnowned
  <2>2. CASE j \notin S
    BY <2>2, ZenonT(30) DEF RowInv, LeaseIffUnowned, IsRunning
  <2> QED BY <2>1, <2>2, Zenon
<1>5. AttemptsCounted'
  <2> SUFFICES ASSUME NEW j \in Jobs
               PROVE  /\ jobs'[j].attempt >= 0
                      /\ IsRunning(j)' => jobs'[j].attempt >= 1
                      /\ UniqueKey[j] = NoKey /\ IsRunning(j)' => jobs'[j].attempt <= jobs'[j].maxAttempts
                      /\ UniqueKey[j] = NoKey /\ IsWaiting(j)' => jobs'[j].attempt < jobs'[j].maxAttempts
    BY Zenon DEF AttemptsCounted
  <2>1. CASE j \in S
    BY <2>1, ClaimedRows, FieldTypes DEF RowInv, AttemptsCounted
  <2>2. CASE j \notin S
    BY <2>2, Zenon DEF RowInv, AttemptsCounted, IsRunning, IsWaiting
  <2> QED BY <2>1, <2>2, Zenon
<1>6. WakesFresh'
  <2> SUFFICES ASSUME NEW j \in Jobs
               PROVE  /\ ~IsRunning(j)' => jobs'[j].wakeRequestedAt = NoTime
                      /\ IsRunning(j)' => jobs'[j].attemptedAt <= now'
                      /\ IsRunning(j)' /\ jobs'[j].wakeRequestedAt # NoTime => jobs'[j].wakeRequestedAt >= jobs'[j].attemptedAt
    BY Zenon DEF WakesFresh, Woken
  <2>1. CASE j \in S
    BY <1>t, <2>1, ClaimedRows, FieldTypes, ZenonT(30) DEF RowInv, WakesFresh
  <2>2. CASE j \notin S
    BY <1>t, <2>2, FieldTypes DEF RowInv, WakesFresh, Woken, IsRunning
  <2> QED BY <2>1, <2>2, Zenon
<1> QED BY <1>1, <1>2, <1>3, <1>4, <1>5, <1>6, Zenon DEF RowInv

(* The end of an attempt keeps the invariant of rows. *)
LEMMA EndStepKeeps ==
    ASSUME TypeOK, TypeOK', RowInv, EndStep, now' >= now
    PROVE  RowInv'
<1>t. now' \in Nat
  BY JobStoreAssumption DEF TypeOK
<1>0. PICK n \in Jobs :
        /\ Ends(n)
        /\ \A j \in Jobs \ {n} : jobs'[j] = jobs[j] /\ leases'[j] = leases[j]
        /\ IF jobs[n].attemptedBy = NoClient THEN ~leases'[n].held ELSE leases'[n] = leases[n]
        /\ claims' = claims
  BY Zenon DEF EndStep
<1>n. /\ IsRunning(n) /\ ~IsRunning(n)'
      /\ jobs'[n].fence = jobs[n].fence /\ jobs'[n].wakeRequestedAt = NoTime
  BY <1>0, Zenon DEF Ends, IsRunning, Waiting, Terminal
<1>1. ClaimsBehind' /\ FencesUnique'
  <2>1. \A j \in Jobs : jobs'[j].fence = jobs[j].fence
    BY <1>0, <1>n, Zenon
  <2> QED BY <1>0, <2>1, FieldTypes, Zenon DEF RowInv, ClaimsBehind, FencesUnique
<1>2. RunningIsClaimed'
  BY <1>0, <1>n, ZenonT(30) DEF RowInv, RunningIsClaimed, CurrentClaim, IsRunning
<1>3. LeaseIffUnowned'
  BY <1>0, <1>n DEF RowInv, LeaseIffUnowned, IsRunning
<1>4. AttemptsCounted'
  <2>1. jobs[n].attempt >= 1 /\ (UniqueKey[n] = NoKey => jobs[n].attempt <= jobs[n].maxAttempts)
    BY <1>n, Zenon DEF RowInv, AttemptsCounted
  <2>2. /\ jobs'[n].attempt >= 0
        /\ UniqueKey[n] = NoKey /\ IsWaiting(n)' => jobs'[n].attempt < jobs'[n].maxAttempts
    <3>1. jobs'[n].state \in Waiting => /\ jobs'[n].attempt >= 0
                                        /\ UniqueKey[n] = NoKey => jobs'[n].attempt < jobs'[n].maxAttempts
      BY <1>0, <2>1, FieldTypes DEF Ends
    <3>2. jobs'[n].state \notin Waiting => jobs'[n].attempt >= 0
      BY <1>0, <2>1, FieldTypes DEF Ends
    <3> QED BY <3>1, <3>2, ZenonT(30) DEF IsWaiting
  <2> QED BY <1>0, <1>n, <2>2, Zenon DEF RowInv, AttemptsCounted, IsRunning, IsWaiting
<1>5. WakesFresh'
  <2>1. \A j \in Jobs \ {n} : IsRunning(j)' = IsRunning(j) /\ Woken(j)' = Woken(j)
    BY <1>0, Zenon DEF IsRunning, Woken
  <2> QED BY <1>0, <1>n, <1>t, <2>1, FieldTypes DEF RowInv, WakesFresh
<1> QED BY <1>1, <1>2, <1>3, <1>4, <1>5, Zenon DEF RowInv
-----------------------------------------------------------------------------
(* The steps that change neither the clock, the clients nor what rescues read. *)
Elsewhere == UNCHANGED <<now, clients, lost>>

(* A step changes at most one of the three, and only these actions do. *)
LEMMA ClientSteps ==
    ASSUME [Next]_vars
    PROVE  \/ Elsewhere
           \/ \E j \in Jobs : JobRescueCandidates(j)
           \/ \E c \in Clients : ClientRegister(c) \/ ClientRenew(c) \/ ClientDelete(c)
           \/ ClientPruneExpired
           \/ Tick
  BY ZenonT(30) DEF Next, vars, Elsewhere, JobInsert, JobReplace, JobClaim, JobClaimByID, JobFinalize, LeaseFinish, JobLeaseRenew,
         Rescue, JobExpireLease, JobDiscardExpired, JobCancel, JobDelete, JobRetryHistory, JobRetryLive, JobRetryOrderingKey

(* Time does not go back, and a client whose lease has lapsed has lapsed for good. *)
LEMMA LapsedForGood ==
    ASSUME TypeOK, [Next]_vars
    PROVE  /\ now' >= now
           /\ \A c \in Clients : clients[c].row # "unused" =>
                 clients'[c].row # "unused" /\ (~LeaseLive(c) => ~LeaseLive(c)')
<1>t. now \in Nat /\ \A c \in Clients : clients[c] \in ClientRow /\ clients[c].expiresAt \in Nat
  BY JobStoreAssumption DEF TypeOK, ClientRow, Time
<1>1. CASE now' = now /\ clients' = clients
  BY <1>t, <1>1 DEF LeaseLive
<1>2. CASE Tick
  BY <1>t, <1>2 DEF Tick, LeaseLive
<1>3. ASSUME NEW c \in Clients, ClientRegister(c) \/ ClientRenew(c) \/ ClientDelete(c)
      PROVE  /\ now' >= now
             /\ \A d \in Clients : clients[d].row # "unused" =>
                   clients'[d].row # "unused" /\ (~LeaseLive(d) => ~LeaseLive(d)')
  <2>1. CASE ClientRegister(c)
    BY <1>t, <2>1 DEF ClientRegister, LeaseLive, TypeOK
  <2>2. CASE ClientRenew(c)
    <3>1. clients'[c].row = "present" /\ LeaseLive(c) /\ now' = now /\ \A d \in Clients \ {c} : clients'[d] = clients[d]
      BY <1>t, <2>2, Zenon DEF ClientRenew, LeaseLive, TypeOK, ClientRow
    <3> QED BY <1>t, <3>1 DEF LeaseLive
  <2>3. CASE ClientDelete(c)
    BY <1>t, <2>3 DEF ClientDelete, RemovedClient, LeaseLive, TypeOK
  <2> QED BY <1>3, <2>1, <2>2, <2>3, ZenonT(30)
<1>4. CASE ClientPruneExpired
  BY <1>t, <1>4 DEF ClientPruneExpired, RemovedClient, LeaseLive, TypeOK
<1> QED BY <1>1, <1>2, <1>3, <1>4, ClientSteps, ZenonT(30) DEF Elsewhere, JobRescueCandidates

(* Claims and rescue candidates name clients that were registered, and a lost one stays lost. *)
LEMMA ClientsKeep ==
    ASSUME TypeOK, ClaimInv, ClaimStep, [Next]_vars
    PROVE  ClaimantsKnown' /\ LostClaimed' /\ LostStaysLost'
<1>1. ClaimantsKnown'
  <2>1. ASSUME NEW cl \in claims', cl.by # NoClient PROVE cl.by \in Clients /\ clients[cl.by].row # "unused"
    <3>1. CASE cl \in claims
      BY <2>1, <3>1, FieldTypes, SMTT(30) DEF ClaimInv, ClaimantsKnown
    <3>2. CASE cl \notin claims
      BY <2>1, <3>2 DEF ClaimStep, QuietStep, ClientClaimStep, LeaseClaimStep, EndStep, ClaimOf
    <3> QED BY <3>1, <3>2, Zenon
  <2> QED BY <2>1, LapsedForGood, Zenon DEF ClaimantsKnown
<1>2. claims \subseteq claims'
  BY Zenon DEF ClaimStep, QuietStep, ClientClaimStep, LeaseClaimStep, EndStep
<1>3. ASSUME NEW cand \in lost'
      PROVE  /\ cand.claim \in claims' /\ cand.claim.by # NoClient
             /\ ~cand.stuck => ~LeaseLive(cand.claim.by)'
  <2>1. CASE cand \in lost
    <3>1. cand.claim \in claims /\ cand.claim.by \in Clients /\ clients[cand.claim.by].row # "unused"
      BY <2>1, FieldTypes, Zenon DEF ClaimInv, LostClaimed, ClaimantsKnown
    <3>2. ~cand.stuck => ~LeaseLive(cand.claim.by)
      BY <2>1, Zenon DEF ClaimInv, LostStaysLost
    <3> QED BY <1>2, <2>1, <3>1, <3>2, LapsedForGood, Zenon DEF ClaimInv, LostClaimed
  <2>2. CASE cand \notin lost
    <3>1. PICK j \in Jobs : JobRescueCandidates(j)
      BY <2>2, ClientSteps, Zenon DEF Elsewhere, ClientRegister, ClientRenew, ClientDelete, ClientPruneExpired, Tick
    <3>2. cand = [claim |-> CurrentClaim(j), stuck |-> Stuck(j)] /\ claims' = claims /\ UNCHANGED <<now, clients>>
      BY <2>2, <3>1, Zenon DEF JobRescueCandidates
    <3>3. CurrentClaim(j) \in claims /\ CurrentClaim(j).by = jobs[j].attemptedBy
      BY <3>1, Zenon DEF JobRescueCandidates, RescueCandidate, ClaimInv, RunningIsClaimed, CurrentClaim
    <3>4. jobs[j].attemptedBy # NoClient /\ (Stuck(j) \/ ~LeaseLive(jobs[j].attemptedBy))
      BY <3>1, Zenon DEF JobRescueCandidates, RescueCandidate
    <3> QED BY <3>2, <3>3, <3>4, Zenon DEF LeaseLive
  <2> QED BY <2>1, <2>2, Zenon
<1> QED BY <1>1, <1>3, Zenon DEF LostClaimed, LostStaysLost

(* The invariant is inductive. *)
LEMMA ClaimNext ==
    ASSUME TypeOK, TypeOK', ClaimInv, [Next]_vars
    PROVE  ClaimInv'
<1>1. ClaimStep
  BY StepShape, Zenon
<1>2. RowInv /\ now' >= now
  BY LapsedForGood, Zenon DEF ClaimInv, RowInv
<1>3. RowInv'
  <2>1. CASE QuietStep
    BY <1>2, <2>1, QuietKeeps, Zenon
  <2>2. CASE ClientClaimStep
    <3>1. PICK c \in Clients, S \in SUBSET Jobs :
            /\ \A j \in S : Claims(j, c)
            /\ \A j \in Jobs \ S : jobs'[j] = jobs[j]
            /\ leases' = leases
            /\ claims' = claims \cup {ClaimOf(j, c) : j \in S}
      BY <2>2, Zenon DEF ClientClaimStep
    <3>2. c # NoClient /\ c \in Clients \cup {NoClient}
      BY JobStoreAssumption, Zenon
    <3> QED BY <1>2, <3>1, <3>2, ClaimStepKeeps, Zenon
  <2>3. CASE LeaseClaimStep
    <3>1. PICK n \in Jobs :
            /\ Claims(n, NoClient)
            /\ \A j \in Jobs \ {n} : jobs'[j] = jobs[j] /\ leases'[j] = leases[j]
            /\ leases'[n].held /\ leases'[n].fence = jobs[n].fence + 1
            /\ claims' = claims \cup {ClaimOf(n, NoClient)}
      BY <2>3, Zenon DEF LeaseClaimStep
    <3>2. {n} \in SUBSET Jobs /\ {ClaimOf(n, NoClient)} = {ClaimOf(j, NoClient) : j \in {n}}
      BY Zenon
    <3> QED BY <1>2, <3>1, <3>2, ClaimStepKeeps, Zenon
  <2>4. CASE EndStep
    BY <1>2, <2>4, EndStepKeeps, Zenon
  <2> QED BY <1>1, <2>1, <2>2, <2>3, <2>4, Zenon DEF ClaimStep
<1>4. ClaimantsKnown' /\ LostClaimed' /\ LostStaysLost'
  BY <1>1, ClientsKeep, Zenon
<1>5. AbsentUnclaimed'
  BY AbsentNext, Zenon DEF ClaimInv
<1> QED BY <1>3, <1>4, <1>5, Zenon DEF ClaimInv, RowInv

LEMMA ClaimStart == Init => ClaimInv
<1> SUFFICES ASSUME Init PROVE ClaimInv
  BY Zenon
<1>1. claims = {} /\ lost = {}
  BY Zenon DEF Init
<1>2. \A j \in Jobs : jobs[j] = AbsentRow /\ ~leases[j].held
  BY ZenonT(30) DEF Init, NoLease
<1>3. \A j \in Jobs : /\ jobs[j].state = "absent" /\ jobs[j].fence = 0 /\ jobs[j].attempt = 0
                     /\ jobs[j].wakeRequestedAt = NoTime
  BY <1>2 DEF AbsentRow
<1>4. RowInv /\ AbsentUnclaimed
  BY <1>1, <1>2, <1>3 DEF RowInv, ClaimsBehind, FencesUnique, RunningIsClaimed, LeaseIffUnowned, AttemptsCounted,
                         WakesFresh, AbsentUnclaimed, IsRunning, IsWaiting, Waiting
<1> QED BY <1>1, <1>4, Zenon DEF ClaimInv, RowInv, ClaimantsKnown, LostClaimed, LostStaysLost

LEMMA ClaimsAlways == Spec => []ClaimInv
  BY ClaimStart, ClaimNext, TypeCorrect, PTL DEF Spec
-----------------------------------------------------------------------------
(* The store's rows are sound: a claim is known by its fence alone, what    *)
(* runs is what some holder was told, a lease stands exactly for a job no   *)
(* client owns, a lost client stays lost, and no attempt passes             *)
(* max_attempts.                                                            *)
THEOREM ClaimsKept == Spec => []ClaimsSound
<1>1. TypeOK /\ ClaimInv => ClaimsSound
  <2>1. TypeOK /\ AttemptsCounted => AttemptWithinMax
    BY FieldTypes DEF AttemptsCounted, AttemptWithinMax
  <2> QED BY <2>1, Zenon DEF ClaimInv, ClaimsSound
<1> QED BY <1>1, ClaimsAlways, TypeCorrect, PTL

(* No late result, rescue, expiry or cancel reaches a finished job. *)
THEOREM FinishedKept == Spec => FinishedIsFinal
<1> DEFINE Final == \A j \in Jobs : jobs[j].state \in Terminal /\ jobs'[j] # jobs[j] =>
                        \/ jobs'[j].state = "available" /\ jobs'[j].fence = jobs[j].fence
                        \/ jobs'[j].state = "deleted"
<1>1. TypeOK /\ ClaimInv /\ [Next]_vars => [Final]_vars
  <2> SUFFICES ASSUME TypeOK, ClaimInv, [Next]_vars, NEW j \in Jobs, jobs[j].state \in Terminal, jobs'[j] # jobs[j]
               PROVE  \/ jobs'[j].state = "available" /\ jobs'[j].fence = jobs[j].fence
                      \/ jobs'[j].state = "deleted"
    BY Zenon
  <2>1. jobs[j].state # "running" /\ jobs[j].state \notin Waiting
    BY Zenon DEF Terminal, Waiting
  <2>2. QuietRow(j)
    BY <2>1, StepShape, Zenon DEF ClaimStep, QuietStep, ClientClaimStep, LeaseClaimStep, EndStep, Claims, Ends, IsWaiting
  <2>3. CASE Queues(j)
    BY <2>3, Zenon DEF Queues
  <2>4. CASE Leaves(j)
    <3>1. jobs'[j] = FinishedRow(jobs[j], "deleted")
      BY <2>1, <2>4, Zenon DEF Leaves
    <3>2. FinishedRow(jobs[j], "deleted").state = "deleted"
      BY RowClaims, ZenonT(30)
    <3> QED BY <3>1, <3>2, Zenon
  <2> QED BY <2>1, <2>2, <2>3, <2>4, Zenon DEF QuietRow, Marks
<1> QED BY <1>1, ClaimsAlways, TypeCorrect, PTL DEF Spec, FinishedIsFinal

(* However the attempt of a woken job ends, the job is due at once if it is to run again. *)
THEOREM WakeKept == Spec => WakeHonored
<1> DEFINE Due == \A j \in Jobs : IsRunning(j) /\ jobs[j].wakeRequestedAt # NoTime /\ jobs'[j].state \in Waiting
                        => jobs'[j].scheduledAt <= now
<1>1. TypeOK /\ ClaimInv /\ [Next]_vars => [Due]_vars
  <2> SUFFICES ASSUME TypeOK, ClaimInv, [Next]_vars, NEW j \in Jobs,
                      IsRunning(j), jobs[j].wakeRequestedAt # NoTime, jobs'[j].state \in Waiting
               PROVE  jobs'[j].scheduledAt <= now
    BY Zenon
  <2>1. jobs'[j].state # "running"
    BY Zenon DEF Waiting
  <2>2. ~QuietRow(j)
    BY <2>1, QuietRows, Zenon DEF IsRunning
  <2>3. Ends(j)
    BY <2>1, <2>2, StepShape, Zenon DEF ClaimStep, QuietStep, QuietRow, ClientClaimStep, LeaseClaimStep, EndStep, Claims, IsWaiting, IsRunning, Waiting
  <2>4. Woken(j)
    BY Zenon DEF ClaimInv, WakesFresh
  <2> QED BY <2>3, <2>4, FieldTypes DEF Ends
<1> QED BY <1>1, ClaimsAlways, TypeCorrect, PTL DEF Spec, WakeHonored
=============================================================================
