---------------------------- MODULE PgJobProofs ----------------------------
(***************************************************************************)
(* Proofs about PgJobs, for any connections and jobs: statements that go on  *)
(* from their snapshots once what they waited for has committed run one job  *)
(* of a key at a time, keep the key unique through history and lose no wake  *)
(* of a call that no earlier one was still to mark for, and a delete finds   *)
(* the job that was there.                                                   *)
(***************************************************************************)
EXTENDS PgJobs, TLAPS

\* The time a prover may take on a leaf that names none, on a loaded machine too.
USE SMTT(30), ZenonT(30)

(***************************************************************************)
(* The inductive invariant.                                                 *)
(***************************************************************************)
Wakers == {"mark", "wake", "waking"}
OnJob == {"finalize", "look", "retry_history", "retry_commit", "delete_live", "delete_history",
          "delete_live_again", "delete_history_again"}

\* A record of these fields, whatever is in them.
RowShaped(r) == r \in [st : {r.st}, seq : {r.seq}, fence : {r.fence}, at : {r.at}, mark : {r.mark}, past : {r.past}]
CallShaped(c) == c \in [pc : {c.pc}, job : {c.job}, snap : {c.snap}, fence : {c.fence}, out : {c.out},
                        since : {c.since}, lasted : {c.lasted}, from : {c.from}, clear : {c.clear}]

RowsOK ==
    /\ rows = [j \in Rows |-> rows[j]]
    /\ \A j \in Rows : RowShaped(rows[j]) /\ rows[j].at \in Nat /\ rows[j].mark \in Nat
CallsOK ==
    /\ backends = [b \in Backends |-> backends[b]]
    /\ \A b \in Backends : /\ CallShaped(backends[b]) /\ backends[b].since \in Nat
                           /\ backends[b].pc \in OnJob => backends[b].job \in Rows
ClocksOK == clock \in Nat /\ woken \in Nat /\ \A c \in claims : c[1] \in Rows

\* Two transactions hold two jobs.
HoldersApart ==
    \A b, c \in Backends : b # c /\ backends[b].pc \in Holding /\ backends[c].pc \in Holding =>
        backends[b].job # backends[c].job
\* What a transaction holds is as it found it.
HeldAsFound ==
    \A b \in Backends :
        /\ backends[b].pc = "finalize" => rows[backends[b].job].st = "running"
        /\ backends[b].pc = "retry_commit" => rows[backends[b].job].past # "none"
\* Who is about to give the key to a job is alone in it, and finds no live job
\* with the key.
KeyAlone ==
    \A b \in Backends : backends[b].pc \in {"look", "retry_commit"} /\ backends[b].job \in UniqueJobs =>
        /\ \A k \in UniqueJobs \ {backends[b].job} : ~Live(rows[k])
        /\ \A c \in Backends \ {b} : backends[c].pc \in {"look", "retry_commit"} => backends[c].job \notin UniqueJobs

\* A clear call began before those that are still to mark, the latest that has
\* returned among them.
CallTimes ==
    /\ woken <= clock
    /\ \A b \in Backends : backends[b].pc \in Wakers => backends[b].since <= clock
    /\ \A b \in Backends : backends[b].pc = "mark" => woken < backends[b].since
    /\ \A b, c \in Backends : b # c /\ backends[b].pc \in Wakers /\ backends[b].clear /\ backends[c].pc = "mark" =>
          backends[b].since < backends[c].since
\* An attempt that a wake call is to reach is in its snapshot until it has
\* marked and, if the call is clear, marked after, and asleep in its second
\* snapshot if it went to sleep before.
WakeReaches ==
    \A b \in Backends : \A j \in Rows : rows[j].at <= backends[b].since =>
        /\ backends[b].pc = "mark" /\ rows[j].st = "running" => backends[b].snap[j].st = "running"
        /\ backends[b].pc \in {"wake", "waking"} /\ backends[b].clear /\ rows[j].st = "running" => rows[j].mark >= rows[j].at
        /\ backends[b].pc = "waking" /\ backends[b].clear /\ rows[j].st = "sleeping" => backends[b].snap[j].st = "sleeping"
WakeInv ==
    /\ CallTimes
    /\ \A j \in Rows : rows[j].at <= clock
    /\ WakeNotLost
    /\ \A j \in Rows : rows[j].st = "running" /\ rows[j].at <= woken => rows[j].mark >= rows[j].at
    /\ WakeReaches

JobsInv ==
    /\ RowsOK /\ CallsOK /\ ClocksOK
    /\ OneRunsPerKey /\ HoldersApart /\ HeldAsFound /\ KeyAlone
    /\ WakeInv

-----------------------------------------------------------------------------
LEMMA FreeIs ==
    /\ CallShaped(Free) /\ Free.pc = "free" /\ Free.since = 0 /\ Free.since \in Nat
    /\ RowShaped(NoRow) /\ NoRow.st = "absent" /\ NoRow.at = 0 /\ NoRow.mark = 0 /\ NoRow.past = "none" /\ 0 \in Nat
  BY DEF CallShaped, Free, RowShaped, NoRow

\* A step of one connection.
LEMMA OneSteps ==
    ASSUME CallsOK, NEW b \in Backends, NEW rec, Step(b, rec), CallShaped(rec), rec.since \in Nat,
           rec.pc \in OnJob => rec.job \in Rows
    PROVE  CallsOK' /\ backends'[b] = rec /\ \A c \in Backends \ {b} : backends'[c] = backends[c]
  <1>1. backends'[b] = rec /\ \A c \in Backends \ {b} : backends'[c] = backends[c]
    BY Zenon DEF CallsOK, Step
  <1>2. backends' = [c \in Backends |-> backends'[c]]
    BY Zenon DEF CallsOK, Step
  <1> QED
    BY <1>1, <1>2, Zenon DEF CallsOK

LEMMA OneReturns ==
    ASSUME CallsOK, NEW b \in Backends, Return(b)
    PROVE  CallsOK' /\ backends'[b] = Free /\ \A c \in Backends \ {b} : backends'[c] = backends[c]
  BY OneSteps, FreeIs, Zenon DEF Return, OnJob

\* A change of one row.
LEMMA OneRow ==
    ASSUME RowsOK, NEW j \in Rows, NEW r, rows' = [rows EXCEPT ![j] = r], RowShaped(r), r.at \in Nat, r.mark \in Nat
    PROVE  RowsOK' /\ rows'[j] = r /\ \A k \in Rows \ {j} : rows'[k] = rows[k]
  <1>1. rows'[j] = r /\ \A k \in Rows \ {j} : rows'[k] = rows[k]
    BY Zenon DEF RowsOK
  <1>2. rows' = [k \in Rows |-> rows'[k]]
    BY Zenon DEF RowsOK
  <1> QED
    BY <1>1, <1>2, Zenon DEF RowsOK

LEMMA Begins == PgJobsInit => JobsInv
  <1> SUFFICES ASSUME PgJobsInit PROVE JobsInv
    BY Zenon
  <1>1. RowsOK /\ \A j \in Rows : rows[j].st \in {"available", "absent"} /\ rows[j].at = 0
    <2>1. \A j \in Rows : rows[j] = NoRow \/ rows[j] = [NoRow EXCEPT !.st = "available", !.seq = j]
      BY Zenon DEF PgJobsInit
    <2>2. rows = [j \in Rows |-> rows[j]]
      BY Zenon DEF PgJobsInit
    <2>3. ASSUME NEW j \in Rows
          PROVE  RowShaped(rows[j]) /\ rows[j].st \in {"available", "absent"} /\ rows[j].at = 0 /\ rows[j].mark = 0
      <3>1. CASE rows[j] = NoRow
        BY <3>1, FreeIs, Zenon
      <3>2. CASE rows[j] = [NoRow EXCEPT !.st = "available", !.seq = j]
        BY <3>2, FreeIs, ZenonT(30) DEF RowShaped
      <3> QED
        BY <2>1, <3>1, <3>2, Zenon
    <2> QED
      BY <2>2, <2>3 DEF RowsOK
  <1>2. CallsOK /\ \A b \in Backends : backends[b] = Free
    BY FreeIs, Zenon DEF PgJobsInit, CallsOK, OnJob
  <1>3. \A b \in Backends : backends[b].pc = "free"
    BY <1>2, FreeIs, ZenonT(30)
  <1>4. ClocksOK
    BY Zenon DEF PgJobsInit, ClocksOK
  <1>5. OneRunsPerKey /\ HoldersApart /\ HeldAsFound /\ KeyAlone
    BY <1>1, <1>3, Zenon DEF OneRunsPerKey, HoldersApart, HeldAsFound, KeyAlone, Holding
  <1>6. WakeInv
    <2>1. WakeNotLost /\ WakeReaches /\ \A j \in Rows : rows[j].st # "running"
      BY <1>1, <1>3, Zenon DEF WakeNotLost, WakeReaches
    <2>2. woken <= clock /\ \A j \in Rows : rows[j].at <= clock
      <3>1. woken = 0 /\ clock = 1 /\ \A j \in Rows : rows[j].at = 0
        BY <1>1, Zenon DEF PgJobsInit
      <3> QED
        BY <3>1
    <2>3. \A b \in Backends : backends[b].pc \notin Wakers
      BY <1>3, Zenon DEF Wakers
    <2>4. CallTimes
      BY <1>3, <2>2, <2>3, Zenon DEF CallTimes
    <2> QED
      BY <2>1, <2>2, <2>4, Zenon DEF WakeInv
  <1> QED
    BY <1>1, <1>2, <1>4, <1>5, <1>6, Zenon DEF JobsInv

-----------------------------------------------------------------------------
\* Locks are kept by a step that takes none, changes no row that is held in
\* what its holder found, and makes no job live.
LEMMA LocksStay ==
    ASSUME HoldersApart, HeldAsFound, KeyAlone,
           \A c \in Backends : backends'[c].pc \in Holding =>
               /\ backends'[c].pc = backends[c].pc /\ backends'[c].job = backends[c].job
               /\ backends[c].pc = "finalize" => rows'[backends[c].job].st = rows[backends[c].job].st
               /\ backends[c].pc = "retry_commit" => rows'[backends[c].job].past = rows[backends[c].job].past,
           \A k \in UniqueJobs : Live(rows'[k]) => Live(rows[k])
    PROVE  HoldersApart' /\ HeldAsFound' /\ KeyAlone' /\ UniqueInHistory
  <1>0. HoldersApart'
    <2>1. \A c \in Backends : backends'[c].pc \in Holding => backends[c].pc \in Holding /\ backends'[c].job = backends[c].job
      BY Zenon
    <2> QED
      BY <2>1 DEF HoldersApart
  <1>1. HeldAsFound'
    <2>1. ASSUME NEW c \in Backends, backends'[c].pc = "finalize" PROVE rows'[backends'[c].job].st = "running"
      <3>1. backends[c].pc = "finalize" /\ backends'[c].job = backends[c].job
        BY <2>1, Zenon DEF Holding
      <3> QED
        BY <2>1, <3>1, Zenon DEF HeldAsFound, Holding
    <2>2. ASSUME NEW c \in Backends, backends'[c].pc = "retry_commit" PROVE rows'[backends'[c].job].past # "none"
      <3>1. backends[c].pc = "retry_commit" /\ backends'[c].job = backends[c].job
        BY <2>2, Zenon DEF Holding
      <3> QED
        BY <2>2, <3>1, Zenon DEF HeldAsFound, Holding
    <2> QED
      BY <2>1, <2>2, Zenon DEF HeldAsFound
  <1>2. KeyAlone'
    BY ZenonT(30) DEF KeyAlone, Holding, Live
  <1>3. UniqueInHistory
    BY Zenon DEF UniqueInHistory
  <1> QED
    BY <1>0, <1>1, <1>2, <1>3, Zenon

\* Of the wake calls, a step that is none of theirs keeps the order.
LEMMA TimesStay ==
    ASSUME CallsOK, ClocksOK, CallTimes, clock' \in Nat, clock <= clock', woken' = woken,
           \A c \in Backends : backends'[c].pc \in Wakers =>
               /\ backends'[c].pc = backends[c].pc /\ backends'[c].snap = backends[c].snap
               /\ backends'[c].since = backends[c].since /\ backends'[c].clear = backends[c].clear
    PROVE  CallTimes'
  <1>1. woken' <= clock' /\ \A b \in Backends : backends'[b].pc \in Wakers => backends'[b].since <= clock'
    BY DEF CallTimes, CallsOK, ClocksOK
  <1>2. \A b \in Backends : backends'[b].pc = "mark" => backends'[b].pc \in Wakers
    BY Zenon DEF Wakers
  <1>3. \A b \in Backends : backends'[b].pc = "mark" => woken' < backends'[b].since
    BY <1>2, Zenon DEF CallTimes
  <1>4. \A b, c \in Backends : b # c /\ backends'[b].pc \in Wakers /\ backends'[b].clear /\ backends'[c].pc = "mark" =>
            backends'[b].since < backends'[c].since
    BY <1>2, ZenonT(30) DEF CallTimes
  <1> QED
    BY <1>1, <1>3, <1>4, Zenon DEF CallTimes

\* Wakes are kept by a step that begins no attempt, puts none to sleep and
\* marks none, and is no step of a wake call.
LEMMA WakesStay ==
    ASSUME RowsOK, CallsOK, ClocksOK, RowsOK', CallsOK', WakeInv, clock' \in Nat, clock <= clock', woken' = woken,
           \A c \in Backends : backends'[c].pc \in Wakers =>
               /\ backends'[c].pc = backends[c].pc /\ backends'[c].snap = backends[c].snap
               /\ backends'[c].since = backends[c].since /\ backends'[c].clear = backends[c].clear,
           \A j \in Rows :
               /\ rows'[j].at = rows[j].at \/ (rows'[j].at = 0 /\ rows'[j].st = "available")
               /\ rows'[j].st = "running" => rows[j].st = "running" /\ rows'[j].mark = rows[j].mark
               /\ rows'[j].st = "sleeping" => rows[j].st = "sleeping"
    PROVE  WakeInv'
  <1>1. CallTimes'
    BY TimesStay, Zenon DEF WakeInv
  <1>3. \A j \in Rows : rows'[j].at <= clock'
    BY DEF WakeInv, RowsOK, ClocksOK
  <1>4. WakeNotLost' /\ \A j \in Rows : rows'[j].st = "running" /\ rows'[j].at <= woken' => rows'[j].mark >= rows'[j].at
    BY Zenon DEF WakeInv, WakeNotLost
  <1>5. WakeReaches'
    <2> SUFFICES ASSUME NEW b \in Backends, NEW j \in Rows, rows'[j].at <= backends'[b].since, backends'[b].pc \in Wakers
                 PROVE  /\ backends'[b].pc = "mark" /\ rows'[j].st = "running" => backends'[b].snap[j].st = "running"
                        /\ backends'[b].pc \in {"wake", "waking"} /\ backends'[b].clear /\ rows'[j].st = "running" => rows'[j].mark >= rows'[j].at
                        /\ backends'[b].pc = "waking" /\ backends'[b].clear /\ rows'[j].st = "sleeping" => backends'[b].snap[j].st = "sleeping"
      BY Zenon DEF WakeReaches, Wakers
    <2>1. backends'[b].pc = backends[b].pc /\ backends'[b].snap = backends[b].snap /\ backends'[b].since = backends[b].since
      BY Zenon
    <2>2. CASE rows'[j].at = rows[j].at
      <3>1. rows[j].at <= backends[b].since
        BY <2>1, <2>2, Zenon
      <3>2. /\ backends[b].pc = "mark" /\ rows[j].st = "running" => backends[b].snap[j].st = "running"
            /\ backends[b].pc \in {"wake", "waking"} /\ backends[b].clear /\ rows[j].st = "running" => rows[j].mark >= rows[j].at
            /\ backends[b].pc = "waking" /\ backends[b].clear /\ rows[j].st = "sleeping" => backends[b].snap[j].st = "sleeping"
        BY <3>1, Zenon DEF WakeInv, WakeReaches
      <3>3. /\ rows'[j].st = "running" => rows[j].st = "running" /\ rows'[j].mark = rows[j].mark
            /\ rows'[j].st = "sleeping" => rows[j].st = "sleeping"
        BY Zenon
      <3> QED
        BY <2>1, <2>2, <3>2, <3>3, Zenon
    <2>3. CASE rows'[j].st = "available"
      BY <2>3, Zenon
    <2> QED
      BY <2>2, <2>3, Zenon
  <1> QED
    BY <1>1, <1>3, <1>4, <1>5, Zenon DEF WakeInv

LEMMA RunsStay ==
    ASSUME OneRunsPerKey, \A j \in Rows : rows'[j].st = "running" => rows[j].st = "running"
    PROVE  OneRunsPerKey'
  BY Zenon DEF OneRunsPerKey

\* A step that is none of those.
LEMMA AllStays ==
    ASSUME JobsInv, RowsOK', CallsOK', ClocksOK', clock <= clock', woken' = woken,
           \A c \in Backends :
               /\ backends'[c].pc \in Holding \cup Wakers =>
                    /\ backends'[c].pc = backends[c].pc /\ backends'[c].job = backends[c].job
                    /\ backends'[c].snap = backends[c].snap /\ backends'[c].since = backends[c].since /\ backends'[c].clear = backends[c].clear
               /\ backends'[c].pc = "finalize" => rows'[backends[c].job].st = rows[backends[c].job].st
               /\ backends'[c].pc = "retry_commit" => rows'[backends[c].job].past = rows[backends[c].job].past,
           \A j \in Rows :
               /\ rows'[j].at = rows[j].at \/ (rows'[j].at = 0 /\ rows'[j].st = "available")
               /\ rows'[j].st = "running" => rows[j].st = "running" /\ rows'[j].mark = rows[j].mark
               /\ rows'[j].st = "sleeping" => rows[j].st = "sleeping"
               /\ j \in UniqueJobs /\ Live(rows'[j]) => Live(rows[j])
    PROVE  JobsInv' /\ UniqueInHistory
  <1>1. HoldersApart' /\ HeldAsFound' /\ KeyAlone' /\ UniqueInHistory
    <2>1. \A k \in UniqueJobs : Live(rows'[k]) => Live(rows[k])
      BY PgJobsAssumption, Zenon
    <2>2. HoldersApart /\ HeldAsFound /\ KeyAlone
      BY Zenon DEF JobsInv
    <2> QED
      BY <2>1, <2>2, LocksStay, ZenonT(30)
  <1>2. WakeInv'
    BY WakesStay, Zenon DEF JobsInv, ClocksOK
  <1>3. OneRunsPerKey'
    BY RunsStay, Zenon DEF JobsInv
  <1> QED
    BY <1>1, <1>2, <1>3, Zenon DEF JobsInv

\* The fields of the rows and the calls.
LEMMA Fields ==
    ASSUME JobsInv
    PROVE  /\ \A j \in Rows : RowShaped(rows[j]) /\ rows[j].at \in Nat /\ rows[j].mark \in Nat
           /\ \A b \in Backends : /\ CallShaped(backends[b]) /\ backends[b].since \in Nat
                                  /\ backends[b].pc \in OnJob => backends[b].job \in Rows
           /\ clock \in Nat /\ woken \in Nat /\ \A c \in claims : c[1] \in Rows
  BY Zenon DEF JobsInv, RowsOK, CallsOK, ClocksOK

\* A step of one connection that changes no row and takes no lock.
LEMMA OneCalls ==
    ASSUME JobsInv, NEW b \in Backends, NEW rec, Step(b, rec), CallShaped(rec), rec.since \in Nat,
           rec.pc \in OnJob => rec.job \in Rows, rec.pc \notin Holding \cup Wakers,
           rows' = rows, clock' \in Nat, clock <= clock', woken' = woken, claims' = claims
    PROVE  JobsInv' /\ UniqueInHistory
  <1>1. CallsOK' /\ backends'[b] = rec /\ \A c \in Backends \ {b} : backends'[c] = backends[c]
    BY OneSteps, Zenon DEF JobsInv
  <1>2. RowsOK' /\ ClocksOK'
    BY Zenon DEF JobsInv, RowsOK, ClocksOK
  <1>3. \A c \in Backends : backends'[c].pc \in Holding \cup Wakers => backends'[c] = backends[c]
    BY <1>1, Zenon
  <1>4. \A c \in Backends :
               /\ backends'[c].pc \in Holding \cup Wakers =>
                    /\ backends'[c].pc = backends[c].pc /\ backends'[c].job = backends[c].job
                    /\ backends'[c].snap = backends[c].snap /\ backends'[c].since = backends[c].since /\ backends'[c].clear = backends[c].clear
               /\ backends'[c].pc = "finalize" => rows'[backends[c].job].st = rows[backends[c].job].st
               /\ backends'[c].pc = "retry_commit" => rows'[backends[c].job].past = rows[backends[c].job].past
    BY <1>3, Zenon
  <1>5. \A j \in Rows :
               /\ rows'[j].at = rows[j].at \/ (rows'[j].at = 0 /\ rows'[j].st = "available")
               /\ rows'[j].st = "running" => rows[j].st = "running" /\ rows'[j].mark = rows[j].mark
               /\ rows'[j].st = "sleeping" => rows[j].st = "sleeping"
               /\ j \in UniqueJobs /\ Live(rows'[j]) => Live(rows[j])
    BY Zenon
  <1> QED
    BY <1>1, <1>2, <1>4, <1>5, AllStays, Zenon

\* A statement that changes a row no other transaction holds, starting and
\* putting to sleep no attempt, and returns.
LEMMA OneWrites ==
    ASSUME JobsInv, NEW b \in Backends, NEW j \in Rows, NEW r, j \notin Held(b),
           CallsOK', backends'[b].pc \notin Holding \cup Wakers,
           \A c \in Backends \ {b} :
               /\ backends'[c].pc = backends[c].pc /\ backends'[c].job = backends[c].job
               /\ backends'[c].snap = backends[c].snap /\ backends'[c].since = backends[c].since /\ backends'[c].clear = backends[c].clear,
           rows' = [rows EXCEPT ![j] = r], RowShaped(r), r.at = rows[j].at, r.mark \in Nat,
           r.st \notin {"running", "sleeping"} \/ (r.st = rows[j].st /\ r.mark = rows[j].mark),
           j \in UniqueJobs /\ Live(r) => Live(rows[j]),
           clock' = clock, woken' = woken, claims' = claims
    PROVE  JobsInv' /\ UniqueInHistory
  <1>1. RowsOK' /\ rows'[j] = r /\ \A k \in Rows \ {j} : rows'[k] = rows[k]
    BY OneRow, Fields, Zenon DEF JobsInv
  <1>2. ClocksOK' /\ clock <= clock'
    BY Fields DEF ClocksOK
  <1>3. \A c \in Backends : backends'[c].pc \in Holding => c # b /\ backends[c].job \in Rows \ {j}
    <2>1. \A c \in Backends \ {b} : backends[c].pc \in Holding => backends[c].job # j
      BY DEF Held, HeldBy
    <2> QED
      BY <2>1, Fields, Zenon DEF Holding, OnJob
  <1>4. \A c \in Backends :
               /\ backends'[c].pc \in Holding \cup Wakers =>
                    /\ backends'[c].pc = backends[c].pc /\ backends'[c].job = backends[c].job
                    /\ backends'[c].snap = backends[c].snap /\ backends'[c].since = backends[c].since /\ backends'[c].clear = backends[c].clear
               /\ backends'[c].pc = "finalize" => rows'[backends[c].job].st = rows[backends[c].job].st
               /\ backends'[c].pc = "retry_commit" => rows'[backends[c].job].past = rows[backends[c].job].past
    BY <1>1, <1>3, Zenon DEF Holding
  <1>5. \A k \in Rows :
               /\ rows'[k].at = rows[k].at \/ (rows'[k].at = 0 /\ rows'[k].st = "available")
               /\ rows'[k].st = "running" => rows[k].st = "running" /\ rows'[k].mark = rows[k].mark
               /\ rows'[k].st = "sleeping" => rows[k].st = "sleeping"
               /\ k \in UniqueJobs /\ Live(rows'[k]) => Live(rows[k])
    BY <1>1, Zenon
  <1> QED
    BY <1>1, <1>2, <1>4, <1>5, AllStays, Zenon

LEMMA ClaimBeginStep ==
    ASSUME JobsInv, NEW b \in Backends, ClaimBegin(b)
    PROVE  JobsInv' /\ UniqueInHistory
  <1> DEFINE rec == [Free EXCEPT !.pc = "claim", !.snap = rows]
  <1>1. Step(b, rec) /\ rows' = rows /\ clock' = clock /\ woken' = woken /\ claims' = claims
    BY Zenon DEF ClaimBegin, rowVars
  <1>2. CallShaped(rec) /\ rec.pc = "claim" /\ rec.since = 0
    BY Zenon DEF CallShaped, Free
  <1>3. clock <= clock /\ clock \in Nat /\ 0 \in Nat
    BY Fields
  <1> QED
    BY <1>1, <1>2, <1>3, OneCalls, Zenon DEF Holding, Wakers, OnJob

LEMMA FinalizeLocksStep ==
    ASSUME JobsInv, NEW b \in Backends, FinalizeLocks(b)
    PROVE  JobsInv' /\ UniqueInHistory
  <1>1. PICK cl \in claims, out \in Outcomes :
            /\ cl[1] \notin Held(b) /\ Owned(rows[cl[1]], cl[2])
            /\ Step(b, [Free EXCEPT !.pc = "finalize", !.job = cl[1], !.fence = cl[2], !.out = out])
    BY Zenon DEF FinalizeLocks
  <1>2. rows' = rows /\ clock' = clock /\ woken' = woken /\ claims' = claims
    BY Zenon DEF FinalizeLocks, rowVars
  <1> DEFINE rec == [Free EXCEPT !.pc = "finalize", !.job = cl[1], !.fence = cl[2], !.out = out]
  <1>3. CallShaped(rec) /\ rec.pc = "finalize" /\ rec.job = cl[1] /\ rec.since = 0
    BY Zenon DEF CallShaped, Free
  <1>4. CallsOK' /\ backends'[b] = rec /\ \A c \in Backends \ {b} : backends'[c] = backends[c]
    <2>1. cl[1] \in Rows /\ rec.since \in Nat
      BY <1>3, Fields, FreeIs, Zenon
    <2> HIDE DEF rec
    <2> QED
      BY <1>1, <1>3, <2>1, OneSteps, Zenon DEF JobsInv, rec
  <1> HIDE DEF rec
  <1>5. RowsOK' /\ ClocksOK' /\ clock <= clock'
    <2>1. clock <= clock
      BY Fields
    <2> QED
      BY <1>2, <2>1, Zenon DEF JobsInv, RowsOK, ClocksOK
  <1>6. \A c \in Backends \ {b} : backends[c].pc \in Holding => backends[c].job # cl[1]
    BY <1>1 DEF Held, HeldBy
  <1>7. HoldersApart' /\ HeldAsFound' /\ KeyAlone' /\ OneRunsPerKey'
    <2>1. HoldersApart'
      <3> SUFFICES ASSUME NEW c \in Backends, NEW d \in Backends, c # d, backends'[c].pc \in Holding, backends'[d].pc \in Holding
                   PROVE  backends'[c].job # backends'[d].job
        BY Zenon DEF HoldersApart
      <3>1. CASE c = b
        BY <1>3, <1>4, <1>6, <3>1, Zenon
      <3>2. CASE d = b
        BY <1>3, <1>4, <1>6, <3>2, Zenon
      <3>3. CASE c # b /\ d # b
        BY <1>4, <3>3, Zenon DEF JobsInv, HoldersApart
      <3> QED
        BY <3>1, <3>2, <3>3, Zenon
    <2>2. HeldAsFound'
      <3> SUFFICES ASSUME NEW c \in Backends
                   PROVE  /\ backends'[c].pc = "finalize" => rows'[backends'[c].job].st = "running"
                          /\ backends'[c].pc = "retry_commit" => rows'[backends'[c].job].past # "none"
        BY Zenon DEF HeldAsFound
      <3>1. CASE c = b
        BY <1>1, <1>2, <1>3, <1>4, <3>1, Zenon DEF Owned
      <3>2. CASE c # b
        BY <1>2, <1>4, <3>2, Zenon DEF JobsInv, HeldAsFound
      <3> QED
        BY <3>1, <3>2, Zenon
    <2>3. KeyAlone'
      BY <1>2, <1>3, <1>4, ZenonT(30) DEF JobsInv, KeyAlone, Live
    <2>4. OneRunsPerKey'
      BY <1>2, Zenon DEF JobsInv, OneRunsPerKey
    <2> QED
      BY <2>1, <2>2, <2>3, <2>4, Zenon
  <1>8. WakeInv'
    <2>1. \A c \in Backends : backends'[c].pc \in Wakers =>
               /\ backends'[c].pc = backends[c].pc /\ backends'[c].snap = backends[c].snap
               /\ backends'[c].since = backends[c].since /\ backends'[c].clear = backends[c].clear
      BY <1>3, <1>4, Zenon DEF Wakers
    <2> QED
      BY <1>2, <1>4, <1>5, <2>1, WakesStay, Zenon DEF JobsInv, ClocksOK
  <1>9. UniqueInHistory
    BY <1>2, Zenon DEF UniqueInHistory
  <1> QED
    BY <1>4, <1>5, <1>7, <1>8, <1>9, Zenon DEF JobsInv

\* Who takes a job with the key is alone in it.
LEMMA KeyTakes ==
    ASSUME JobsInv, NEW b \in Backends, NEW j \in Rows, ~KeyHeld(b, j), ~KeyTaken(j),
           \A c \in Backends \ {b} : backends'[c] = backends[c],
           backends'[b].pc \in {"look", "retry_commit"}, backends'[b].job = j, rows' = rows
    PROVE  KeyAlone'
  <1>1. \A c \in Backends \ {b} : j \in UniqueJobs /\ backends[c].pc \in Holding => backends[c].job \notin UniqueJobs
    BY DEF KeyHeld, Held, HeldBy
  <1>2. \A k \in UniqueJobs \ {j} : j \in UniqueJobs => ~Live(rows[k])
    BY Zenon DEF KeyTaken
  <1>3. ASSUME NEW c \in Backends, backends'[c].pc \in {"look", "retry_commit"}, backends'[c].job \in UniqueJobs
        PROVE  /\ \A k \in UniqueJobs \ {backends'[c].job} : ~Live(rows'[k])
               /\ \A d \in Backends \ {c} : backends'[d].pc \in {"look", "retry_commit"} => backends'[d].job \notin UniqueJobs
    <2>1. CASE c = b
      BY <1>1, <1>2, <1>3, <2>1, Zenon DEF Holding
    <2>2. CASE c # b
      <3>1. backends'[c] = backends[c]
        BY <2>2, Zenon
      <3>2. j \notin UniqueJobs
        BY <1>1, <1>3, <2>2, <3>1, Zenon DEF Holding
      <3> QED
        BY <1>3, <3>1, <3>2, Zenon DEF JobsInv, KeyAlone
    <2> QED
      BY <2>1, <2>2, Zenon
  <1> QED
    BY <1>3, Zenon DEF KeyAlone, Live

LEMMA InsertRowStep ==
    ASSUME JobsInv, NEW b \in Backends, InsertRow(b)
    PROVE  JobsInv' /\ UniqueInHistory
  <1>1. PICK j \in Inserted :
            /\ \A c \in Backends : backends[c].job # j
            /\ ~KeyHeld(b, j)
            /\ IF KeyTaken(j) THEN Return(b) ELSE Step(b, [Free EXCEPT !.pc = "look", !.job = j])
    BY Zenon DEF InsertRow
  <1>2. rows' = rows /\ woken' = woken /\ claims' = claims /\ clock' = clock + 1
    BY Zenon DEF InsertRow
  <1>3. clock' \in Nat /\ clock <= clock'
    BY <1>2, Fields
  <1>4. CASE Return(b)
    BY <1>2, <1>3, <1>4, OneCalls, FreeIs, Zenon DEF Return, Holding, Wakers, OnJob
  <1>5. CASE ~KeyTaken(j) /\ Step(b, [Free EXCEPT !.pc = "look", !.job = j])
    <2> DEFINE rec == [Free EXCEPT !.pc = "look", !.job = j]
    <2>1. CallShaped(rec) /\ rec.pc = "look" /\ rec.job = j /\ rec.since = 0 /\ j \in Rows
      BY Zenon DEF CallShaped, Free, Rows
    <2>2. CallsOK' /\ backends'[b] = rec /\ \A c \in Backends \ {b} : backends'[c] = backends[c]
      BY <1>5, <2>1, FreeIs, OneSteps, Zenon DEF JobsInv
    <2> HIDE DEF rec
    <2>3. RowsOK' /\ ClocksOK'
      BY <1>2, <1>3, Zenon DEF JobsInv, RowsOK, ClocksOK
    <2>4. HoldersApart'
      BY <1>1, <2>1, <2>2, ZenonT(30) DEF JobsInv, HoldersApart
    <2>5. HeldAsFound' /\ OneRunsPerKey' /\ UniqueInHistory
      BY <1>2, <2>1, <2>2, Zenon DEF JobsInv, HeldAsFound, OneRunsPerKey, UniqueInHistory
    <2>6. KeyAlone'
      BY <1>1, <1>2, <1>5, <2>1, <2>2, KeyTakes, Zenon
    <2>7. WakeInv'
      <3>1. \A c \in Backends : backends'[c].pc \in Wakers =>
               /\ backends'[c].pc = backends[c].pc /\ backends'[c].snap = backends[c].snap
               /\ backends'[c].since = backends[c].since /\ backends'[c].clear = backends[c].clear
        BY <2>1, <2>2, Zenon DEF Wakers
      <3> QED
        BY <1>2, <1>3, <2>2, <2>3, <3>1, WakesStay, Zenon DEF JobsInv
    <2> QED
      BY <2>2, <2>3, <2>4, <2>5, <2>6, <2>7, Zenon DEF JobsInv
  <1> QED
    BY <1>1, <1>4, <1>5, Zenon

GivesKey(b) == backends[b].pc \in {"look", "retry_commit"}

\* Who is alone in the key gives it to a job.
LEMMA KeyGives ==
    ASSUME JobsInv, NEW b \in Backends, NEW r, GivesKey(b), Return(b),
           rows' = [rows EXCEPT ![backends[b].job] = r], RowShaped(r), r.st = "available",
           r.at \in {0, rows[backends[b].job].at}, r.mark \in Nat,
           rows[backends[b].job] = NoRow => ~UniqueHistory(backends[b].job),
           clock' = clock, woken' = woken, claims' = claims
    PROVE  JobsInv' /\ UniqueInHistory
  <1> DEFINE j == backends[b].job
  <1>0. j \in Rows
    BY Fields, Zenon DEF OnJob, GivesKey
  <1> HIDE DEF j
  <1>1. CallsOK' /\ backends'[b] = Free /\ \A c \in Backends \ {b} : backends'[c] = backends[c]
    BY OneReturns, Zenon DEF JobsInv
  <1>2. RowsOK' /\ rows'[j] = r /\ \A k \in Rows \ {j} : rows'[k] = rows[k]
    <2>1. r.at \in Nat
      BY <1>0, Fields DEF j
    <2> QED
      BY <1>0, <2>1, OneRow, Zenon DEF JobsInv, j
  <1>3. ClocksOK' /\ clock <= clock' /\ clock' \in Nat
    BY Fields DEF ClocksOK
  <1>4. \A c \in Backends : backends'[c].pc \in Holding \cup Wakers => c # b /\ backends'[c] = backends[c]
    BY <1>1, FreeIs, Zenon DEF Holding, Wakers
  <1>5. \A c \in Backends : backends'[c].pc \in Holding => backends[c].job \in Rows \ {j}
    BY <1>4, Fields, Zenon DEF JobsInv, HoldersApart, Holding, OnJob, GivesKey, j
  <1>6. HoldersApart' /\ HeldAsFound'
    <2>1. HoldersApart'
      BY <1>4, Zenon DEF JobsInv, HoldersApart
    <2>2. \A c \in Backends : backends'[c].pc \in Holding => backends'[c] = backends[c] /\ rows'[backends[c].job] = rows[backends[c].job]
      BY <1>2, <1>4, <1>5, Zenon
    <2>3. HeldAsFound'
      <3>1. "finalize" \in Holding /\ "retry_commit" \in Holding /\ HeldAsFound
        BY Zenon DEF JobsInv, Holding
      <3> QED
        BY <2>2, <3>1 DEF HeldAsFound
    <2> QED
      BY <2>1, <2>3, Zenon
  <1>7. j \in UniqueJobs => \A k \in UniqueJobs \ {j} : ~Live(rows'[k]) /\ rows'[k] = rows[k]
    BY <1>2, PgJobsAssumption, Zenon DEF JobsInv, KeyAlone, GivesKey, j
  <1>8. KeyAlone'
    <2>1. ASSUME NEW c \in Backends, backends'[c].pc \in {"look", "retry_commit"}, backends'[c].job \in UniqueJobs
          PROVE  /\ \A k \in UniqueJobs \ {backends'[c].job} : ~Live(rows'[k])
                 /\ \A d \in Backends \ {c} : backends'[d].pc \in {"look", "retry_commit"} => backends'[d].job \notin UniqueJobs
      <3>1. c # b /\ backends'[c] = backends[c]
        BY <1>4, <2>1, Zenon DEF Holding
      <3>2. j \notin UniqueJobs
        BY <2>1, <3>1, Zenon DEF JobsInv, KeyAlone, GivesKey, j
      <3>3. \A k \in UniqueJobs : rows'[k] = rows[k]
        BY <1>2, <3>2, PgJobsAssumption, Zenon
      <3>4. \A d \in Backends : backends'[d].pc \in {"look", "retry_commit"} => backends'[d] = backends[d]
        BY <1>4, Zenon DEF Holding
      <3> QED
        BY <2>1, <3>1, <3>3, <3>4, Zenon DEF JobsInv, KeyAlone
    <2> QED
      BY <2>1, Zenon DEF KeyAlone, Live
  <1>9. UniqueInHistory
    <2>1. \A i \in UniqueJobs : ~Live(rows[i]) /\ Live(rows'[i]) => i = j
      BY <1>2, PgJobsAssumption, Zenon
    <2>2. ASSUME j \in UniqueJobs, NEW k \in UniqueJobs \ {j}
          PROVE  ~(Live(rows'[k]) \/ (rows[j] = NoRow /\ rows'[k].past = "completed"))
      BY <1>7, <2>2, Zenon DEF UniqueHistory, j
    <2> QED
      BY <2>1, <2>2, Zenon DEF UniqueInHistory
  <1>10. \A k \in Rows :
               /\ rows'[k].at = rows[k].at \/ (rows'[k].at = 0 /\ rows'[k].st = "available")
               /\ rows'[k].st = "running" => rows[k].st = "running" /\ rows'[k].mark = rows[k].mark
               /\ rows'[k].st = "sleeping" => rows[k].st = "sleeping"
    BY <1>2, Zenon DEF j
  <1>11. OneRunsPerKey'
    BY <1>10, RunsStay, Zenon DEF JobsInv
  <1>12. WakeInv'
    <2>1. \A c \in Backends : backends'[c].pc \in Wakers =>
               /\ backends'[c].pc = backends[c].pc /\ backends'[c].snap = backends[c].snap
               /\ backends'[c].since = backends[c].since /\ backends'[c].clear = backends[c].clear
      BY <1>4, Zenon
    <2> QED
      BY <1>1, <1>2, <1>3, <1>10, <2>1, WakesStay, Zenon DEF JobsInv
  <1> QED
    BY <1>1, <1>2, <1>3, <1>6, <1>8, <1>9, <1>11, <1>12, Zenon DEF JobsInv

LEMMA InsertStep ==
    ASSUME JobsInv, NEW b \in Backends, JobInsertCheckingHistory(b)
    PROVE  JobsInv' /\ UniqueInHistory
  <1> DEFINE j == backends[b].job
             r == [NoRow EXCEPT !.st = "available", !.seq = MaxSeq + 1]
  <1>1. /\ backends[b].pc = "look" /\ Return(b) /\ clock' = clock /\ woken' = woken /\ claims' = claims
        /\ rows' = IF UniqueHistory(j) THEN rows ELSE [rows EXCEPT ![j] = r]
    BY Zenon DEF JobInsertCheckingHistory
  <1>2. j \in Rows
    BY <1>1, Fields, Zenon DEF OnJob
  <1>3. CASE UniqueHistory(j)
    <2>1. clock <= clock' /\ clock' \in Nat
      BY <1>1, Fields
    <2> QED
      BY <1>1, <1>3, <2>1, OneCalls, FreeIs, Zenon DEF Return, Holding, Wakers, OnJob
  <1>4. CASE ~UniqueHistory(j)
    <2>1. RowShaped(r) /\ r.st = "available" /\ r.at = 0 /\ r.mark = 0
      BY FreeIs, Zenon DEF RowShaped, NoRow
    <2>3. 0 \in Nat /\ rows' = [rows EXCEPT ![j] = r]
      BY <1>1, <1>4
    <2> HIDE DEF r
    <2>4. r.at \in {0, rows[j].at} /\ r.mark \in Nat /\ GivesKey(b)
      BY <1>1, <2>1, <2>3, Zenon DEF GivesKey
    <2> QED
      BY <1>1, <1>2, <1>4, <2>1, <2>3, <2>4, KeyGives, Zenon
  <1> QED
    BY <1>3, <1>4, Zenon

LEMMA RetryLooksStep ==
    ASSUME JobsInv, NEW b \in Backends, RetryLooks(b)
    PROVE  JobsInv' /\ UniqueInHistory
  <1>1. PICK j \in Rows : 
            /\ j \notin Held(b)
            /\ IF Live(rows[j])
               THEN /\ rows[j].st \in Waiting
                    /\ rows' = [rows EXCEPT ![j] = RunNow(rows[j])]
                    /\ Return(b)
               ELSE /\ Step(b, [Free EXCEPT !.pc = "retry_history", !.job = j, !.lasted = TRUE])
                    /\ rows' = rows
    BY Zenon DEF RetryLooks
  <1>2. clock' = clock /\ woken' = woken /\ claims' = claims
    BY Zenon DEF RetryLooks
  <1>3. CASE Live(rows[j])
    <2> DEFINE r == RunNow(rows[j])
    <2>1. RowShaped(r) /\ r.at = rows[j].at /\ r.mark = 0 /\ r.st = "available" /\ 0 \in Nat
      BY Fields, FreeIs, Zenon DEF RunNow, RowShaped
    <2>2. CallsOK' /\ backends'[b] = Free /\ \A c \in Backends \ {b} : backends'[c] = backends[c]
      BY <1>1, <1>3, OneReturns, Zenon DEF JobsInv
    <2>3. backends'[b].pc \notin Holding \cup Wakers
      BY <2>2, FreeIs, Zenon DEF Holding, Wakers
    <2>4. rows' = [rows EXCEPT ![j] = r]
      BY <1>1, <1>3, Zenon
    <2> HIDE DEF r
    <2> QED
      BY <1>1, <1>2, <1>3, <2>1, <2>2, <2>3, <2>4, OneWrites, Zenon
  <1>4. CASE ~Live(rows[j])
    <2> DEFINE rec == [Free EXCEPT !.pc = "retry_history", !.job = j, !.lasted = TRUE]
    <2>1. CallShaped(rec) /\ rec.pc = "retry_history" /\ rec.job = j /\ rec.since = 0
      BY Zenon DEF CallShaped, Free
    <2>2. clock <= clock' /\ clock' \in Nat /\ 0 \in Nat
      BY <1>2, Fields
    <2>3. Step(b, rec) /\ rows' = rows
      BY <1>1, <1>4, Zenon
    <2> HIDE DEF rec
    <2> QED
      BY <1>2, <2>1, <2>2, <2>3, OneCalls, Zenon DEF Holding, Wakers, OnJob
  <1> QED
    BY <1>3, <1>4, Zenon

LEMMA RetryHistoryStep ==
    ASSUME JobsInv, NEW b \in Backends, RetryHistory(b)
    PROVE  JobsInv' /\ UniqueInHistory
  <1> DEFINE j == backends[b].job
             rec == [backends[b] EXCEPT !.pc = "retry_commit"]
  <1>1. /\ backends[b].pc = "retry_history" /\ j \notin Held(b) /\ ~KeyHeld(b, j)
        /\ IF rows[j].past = "none" \/ KeyTaken(j) THEN Return(b) ELSE Step(b, rec)
        /\ rows' = rows /\ clock' = clock /\ woken' = woken /\ claims' = claims
    BY Zenon DEF RetryHistory
  <1>2. clock <= clock' /\ clock' \in Nat
    BY <1>1, Fields
  <1>3. CASE Return(b)
    BY <1>1, <1>2, <1>3, OneCalls, FreeIs, Zenon DEF Return, Holding, Wakers, OnJob
  <1>4. CASE rows[j].past # "none" /\ ~KeyTaken(j) /\ Step(b, rec)
    <2>1. CallShaped(rec) /\ rec.pc = "retry_commit" /\ rec.job = j /\ rec.since \in Nat /\ j \in Rows
      <3>1. CallShaped(backends[b]) /\ backends[b].since \in Nat /\ j \in Rows
        BY <1>1, Fields, Zenon DEF OnJob
      <3> QED
        BY <3>1 DEF CallShaped
    <2>2. CallsOK' /\ backends'[b] = rec /\ \A c \in Backends \ {b} : backends'[c] = backends[c]
      BY <1>4, <2>1, OneSteps, Zenon DEF JobsInv
    <2> HIDE DEF rec
    <2>3. RowsOK' /\ ClocksOK'
      BY <1>1, <1>2, Zenon DEF JobsInv, RowsOK, ClocksOK
    <2>4. HoldersApart'
      <3>1. \A c \in Backends \ {b} : backends[c].pc \in Holding => backends[c].job # j
        BY <1>1 DEF Held, HeldBy
      <3> QED
        BY <2>1, <2>2, <3>1, ZenonT(30) DEF JobsInv, HoldersApart
    <2>5. HeldAsFound' /\ OneRunsPerKey' /\ UniqueInHistory
      BY <1>1, <1>4, <2>1, <2>2, ZenonT(30) DEF JobsInv, HeldAsFound, OneRunsPerKey, UniqueInHistory
    <2>6. KeyAlone'
      BY <1>1, <1>4, <2>1, <2>2, KeyTakes, Zenon
    <2>7. WakeInv'
      <3>1. \A c \in Backends : backends'[c].pc \in Wakers =>
               /\ backends'[c].pc = backends[c].pc /\ backends'[c].snap = backends[c].snap
               /\ backends'[c].since = backends[c].since /\ backends'[c].clear = backends[c].clear
        BY <2>1, <2>2, Zenon DEF Wakers
      <3> QED
        BY <1>1, <1>2, <2>2, <2>3, <3>1, WakesStay, Zenon DEF JobsInv
    <2> QED
      BY <2>2, <2>3, <2>4, <2>5, <2>6, <2>7, Zenon DEF JobsInv
  <1> QED
    BY <1>1, <1>3, <1>4, Zenon

LEMMA RetryStep ==
    ASSUME JobsInv, NEW b \in Backends, JobRetry(b)
    PROVE  JobsInv' /\ UniqueInHistory
  <1> DEFINE j == backends[b].job
             r == [rows[j] EXCEPT !.st = "available", !.seq = MaxSeq + 1, !.past = "none"]
  <1>1. /\ backends[b].pc = "retry_commit" /\ Return(b) /\ clock' = clock /\ woken' = woken /\ claims' = claims
        /\ rows' = [rows EXCEPT ![j] = r]
    BY DEF JobRetry
  <1>2. j \in Rows
    BY <1>1, Fields, Zenon DEF OnJob
  <1>3. RowShaped(r) /\ r.st = "available" /\ r.at = rows[j].at /\ r.mark = rows[j].mark /\ rows[j].mark \in Nat
    BY <1>2, Fields, Zenon DEF RowShaped
  <1>4. rows[j] # NoRow
    BY <1>1, FreeIs, Zenon DEF JobsInv, HeldAsFound
  <1> HIDE DEF r
  <1>5. r.at \in {0, rows[j].at} /\ r.mark \in Nat /\ GivesKey(b)
    BY <1>1, <1>3, Zenon DEF GivesKey
  <1> QED
    BY <1>1, <1>2, <1>3, <1>4, <1>5, KeyGives, Zenon

Deletes == {"delete_live", "delete_history", "delete_live_again", "delete_history_again"}

LEMMA DeleteBeginsStep ==
    ASSUME JobsInv, NEW b \in Backends, DeleteBegins(b)
    PROVE  JobsInv' /\ UniqueInHistory
  <1>1. PICK j \in Rows : Step(b, [Free EXCEPT !.pc = "delete_live", !.job = j, !.lasted = TRUE, !.from = retried[j]])
    BY Zenon DEF DeleteBegins
  <1> DEFINE rec == [Free EXCEPT !.pc = "delete_live", !.job = j, !.lasted = TRUE, !.from = retried[j]]
  <1>2. CallShaped(rec) /\ rec.pc = "delete_live" /\ rec.job = j /\ rec.since = 0
    BY Zenon DEF CallShaped, Free
  <1>3. rows' = rows /\ clock' = clock /\ woken' = woken /\ claims' = claims
    BY Zenon DEF DeleteBegins, rowVars
  <1>4. clock <= clock' /\ clock' \in Nat /\ 0 \in Nat
    BY <1>3, Fields
  <1> HIDE DEF rec
  <1> QED
    BY <1>1, <1>2, <1>3, <1>4, OneCalls, Zenon DEF rec, Holding, Wakers, OnJob

\* A step of one connection by which others know that a job was not there.
LEMMA LastingSteps ==
    ASSUME CallsOK, NEW b \in Backends, NEW rec, CallShaped(rec), rec.since \in Nat, rec.pc \in OnJob => rec.job \in Rows,
           backends' = Lasting([backends EXCEPT ![b] = rec])
    PROVE  /\ CallsOK' /\ backends'[b].pc = rec.pc
           /\ \A c \in Backends \ {b} :
               /\ backends'[c].pc = backends[c].pc /\ backends'[c].job = backends[c].job
               /\ backends'[c].snap = backends[c].snap /\ backends'[c].since = backends[c].since /\ backends'[c].clear = backends[c].clear
  <1> DEFINE bs == [backends EXCEPT ![b] = rec]
             was(c) == bs[c].lasted /\ (bs[c].job \in Rows => Live(rows'[bs[c].job]) \/ rows'[bs[c].job].past # "none")
  <1>1. bs[b] = rec /\ \A c \in Backends \ {b} : bs[c] = backends[c]
    BY Zenon DEF CallsOK
  <1>2. ASSUME NEW c \in Backends
        PROVE  CallShaped(bs[c]) /\ bs[c].since \in Nat /\ (bs[c].pc \in OnJob => bs[c].job \in Rows)
    BY <1>1, Zenon DEF CallsOK
  <1>3. backends' = [c \in Backends |-> [bs[c] EXCEPT !.lasted = was(c)]]
    BY DEF Lasting
  <1> HIDE DEF bs, was
  <1>4. ASSUME NEW c \in Backends
        PROVE  /\ CallShaped(backends'[c]) /\ backends'[c].pc = bs[c].pc /\ backends'[c].job = bs[c].job
               /\ backends'[c].snap = bs[c].snap /\ backends'[c].since = bs[c].since /\ backends'[c].clear = bs[c].clear
    <2>1. backends'[c] = [bs[c] EXCEPT !.lasted = was(c)]
      BY <1>3, Zenon
    <2> QED
      BY <1>2, <2>1 DEF CallShaped
  <1>5. backends' = [c \in Backends |-> backends'[c]]
    BY <1>3, Zenon
  <1>6. CallsOK'
    <2>1. ASSUME NEW c \in Backends
          PROVE  /\ CallShaped(backends'[c]) /\ backends'[c].since \in Nat
                 /\ backends'[c].pc \in OnJob => backends'[c].job \in Rows
      BY <1>2, <1>4, Zenon
    <2> QED
      BY <1>5, <2>1, Zenon DEF CallsOK
  <1>7. backends'[b].pc = rec.pc
    BY <1>1, <1>4, Zenon
  <1>8. ASSUME NEW c \in Backends \ {b}
        PROVE  /\ backends'[c].pc = backends[c].pc /\ backends'[c].job = backends[c].job
               /\ backends'[c].snap = backends[c].snap /\ backends'[c].since = backends[c].since /\ backends'[c].clear = backends[c].clear
    <2>1. bs[c] = backends[c] /\ c \in Backends
      BY <1>1, Zenon
    <2> QED
      BY <1>4, <2>1, Zenon
  <1> QED
    BY <1>6, <1>7, <1>8, Zenon

LEMMA DeleteLiveStep ==
    ASSUME JobsInv, NEW b \in Backends, NEW pc \in Deletes, NEW next \in Deletes, DeleteLive(b, pc, next)
    PROVE  JobsInv' /\ UniqueInHistory
  <1> DEFINE j == backends[b].job
  <1>1. /\ backends[b].pc = pc /\ j \notin Held(b) /\ clock' = clock /\ woken' = woken /\ claims' = claims
        /\ IF Live(rows[j])
           THEN /\ rows' = IF rows[j].st = "running" THEN rows ELSE [rows EXCEPT ![j].st = "absent"]
                /\ backends' = Lasting([backends EXCEPT ![b] = Free])
           ELSE /\ backends' = [backends EXCEPT ![b].pc = next]
                /\ rows' = rows
    BY Zenon DEF DeleteLive
  <1>2. j \in Rows /\ clock <= clock' /\ clock' \in Nat
    BY <1>1, Fields DEF OnJob, Deletes
  <1>3. CASE Live(rows[j])
    <2>1. /\ CallsOK' /\ backends'[b].pc = "free"
          /\ \A c \in Backends \ {b} :
               /\ backends'[c].pc = backends[c].pc /\ backends'[c].job = backends[c].job
               /\ backends'[c].snap = backends[c].snap /\ backends'[c].since = backends[c].since /\ backends'[c].clear = backends[c].clear
      BY <1>1, <1>3, LastingSteps, FreeIs, Zenon DEF JobsInv, OnJob
    <2>2. backends'[b].pc \notin Holding \cup Wakers
      BY <2>1, Zenon DEF Holding, Wakers
    <2>3. CASE rows[j].st = "running"
      <3>1. rows' = [rows EXCEPT ![j] = rows[j]]
        <4>1. rows' = rows /\ rows = [k \in Rows |-> rows[k]]
          BY <1>1, <1>3, <2>3, Zenon DEF JobsInv, RowsOK
        <4> QED
          BY <4>1, Zenon
      <3> QED
        BY <1>1, <1>2, <1>3, <2>1, <2>2, <3>1, OneWrites, Fields, Zenon
    <2>4. CASE rows[j].st # "running"
      <3> DEFINE r == [rows[j] EXCEPT !.st = "absent"]
      <3>1. rows' = [rows EXCEPT ![j] = r]
        BY <1>1, <1>3, <2>4
      <3>2. RowShaped(r) /\ r.st = "absent" /\ r.at = rows[j].at /\ r.mark = rows[j].mark /\ rows[j].mark \in Nat
        BY <1>2, Fields, Zenon DEF RowShaped
      <3> HIDE DEF r
      <3> QED
        BY <1>1, <1>2, <1>3, <2>1, <2>2, <3>1, <3>2, OneWrites, Zenon
    <2> QED
      BY <2>3, <2>4, Zenon
  <1>4. CASE ~Live(rows[j])
    <2> DEFINE rec == [backends[b] EXCEPT !.pc = next]
    <2>1. Step(b, rec) /\ rows' = rows
      BY <1>1, <1>4 DEF Step
    <2>2. CallShaped(rec) /\ rec.pc = next /\ rec.job = j /\ rec.since \in Nat
      <3>1. CallShaped(backends[b]) /\ backends[b].since \in Nat
        BY Fields, Zenon
      <3> QED
        BY <3>1 DEF CallShaped
    <2> HIDE DEF rec
    <2>3. rec.pc \notin Holding \cup Wakers
      BY <2>2, Zenon DEF Deletes, Holding, Wakers
    <2> QED
      BY <1>1, <1>2, <2>1, <2>2, <2>3, OneCalls, Zenon
  <1> QED
    BY <1>3, <1>4, Zenon

LEMMA DeleteHistoryStep ==
    ASSUME JobsInv, NEW b \in Backends, NEW pc \in Deletes, NEW next \in Deletes \cup {"free"}, DeleteHistory(b, pc, next)
    PROVE  JobsInv' /\ UniqueInHistory
  <1> DEFINE j == backends[b].job
             found == rows[j].past # "none"
             rec == IF found \/ next = "free" THEN Free ELSE [backends[b] EXCEPT !.pc = next]
  <1>1. /\ backends[b].pc = pc /\ j \notin Held(b) /\ clock' = clock /\ woken' = woken /\ claims' = claims
        /\ rows' = IF found THEN [rows EXCEPT ![j].past = "none"] ELSE rows
        /\ backends' = Lasting([backends EXCEPT ![b] = rec])
    BY DEF DeleteHistory
  <1>2. j \in Rows /\ clock <= clock' /\ clock' \in Nat
    BY <1>1, Fields DEF OnJob, Deletes
  <1>3. CallShaped(rec) /\ rec.since \in Nat /\ (rec.pc = "free" \/ (rec.pc = next /\ rec.job = j))
    <2>1. CallShaped(backends[b]) /\ backends[b].since \in Nat
      BY Fields, Zenon
    <2>2. LET n == [backends[b] EXCEPT !.pc = next] IN
          CallShaped(n) /\ n.since \in Nat /\ n.pc = next /\ n.job = j
      BY <2>1 DEF CallShaped
    <2> QED
      BY <2>2, FreeIs
  <1> HIDE DEF rec
  <1>4. rec.pc \notin Holding \cup Wakers
    BY <1>3, Zenon DEF Deletes, Holding, Wakers
  <1>5. /\ CallsOK' /\ backends'[b].pc = rec.pc
        /\ \A c \in Backends \ {b} :
               /\ backends'[c].pc = backends[c].pc /\ backends'[c].job = backends[c].job
               /\ backends'[c].snap = backends[c].snap /\ backends'[c].since = backends[c].since /\ backends'[c].clear = backends[c].clear
    <2>1. rec.pc \in OnJob => rec.job \in Rows
      BY <1>2, <1>3, Zenon DEF OnJob
    <2> QED
      BY <1>1, <1>3, <2>1, LastingSteps, Zenon DEF JobsInv
  <1> DEFINE r == IF found THEN [rows[j] EXCEPT !.past = "none"] ELSE rows[j]
  <1>6. rows' = [rows EXCEPT ![j] = r]
    <2>1. CASE found
      BY <1>1, <2>1
    <2>2. CASE ~found
      <3>1. rows' = rows /\ rows = [k \in Rows |-> rows[k]] /\ r = rows[j]
        BY <1>1, <2>2, Zenon DEF JobsInv, RowsOK
      <3> QED
        BY <3>1, Zenon
    <2> QED
      BY <2>1, <2>2, Zenon
  <1>7. RowShaped(r) /\ r.st = rows[j].st /\ r.at = rows[j].at /\ r.mark = rows[j].mark /\ rows[j].mark \in Nat
    BY <1>2, Fields, Zenon DEF RowShaped
  <1> HIDE DEF r
  <1>8. Live(r) => Live(rows[j])
    BY <1>7, Zenon DEF Live
  <1> QED
    BY <1>1, <1>2, <1>4, <1>5, <1>6, <1>7, <1>8, OneWrites, ZenonT(30)

LEMMA DeleteStep ==
    ASSUME JobsInv, NEW b \in Backends, JobDelete(b)
    PROVE  JobsInv' /\ UniqueInHistory
  BY DeleteLiveStep, DeleteHistoryStep, Zenon DEF JobDelete, Deletes

LEMMA CancelStep ==
    ASSUME JobsInv, NEW b \in Backends, JobCancel(b)
    PROVE  JobsInv' /\ UniqueInHistory
  <1>1. PICK j \in Rows :
            /\ j \notin Held(b)
            /\ IF rows[j].st \in Waiting
               THEN rows' = [rows EXCEPT ![j].st = "absent", ![j].mark = 0, ![j].past = "canceled"] /\ Return(b)
               ELSE rows' = rows /\ Step(b, [Free EXCEPT !.pc = "get", !.job = j])
    BY Zenon DEF JobCancel
  <1>2. clock' = clock /\ woken' = woken /\ claims' = claims
    BY Zenon DEF JobCancel
  <1>3. CASE rows[j].st \in Waiting
    <2> DEFINE r == [rows[j] EXCEPT !.st = "absent", !.mark = 0, !.past = "canceled"]
    <2>1. rows' = [rows EXCEPT ![j] = r]
      <3>1. rows = [k \in Rows |-> rows[k]]
        BY Zenon DEF JobsInv, RowsOK
      <3> QED
        BY <1>1, <1>3, <3>1
    <2>2. RowShaped(r) /\ r.st = "absent" /\ r.at = rows[j].at /\ r.mark = 0 /\ 0 \in Nat
      BY Fields, FreeIs, Zenon DEF RowShaped
    <2>3. CallsOK' /\ backends'[b] = Free /\ \A c \in Backends \ {b} : backends'[c] = backends[c]
      BY <1>1, <1>3, OneReturns, Zenon DEF JobsInv
    <2>4. backends'[b].pc \notin Holding \cup Wakers
      BY <2>3, FreeIs, Zenon DEF Holding, Wakers
    <2> HIDE DEF r
    <2>5. ~Live(r)
      BY <2>2, Zenon DEF Live, Waiting
    <2> QED
      BY <1>1, <1>2, <2>1, <2>2, <2>3, <2>4, <2>5, OneWrites, ZenonT(30)
  <1>4. CASE rows[j].st \notin Waiting
    <2> DEFINE rec == [Free EXCEPT !.pc = "get", !.job = j]
    <2>1. CallShaped(rec) /\ rec.pc = "get" /\ rec.since = 0
      BY Zenon DEF CallShaped, Free
    <2>2. clock <= clock' /\ clock' \in Nat /\ 0 \in Nat
      BY <1>2, Fields
    <2>3. Step(b, rec) /\ rows' = rows
      BY <1>1, <1>4, Zenon
    <2> HIDE DEF rec
    <2> QED
      BY <1>2, <2>1, <2>2, <2>3, OneCalls, Zenon DEF Holding, Wakers, OnJob
  <1> QED
    BY <1>3, <1>4, Zenon

LEMMA ReturnStep ==
    ASSUME JobsInv, NEW b \in Backends, JobGet(b) \/ Rollback(b)
    PROVE  JobsInv' /\ UniqueInHistory
  <1>1. Step(b, Free) /\ rows' = rows /\ clock' = clock /\ woken' = woken /\ claims' = claims
    BY Zenon DEF JobGet, Rollback, Return, rowVars
  <1>2. clock <= clock' /\ clock' \in Nat
    BY <1>1, Fields
  <1> QED
    BY <1>1, <1>2, OneCalls, FreeIs, Zenon DEF Holding, Wakers, OnJob

LEMMA DueStep ==
    ASSUME JobsInv, Due
    PROVE  JobsInv' /\ UniqueInHistory
  <1>1. PICK j \in Rows : rows[j].st = "sleeping" /\ rows' = [rows EXCEPT ![j].st = "available"]
    BY Zenon DEF Due
  <1>2. UNCHANGED <<clock, claims, woken, backends>>
    BY Zenon DEF Due
  <1> DEFINE r == [rows[j] EXCEPT !.st = "available"]
  <1>3. RowShaped(r) /\ r.st = "available" /\ r.at = rows[j].at /\ r.mark = rows[j].mark /\ r.past = rows[j].past
    BY Fields, Zenon DEF RowShaped
  <1>4. RowsOK' /\ rows'[j] = r /\ \A k \in Rows \ {j} : rows'[k] = rows[k]
    <2>1. rows' = [rows EXCEPT ![j] = r]
      BY <1>1
    <2> QED
      BY <1>3, <2>1, OneRow, Fields, Zenon DEF JobsInv
  <1> HIDE DEF r
  <1>5. CallsOK' /\ ClocksOK' /\ clock <= clock'
    <2>1. clock <= clock
      BY Fields
    <2> QED
      BY <1>2, <2>1, Zenon DEF JobsInv, CallsOK, ClocksOK
  <1>6. \A c \in Backends : backends[c].pc \in Holding => backends[c].job \in Rows
    BY Fields, Zenon DEF Holding, OnJob
  <1>7. \A c \in Backends : backends[c].pc = "finalize" => rows[backends[c].job].st = "running"
    BY Zenon DEF JobsInv, HeldAsFound
  <1>8. \A c \in Backends :
               /\ backends'[c].pc \in Holding \cup Wakers =>
                    /\ backends'[c].pc = backends[c].pc /\ backends'[c].job = backends[c].job
                    /\ backends'[c].snap = backends[c].snap /\ backends'[c].since = backends[c].since /\ backends'[c].clear = backends[c].clear
               /\ backends'[c].pc = "finalize" => rows'[backends[c].job].st = rows[backends[c].job].st
               /\ backends'[c].pc = "retry_commit" => rows'[backends[c].job].past = rows[backends[c].job].past
    BY <1>1, <1>2, <1>3, <1>4, <1>6, <1>7, Zenon DEF Holding
  <1>9. \A k \in Rows :
               /\ rows'[k].at = rows[k].at \/ (rows'[k].at = 0 /\ rows'[k].st = "available")
               /\ rows'[k].st = "running" => rows[k].st = "running" /\ rows'[k].mark = rows[k].mark
               /\ rows'[k].st = "sleeping" => rows[k].st = "sleeping"
               /\ k \in UniqueJobs /\ Live(rows'[k]) => Live(rows[k])
    BY <1>1, <1>3, <1>4, Zenon DEF Live, Waiting
  <1> QED
    BY <1>2, <1>4, <1>5, <1>8, <1>9, AllStays, Zenon

LEMMA ClaimStep ==
    ASSUME JobsInv, NEW b \in Backends, JobClaim(b)
    PROVE  JobsInv' /\ UniqueInHistory
  <1> DEFINE found == {j \in Eligible(backends[b].snap) : rows[j].st = "available" /\ j \notin Held(b)}
  <1>1. Return(b)
    BY Zenon DEF JobClaim
  <1>2. CASE ~\E j \in found : RunningKeyIndex(j)
    <2>1. rows' = rows /\ clock' = clock /\ woken' = woken /\ claims' = claims
      BY <1>2, Zenon DEF JobClaim, rowVars
    <2>2. clock <= clock' /\ clock' \in Nat
      BY <2>1, Fields
    <2> QED
      BY <1>1, <2>1, <2>2, OneCalls, FreeIs, Zenon DEF Return, Holding, Wakers, OnJob
  <1>3. CASE \E j \in found : RunningKeyIndex(j)
    <2>1. PICK j \in found :
            /\ rows' = [rows EXCEPT ![j].st = "running", ![j].fence = @ + 1, ![j].at = clock + 1]
            /\ clock' = clock + 1 /\ woken' = woken
            /\ claims' = claims \cup {<<j, rows[j].fence + 1>>}
      <3>1. (CHOOSE k \in found : TRUE) \in found
        BY <1>3, Zenon
      <3> QED
        BY <1>3, <3>1, Zenon DEF JobClaim
    <2>2. j \in Rows /\ rows[j].st = "available" /\ j \notin Held(b)
      BY Zenon DEF Eligible
    <2>3. \A k \in Rows : rows[k].st # "running"
      BY <1>3, Zenon DEF RunningKeyIndex
    <2> DEFINE r == [rows[j] EXCEPT !.st = "running", !.fence = rows[j].fence + 1, !.at = clock + 1]
    <2>4. RowShaped(r) /\ r.st = "running" /\ r.at = clock + 1 /\ r.mark = rows[j].mark
      BY <2>2, Fields, Zenon DEF RowShaped
    <2>5. RowsOK' /\ rows'[j] = r /\ \A k \in Rows \ {j} : rows'[k] = rows[k]
      <3>1. rows' = [rows EXCEPT ![j] = r]
        <4>1. rows = [k \in Rows |-> rows[k]]
          BY Zenon DEF JobsInv, RowsOK
        <4> QED
          BY <2>1, <2>2, <4>1, Zenon
      <3>2. r.at \in Nat /\ r.mark \in Nat
        BY <2>2, <2>4, Fields
      <3> HIDE DEF r
      <3> QED
        BY <2>2, <2>4, <3>1, <3>2, OneRow, Zenon DEF JobsInv
    <2> HIDE DEF found, r
    <2>6. CallsOK' /\ backends'[b] = Free /\ \A c \in Backends \ {b} : backends'[c] = backends[c]
      BY <1>1, OneReturns, Zenon DEF JobsInv
    <2>7. ClocksOK'
      BY <2>1, <2>2, Fields DEF ClocksOK
    <2>8. \A c \in Backends : backends'[c].pc \in Holding \cup Wakers => c # b /\ backends'[c] = backends[c]
      BY <2>6, FreeIs, Zenon DEF Holding, Wakers
    <2>9. \A c \in Backends : backends'[c].pc \in Holding => backends[c].job \in Rows \ {j}
      <3>1. \A c \in Backends \ {b} : backends[c].pc \in Holding => backends[c].job # j
        BY <2>2 DEF Held, HeldBy
      <3> QED
        BY <2>8, <3>1, Fields, Zenon DEF Holding, OnJob
    <2>10. HoldersApart' /\ HeldAsFound' /\ KeyAlone' /\ UniqueInHistory
      <3>1. \A c \in Backends : backends'[c].pc \in Holding =>
               /\ backends'[c].pc = backends[c].pc /\ backends'[c].job = backends[c].job
               /\ backends[c].pc = "finalize" => rows'[backends[c].job].st = rows[backends[c].job].st
               /\ backends[c].pc = "retry_commit" => rows'[backends[c].job].past = rows[backends[c].job].past
        BY <2>5, <2>8, <2>9, Zenon
      <3>2. \A k \in UniqueJobs : Live(rows'[k]) => Live(rows[k])
        BY <2>2, <2>5, PgJobsAssumption, Zenon DEF Live, Waiting
      <3> QED
        BY <3>1, <3>2, LocksStay, Zenon DEF JobsInv
    <2>11. OneRunsPerKey'
      BY <2>3, <2>5, Zenon DEF OneRunsPerKey
    <2>12. WakeInv'
      <3>0. WakeInv
        BY Zenon DEF JobsInv
      <3>1. CallTimes'
        <4>1. clock' \in Nat /\ clock <= clock'
          BY <2>1, Fields
        <4> QED
          BY <2>1, <2>8, <3>0, <4>1, TimesStay, Zenon DEF WakeInv, JobsInv
      <3>2. \A c \in Backends : backends'[c].pc \in Wakers => backends'[c].since <= clock
        BY <2>8, <3>0, Zenon DEF WakeInv, CallTimes
      <3>4. \A k \in Rows : rows'[k].at <= clock'
        <4>1. woken <= clock /\ \A k \in Rows : rows[k].at <= clock /\ rows[k].at \in Nat
          BY <3>0, Fields, Zenon DEF WakeInv, CallTimes
        <4>2. \A k \in Rows : rows'[k].at = rows[k].at \/ rows'[k].at = clock + 1
          BY <2>4, <2>5, Zenon
        <4> QED
          <5>1. clock \in Nat /\ woken \in Nat /\ clock' = clock + 1 /\ woken' = woken
            BY <2>1, Fields, Zenon
          <5> QED
            BY <4>1, <4>2, <5>1
      <3>5. WakeNotLost'
        BY <2>1, <2>4, <2>5, <3>0, Zenon DEF WakeInv, WakeNotLost
      <3>6. \A k \in Rows : rows'[k].st = "running" => k = j /\ rows'[k].at = clock + 1
        BY <2>3, <2>4, <2>5, Zenon
      <3>7. \A k \in Rows : rows'[k].st = "running" /\ rows'[k].at <= woken' => rows'[k].mark >= rows'[k].at
        BY <2>1, <3>0, <3>6, Fields DEF WakeInv, CallTimes
      <3>8. WakeReaches'
        <4> SUFFICES ASSUME NEW c \in Backends, NEW k \in Rows, rows'[k].at <= backends'[c].since, backends'[c].pc \in Wakers
                     PROVE  rows'[k].st # "running" /\ 
                            (backends'[c].pc = "waking" /\ backends'[c].clear /\ rows'[k].st = "sleeping" => backends'[c].snap[k].st = "sleeping")
          BY Zenon DEF WakeReaches, Wakers
        <4>1. rows'[k].st # "running"
          BY <2>6, <3>2, <3>6, Fields DEF CallsOK
        <4>2. k # j
          BY <2>4, <2>5, <4>1, Zenon
        <4> QED
          BY <2>5, <2>8, <3>0, <4>1, <4>2, ZenonT(30) DEF WakeInv, WakeReaches
      <3> QED
        BY <3>1, <3>4, <3>5, <3>7, <3>8, Zenon DEF WakeInv
    <2> QED
      BY <2>5, <2>6, <2>7, <2>10, <2>11, <2>12, Zenon DEF JobsInv
  <1> QED
    BY <1>2, <1>3, Zenon

LEMMA FinalizeStep ==
    ASSUME JobsInv, NEW b \in Backends, JobFinalizeMany(b)
    PROVE  JobsInv' /\ UniqueInHistory
  <1> DEFINE j == backends[b].job
             row == rows[j]
             out == backends[b].out
             next == IF out \in Waiting
                     THEN [row EXCEPT !.st = IF Wakes(row) THEN "available" ELSE out, !.mark = 0]
                     ELSE [row EXCEPT !.st = "absent", !.mark = 0, !.past = out]
  <1>1. /\ backends[b].pc = "finalize" /\ rows' = [rows EXCEPT ![j] = next] /\ Return(b)
        /\ claims' \subseteq claims /\ clock' = clock /\ woken' = woken
    BY DEF JobFinalizeMany
  <1>2. j \in Rows /\ row.st = "running"
    BY <1>1, Fields, Zenon DEF OnJob, JobsInv, HeldAsFound
  <1>3. /\ RowShaped(next) /\ next.at = row.at /\ next.mark = 0
        /\ next.st \in {"available", "sleeping", "absent"} /\ (next.st = "sleeping" => ~Wakes(row))
    <2>1. RowShaped(row)
      BY <1>2, Fields, Zenon
    <2>2. CASE out \in Waiting
      BY <2>1, <2>2, Zenon DEF RowShaped, Waiting
    <2>3. CASE out \notin Waiting
      BY <2>1, <2>3, Zenon DEF RowShaped
    <2> QED
      BY <2>2, <2>3, Zenon
  <1> HIDE DEF next
  <1>4. RowsOK' /\ rows'[j] = next /\ \A k \in Rows \ {j} : rows'[k] = rows[k]
    <2>1. next.at \in Nat /\ next.mark \in Nat
      BY <1>2, <1>3, Fields
    <2> QED
      BY <1>1, <1>2, <1>3, <2>1, OneRow, Zenon DEF JobsInv
  <1>5. CallsOK' /\ backends'[b] = Free /\ \A c \in Backends \ {b} : backends'[c] = backends[c]
    BY <1>1, OneReturns, Zenon DEF JobsInv
  <1>6. ClocksOK'
    BY <1>1, Fields, Zenon DEF ClocksOK
  <1>7. \A c \in Backends : backends'[c].pc \in Holding \cup Wakers => c # b /\ backends'[c] = backends[c]
    BY <1>5, FreeIs, Zenon DEF Holding, Wakers
  <1>8. \A c \in Backends : backends'[c].pc \in Holding => backends[c].job \in Rows \ {j}
    BY <1>1, <1>7, Fields, Zenon DEF JobsInv, HoldersApart, Holding, OnJob
  <1>9. HoldersApart' /\ HeldAsFound' /\ KeyAlone' /\ UniqueInHistory
    <2>1. \A c \in Backends : backends'[c].pc \in Holding =>
               /\ backends'[c].pc = backends[c].pc /\ backends'[c].job = backends[c].job
               /\ backends[c].pc = "finalize" => rows'[backends[c].job].st = rows[backends[c].job].st
               /\ backends[c].pc = "retry_commit" => rows'[backends[c].job].past = rows[backends[c].job].past
      BY <1>4, <1>7, <1>8, Zenon
    <2>2. \A k \in UniqueJobs : Live(rows'[k]) => Live(rows[k])
      BY <1>2, <1>4, PgJobsAssumption, Zenon DEF Live
    <2> QED
      BY <2>1, <2>2, LocksStay, Zenon DEF JobsInv
  <1>10. OneRunsPerKey'
    <2>1. \A k \in Rows : rows'[k].st = "running" => rows[k].st = "running"
      BY <1>2, <1>4, Zenon
    <2> QED
      BY <2>1, RunsStay, Zenon DEF JobsInv
  <1>11. ASSUME WakeInv PROVE WakeInv'
    <2>0. clock' \in Nat /\ clock <= clock'
      BY <1>1, Fields
    <2>1. CallTimes'
      BY <1>1, <1>7, <1>11, <2>0, TimesStay, Zenon DEF WakeInv, JobsInv
    <2>2. \A k \in Rows : rows'[k].at = rows[k].at
      BY <1>3, <1>4, Zenon
    <2>3. \A k \in Rows : rows'[k].st = "running" => rows'[k] = rows[k]
      BY <1>3, <1>4, Zenon
    <2>4. \A k \in Rows : rows'[k].st = "sleeping" => (k = j /\ ~(rows[k].mark >= rows[k].at)) \/ rows'[k] = rows[k]
      BY <1>3, <1>4, Zenon DEF Wakes
    <2>5. \A k \in Rows : rows'[k].at <= clock'
      BY <1>1, <1>11, <2>2, Zenon DEF WakeInv
    <2>6. WakeNotLost'
      <3> SUFFICES ASSUME NEW k \in Rows, rows'[k].st = "sleeping" PROVE rows'[k].at > woken'
        BY Zenon DEF WakeNotLost
      <3>1. CASE k = j /\ ~(rows[k].mark >= rows[k].at)
        <4>1. ~(rows[k].at <= woken)
          BY <1>2, <1>11, <3>1, Zenon DEF WakeInv
        <4> QED
          BY <1>1, <2>2, <4>1, Fields
      <3>2. CASE rows'[k] = rows[k]
        BY <1>1, <1>11, <3>2, Zenon DEF WakeInv, WakeNotLost
      <3> QED
        BY <2>4, <3>1, <3>2, Zenon
    <2>7. \A k \in Rows : rows'[k].st = "running" /\ rows'[k].at <= woken' => rows'[k].mark >= rows'[k].at
      BY <1>1, <1>11, <2>3, Zenon DEF WakeInv
    <2>8. WakeReaches'
      <3> SUFFICES ASSUME NEW c \in Backends, NEW k \in Rows, rows'[k].at <= backends'[c].since, backends'[c].pc \in Wakers
                   PROVE  /\ backends'[c].pc = "mark" /\ rows'[k].st = "running" => backends'[c].snap[k].st = "running"
                          /\ backends'[c].pc \in {"wake", "waking"} /\ backends'[c].clear /\ rows'[k].st = "running" => rows'[k].mark >= rows'[k].at
                          /\ backends'[c].pc = "waking" /\ backends'[c].clear /\ rows'[k].st = "sleeping" => backends'[c].snap[k].st = "sleeping"
        BY Zenon DEF WakeReaches, Wakers
      <3>1. backends'[c] = backends[c] /\ rows[k].at <= backends[c].since
        BY <1>7, <2>2, Zenon
      <3>2. CASE rows'[k] = rows[k]
        BY <1>11, <3>1, <3>2, ZenonT(30) DEF WakeInv, WakeReaches
      <3>3. CASE k = j /\ rows'[k] # rows[k]
        <4>1. backends[c].pc \in {"wake", "waking"} /\ backends[c].clear => rows[k].mark >= rows[k].at
          BY <1>2, <1>11, <3>1, <3>3, Zenon DEF WakeInv, WakeReaches
        <4> QED
          BY <2>3, <2>4, <3>1, <3>3, <4>1, Zenon
      <3> QED
        BY <1>4, <3>2, <3>3, Zenon
    <2> QED
      BY <2>1, <2>5, <2>6, <2>7, <2>8, Zenon DEF WakeInv
  <1> QED
    BY <1>4, <1>5, <1>6, <1>9, <1>10, <1>11, Zenon DEF JobsInv

-----------------------------------------------------------------------------
(* The wake call. *)

\* A step of a wake call, which starts and ends no attempt, keeps all but what
\* concerns wakes.
LEMMA WakerSteps ==
    ASSUME JobsInv, NEW b \in Backends, NEW rec, backends[b].pc \in {"free"} \cup Wakers,
           Step(b, rec), CallShaped(rec), rec.since \in Nat, rec.pc \in {"free"} \cup Wakers,
           RowsOK', ClocksOK',
           \A k \in Rows : /\ rows'[k].past = rows[k].past
                           /\ rows'[k].st = rows[k].st \/ (rows[k].st = "sleeping" /\ rows'[k].st = "available"),
           WakeInv'
    PROVE  JobsInv' /\ UniqueInHistory
  <1>1. CallsOK' /\ backends'[b] = rec /\ \A c \in Backends \ {b} : backends'[c] = backends[c]
    BY OneSteps, Zenon DEF JobsInv, Wakers, OnJob
  <1>2. \A c \in Backends : backends'[c].pc \in Holding => backends'[c] = backends[c] /\ backends[c].job \in Rows
    BY <1>1, Fields, Zenon DEF Holding, Wakers, OnJob
  <1>3. \A c \in Backends : backends'[c].pc \in Holding =>
               /\ backends'[c].pc = backends[c].pc /\ backends'[c].job = backends[c].job
               /\ backends[c].pc = "finalize" => rows'[backends[c].job].st = rows[backends[c].job].st
               /\ backends[c].pc = "retry_commit" => rows'[backends[c].job].past = rows[backends[c].job].past
    BY <1>2, Zenon DEF JobsInv, HeldAsFound
  <1>4. \A k \in UniqueJobs : Live(rows'[k]) => Live(rows[k])
    BY PgJobsAssumption, Zenon DEF Live, Waiting
  <1>5. HoldersApart' /\ HeldAsFound' /\ KeyAlone' /\ UniqueInHistory
    BY <1>3, <1>4, LocksStay, Zenon DEF JobsInv
  <1>6. OneRunsPerKey'
    BY RunsStay, Zenon DEF JobsInv
  <1> QED
    BY <1>1, <1>5, <1>6, Zenon DEF JobsInv

LEMMA MarkBeginsStep ==
    ASSUME JobsInv, NEW b \in Backends, MarkBegins(b)
    PROVE  JobsInv' /\ UniqueInHistory
  <1> DEFINE first == \A c \in Backends : backends[c].pc # "mark"
             rec == [Free EXCEPT !.pc = "mark", !.snap = rows, !.since = clock + 1, !.clear = first]
  <1>1. /\ backends[b].pc = "free" /\ Step(b, rec) /\ clock' = clock + 1
        /\ rows' = rows /\ claims' = claims /\ woken' = woken
    BY Zenon DEF MarkBegins
  <1>2. CallShaped(rec) /\ rec.pc = "mark" /\ rec.snap = rows /\ rec.since = clock + 1 /\ rec.clear = first
    <2> HIDE DEF first
    <2> QED
      BY Zenon DEF CallShaped, Free
  <1>3. clock + 1 \in Nat /\ clock <= clock'
    BY <1>1, Fields
  <1> HIDE DEF rec
  <1>4. RowsOK' /\ ClocksOK'
    BY <1>1, <1>3, Zenon DEF JobsInv, RowsOK, ClocksOK
  <1>5. CallsOK' /\ backends'[b] = rec /\ \A c \in Backends \ {b} : backends'[c] = backends[c]
    BY <1>1, <1>2, <1>3, OneSteps, Zenon DEF JobsInv, OnJob
  <1>6. WakeInv'
    <2>0. WakeInv
      BY Zenon DEF JobsInv
    <2>1. woken' < rec.since /\ rec.since <= clock' /\ woken' <= clock'
      BY <1>1, <1>2, <2>0, Fields DEF WakeInv, CallTimes
    <2>2. \A c \in Backends \ {b} : backends'[c].pc \in Wakers => backends'[c].since < rec.since /\ backends'[c].since <= clock'
      <3>1. \A c \in Backends \ {b} : backends'[c].pc \in Wakers => backends'[c].since <= clock /\ backends'[c].since \in Nat
        BY <1>5, <2>0, Fields, Zenon DEF WakeInv, CallTimes
      <3> QED
        BY <1>1, <1>2, <3>1, Fields
    <2>3. CallTimes'
      <3>1. \A c \in Backends : backends'[c].pc \in Wakers => backends'[c].since <= clock'
        BY <1>5, <2>1, <2>2, Zenon
      <3>2. \A c \in Backends : backends'[c].pc = "mark" => woken' < backends'[c].since
        BY <1>1, <1>5, <2>0, <2>1, Zenon DEF WakeInv, CallTimes
      <3>3. ASSUME NEW c \in Backends, NEW d \in Backends, c # d, backends'[c].pc \in Wakers, backends'[c].clear, backends'[d].pc = "mark"
            PROVE  backends'[c].since < backends'[d].since
        <4>1. CASE d = b
          BY <1>5, <2>2, <3>3, <4>1, Zenon
        <4>2. CASE c = b
          BY <1>2, <1>5, <3>3, <4>2, Zenon
        <4>3. CASE c # b /\ d # b
          BY <1>5, <2>0, <3>3, <4>3, Zenon DEF WakeInv, CallTimes
        <4> QED
          BY <4>1, <4>2, <4>3, Zenon
      <3> QED
        BY <2>1, <3>1, <3>2, <3>3, Zenon DEF CallTimes
    <2>4. \A k \in Rows : rows'[k].at <= clock'
      BY <1>1, <2>0, Fields DEF WakeInv
    <2>5. WakeNotLost' /\ \A k \in Rows : rows'[k].st = "running" /\ rows'[k].at <= woken' => rows'[k].mark >= rows'[k].at
      BY <1>1, <2>0, Zenon DEF WakeInv, WakeNotLost
    <2>6. WakeReaches'
      <3> SUFFICES ASSUME NEW c \in Backends, NEW k \in Rows, rows'[k].at <= backends'[c].since
                   PROVE  /\ backends'[c].pc = "mark" /\ rows'[k].st = "running" => backends'[c].snap[k].st = "running"
                          /\ backends'[c].pc \in {"wake", "waking"} /\ backends'[c].clear /\ rows'[k].st = "running" => rows'[k].mark >= rows'[k].at
                          /\ backends'[c].pc = "waking" /\ backends'[c].clear /\ rows'[k].st = "sleeping" => backends'[c].snap[k].st = "sleeping"
        BY Zenon DEF WakeReaches
      <3>1. CASE c = b
        BY <1>1, <1>2, <1>5, <3>1, Zenon
      <3>2. CASE c # b
        BY <1>1, <1>5, <2>0, <3>2, Zenon DEF WakeInv, WakeReaches
      <3> QED
        BY <3>1, <3>2, Zenon
    <2> QED
      BY <2>3, <2>4, <2>5, <2>6, Zenon DEF WakeInv
  <1> QED
    BY <1>1, <1>2, <1>3, <1>4, <1>6, WakerSteps, Zenon DEF Wakers

\* A wake call that has marked keeps its place among the others.
LEMMA MarkedTimes ==
    ASSUME CallTimes, NEW b \in Backends, backends[b].pc \in {"mark", "wake"}, backends'[b].pc \in {"wake", "waking"},
           backends'[b].since = backends[b].since, backends'[b].clear = backends[b].clear,
           \A c \in Backends \ {b} : backends'[c] = backends[c], clock' = clock, woken' = woken
    PROVE  CallTimes'
  <1>1. \A c \in Backends : backends'[c].since = backends[c].since /\ backends'[c].clear = backends[c].clear
    BY Zenon
  <1>2. \A c \in Backends : backends'[c].pc \in Wakers => backends[c].pc \in Wakers
    BY Zenon DEF Wakers
  <1>3. \A c \in Backends : backends'[c].pc = "mark" => backends[c].pc = "mark"
    BY Zenon
  <1> QED
    BY <1>1, <1>2, <1>3, Zenon DEF CallTimes

LEMMA MarkStep ==
    ASSUME JobsInv, NEW b \in Backends, MarkOrderingKey(b)
    PROVE  JobsInv' /\ UniqueInHistory
  <1> DEFINE rec == [backends[b] EXCEPT !.pc = "wake", !.snap = <<>>]
             t == backends[b].since
  <1>1. /\ backends[b].pc = "mark" /\ Step(b, rec) /\ clock' = clock /\ claims' = claims /\ woken' = woken
        /\ rows' = [j \in Rows |-> IF j \in Marked(b) THEN [rows[j] EXCEPT !.mark = t] ELSE rows[j]]
    BY Zenon DEF MarkOrderingKey
  <1>2. CallShaped(rec) /\ rec.pc = "wake" /\ rec.since = t /\ rec.clear = backends[b].clear /\ t \in Nat
    <2>1. CallShaped(backends[b]) /\ t \in Nat
      BY Fields, Zenon
    <2> QED
      BY <2>1, Zenon DEF CallShaped
  <1> HIDE DEF rec
  <1>3. ASSUME NEW k \in Rows
        PROVE  /\ RowShaped(rows'[k]) /\ rows'[k].mark \in Nat /\ rows'[k].at \in Nat
               /\ rows'[k].st = rows[k].st /\ rows'[k].at = rows[k].at /\ rows'[k].past = rows[k].past
               /\ rows'[k].mark = IF k \in Marked(b) THEN t ELSE rows[k].mark
    <2>1. RowShaped(rows[k]) /\ rows[k].mark \in Nat /\ rows[k].at \in Nat /\ t \in Nat
      BY Fields, Zenon
    <2>2. CASE k \in Marked(b)
      <3>1. rows'[k] = [rows[k] EXCEPT !.mark = t]
        BY <1>1, <2>2, Zenon
      <3> QED
        BY <2>1, <2>2, <3>1, Zenon DEF RowShaped
    <2>3. CASE k \notin Marked(b)
      <3>1. rows'[k] = rows[k]
        BY <1>1, <2>3, Zenon
      <3> QED
        BY <2>1, <2>3, <3>1, Zenon
    <2> QED
      BY <2>2, <2>3, Zenon
  <1>4. RowsOK' /\ ClocksOK'
    <2>1. rows' = [k \in Rows |-> rows'[k]]
      BY <1>1, Zenon
    <2> QED
      BY <1>1, <1>3, <2>1, Zenon DEF JobsInv, RowsOK, ClocksOK
  <1>5. CallsOK' /\ backends'[b] = rec /\ \A c \in Backends \ {b} : backends'[c] = backends[c]
    BY <1>1, <1>2, OneSteps, Zenon DEF JobsInv, OnJob
  <1>6. WakeInv'
    <2>0. WakeInv
      BY Zenon DEF JobsInv
    <2>1. woken' < t /\ t <= clock' /\ woken' <= clock'
      BY <1>1, <2>0, Zenon DEF WakeInv, CallTimes, Wakers
    <2>2. CallTimes'
      BY <1>1, <1>2, <1>5, <2>0, MarkedTimes, Zenon DEF WakeInv
    <2>3. \A k \in Rows : rows'[k].at <= clock'
      BY <1>1, <1>3, <2>0, Zenon DEF WakeInv
    <2>4. WakeNotLost'
      BY <1>1, <1>3, <2>0, Zenon DEF WakeInv, WakeNotLost
    <2>5. \A k \in Rows : rows'[k].st = "running" /\ rows'[k].at <= t => rows'[k].mark >= rows'[k].at
      <3> SUFFICES ASSUME NEW k \in Rows, rows'[k].st = "running", rows'[k].at <= t PROVE rows'[k].mark >= rows'[k].at
        BY Zenon
      <3>1. rows[k].st = "running" /\ rows[k].at <= t
        BY <1>3, Zenon
      <3>2. k \in Marked(b)
        BY <1>1, <2>0, <3>1, Zenon DEF WakeInv, WakeReaches, Marked
      <3>3. rows'[k].mark = t
        BY <1>3, <3>2, Zenon
      <3> QED
        BY <1>3, <3>3, Fields
    <2>6. \A k \in Rows : rows'[k].st = "running" /\ rows'[k].at <= woken' => rows'[k].mark >= rows'[k].at
      <3>1. \A k \in Rows : rows'[k].at <= woken' => rows'[k].at <= t
        BY <1>1, <1>3, <2>1, Fields
      <3> QED
        BY <2>5, <3>1, Zenon
    <2>7. WakeReaches'
      <3> SUFFICES ASSUME NEW c \in Backends, NEW k \in Rows, rows'[k].at <= backends'[c].since
                   PROVE  /\ backends'[c].pc = "mark" /\ rows'[k].st = "running" => backends'[c].snap[k].st = "running"
                          /\ backends'[c].pc \in {"wake", "waking"} /\ backends'[c].clear /\ rows'[k].st = "running" => rows'[k].mark >= rows'[k].at
                          /\ backends'[c].pc = "waking" /\ backends'[c].clear /\ rows'[k].st = "sleeping" => backends'[c].snap[k].st = "sleeping"
        BY Zenon DEF WakeReaches
      <3>1. CASE c = b
        BY <1>2, <1>5, <2>5, <3>1, Zenon
      <3>2. CASE c # b
        <4>1. backends'[c] = backends[c] /\ rows[k].at <= backends[c].since /\ rows'[k].st = rows[k].st /\ rows'[k].at = rows[k].at
          BY <1>3, <1>5, <3>2, Zenon
        <4>2. /\ backends[c].pc = "mark" /\ rows[k].st = "running" => backends[c].snap[k].st = "running"
              /\ backends[c].pc \in {"wake", "waking"} /\ backends[c].clear /\ rows[k].st = "running" => rows[k].mark >= rows[k].at
              /\ backends[c].pc = "waking" /\ backends[c].clear /\ rows[k].st = "sleeping" => backends[c].snap[k].st = "sleeping"
          BY <2>0, <4>1, Zenon DEF WakeInv, WakeReaches
        <4>3. ASSUME backends[c].pc \in {"wake", "waking"}, backends[c].clear, rows[k].st = "running"
              PROVE  rows'[k].mark >= rows'[k].at
          <5>1. backends[c].since < t
            BY <1>1, <2>0, <3>2, <4>3, Zenon DEF WakeInv, CallTimes, Wakers
          <5>2. rows'[k].mark = t \/ rows'[k].mark = rows[k].mark
            BY <1>3, Zenon
          <5>3. rows[k].at <= t
            BY <4>1, <5>1, Fields
          <5>4. CASE rows'[k].mark = t
            BY <4>1, <5>3, <5>4, Fields
          <5> QED
            BY <4>1, <4>2, <4>3, <5>2, <5>4, Zenon
        <4> QED
          BY <4>1, <4>2, <4>3, Zenon
      <3> QED
        BY <3>1, <3>2, Zenon
    <2> QED
      BY <2>2, <2>3, <2>4, <2>6, <2>7, Zenon DEF WakeInv
  <1> QED
    BY <1>1, <1>2, <1>3, <1>4, <1>6, WakerSteps, Zenon DEF Wakers

LEMMA WakeBeginsStep ==
    ASSUME JobsInv, NEW b \in Backends, WakeBegins(b)
    PROVE  JobsInv' /\ UniqueInHistory
  <1> DEFINE rec == [backends[b] EXCEPT !.pc = "waking", !.snap = rows]
             t == backends[b].since
  <1>1. /\ backends[b].pc = "wake" /\ Step(b, rec)
        /\ rows' = rows /\ clock' = clock /\ claims' = claims /\ woken' = woken
    BY Zenon DEF WakeBegins, rowVars
  <1>2. CallShaped(rec) /\ rec.pc = "waking" /\ rec.since = t /\ rec.clear = backends[b].clear /\ rec.snap = rows /\ t \in Nat
    <2>1. CallShaped(backends[b]) /\ t \in Nat
      BY Fields, Zenon
    <2> QED
      BY <2>1, Zenon DEF CallShaped
  <1> HIDE DEF rec
  <1>3. RowsOK' /\ ClocksOK'
    BY <1>1, Zenon DEF JobsInv, RowsOK, ClocksOK
  <1>4. CallsOK' /\ backends'[b] = rec /\ \A c \in Backends \ {b} : backends'[c] = backends[c]
    BY <1>1, <1>2, OneSteps, Zenon DEF JobsInv, OnJob
  <1>5. WakeInv'
    <2>0. WakeInv
      BY Zenon DEF JobsInv
    <2>1. CallTimes'
      BY <1>1, <1>2, <1>4, <2>0, MarkedTimes, Zenon DEF WakeInv
    <2>2. WakeReaches'
      <3> SUFFICES ASSUME NEW c \in Backends, NEW k \in Rows, rows'[k].at <= backends'[c].since
                   PROVE  /\ backends'[c].pc = "mark" /\ rows'[k].st = "running" => backends'[c].snap[k].st = "running"
                          /\ backends'[c].pc \in {"wake", "waking"} /\ backends'[c].clear /\ rows'[k].st = "running" => rows'[k].mark >= rows'[k].at
                          /\ backends'[c].pc = "waking" /\ backends'[c].clear /\ rows'[k].st = "sleeping" => backends'[c].snap[k].st = "sleeping"
        BY Zenon DEF WakeReaches
      <3>1. CASE c = b
        BY <1>1, <1>2, <1>4, <2>0, <3>1, Zenon DEF WakeInv, WakeReaches
      <3>2. CASE c # b
        BY <1>1, <1>4, <2>0, <3>2, Zenon DEF WakeInv, WakeReaches
      <3> QED
        BY <3>1, <3>2, Zenon
    <2> QED
      BY <1>1, <2>0, <2>1, <2>2, Zenon DEF WakeInv, WakeNotLost
  <1> QED
    BY <1>1, <1>2, <1>3, <1>5, WakerSteps, Zenon DEF Wakers

LEMMA WakeStep ==
    ASSUME JobsInv, NEW b \in Backends, JobRetryOrderingKey(b)
    PROVE  JobsInv' /\ UniqueInHistory
  <1> DEFINE found == {j \in Rows : backends[b].snap[j].st = "sleeping" /\ rows[j].st = "sleeping"}
             t == backends[b].since
  <1>1. /\ backends[b].pc = "waking" /\ Step(b, Free) /\ clock' = clock /\ claims' = claims
        /\ woken' = IF backends[b].clear /\ woken < t THEN t ELSE woken
        /\ rows' = [j \in Rows |-> IF j \in found THEN RunNow(rows[j]) ELSE rows[j]]
    BY Zenon DEF JobRetryOrderingKey, Return
  <1>2. ASSUME NEW k \in Rows
        PROVE  /\ RowShaped(rows'[k]) /\ rows'[k].mark \in Nat
               /\ rows'[k].at = rows[k].at /\ rows'[k].past = rows[k].past
               /\ IF k \in found THEN rows'[k].st = "available" ELSE rows'[k] = rows[k]
    <2>1. RowShaped(rows[k]) /\ rows[k].mark \in Nat /\ 0 \in Nat
      BY Fields
    <2>2. CASE k \in found
      <3>1. rows'[k] = [rows[k] EXCEPT !.st = "available", !.mark = 0]
        BY <1>1, <2>2, Zenon DEF RunNow
      <3> QED
        BY <2>1, <2>2, <3>1, Zenon DEF RowShaped
    <2>3. CASE k \notin found
      <3>1. rows'[k] = rows[k]
        BY <1>1, <2>3, Zenon
      <3> QED
        BY <2>1, <2>3, <3>1, Zenon
    <2> QED
      BY <2>2, <2>3, Zenon
  <1>3. \A k \in Rows : rows'[k].st = rows[k].st \/ (rows[k].st = "sleeping" /\ rows'[k].st = "available")
    BY <1>2, Zenon
  <1>4. RowsOK' /\ ClocksOK'
    <2>1. rows' = [k \in Rows |-> rows'[k]]
      BY <1>1, Zenon
    <2>2. t \in Nat /\ woken \in Nat
      BY Fields, Zenon
    <2> QED
      BY <1>1, <1>2, <2>1, <2>2, Zenon DEF JobsInv, RowsOK, ClocksOK
  <1>5. CallsOK' /\ backends'[b] = Free /\ \A c \in Backends \ {b} : backends'[c] = backends[c]
    BY <1>1, OneReturns, Zenon DEF Return, JobsInv
  <1>6. WakeInv'
    <2>0. WakeInv
      BY Zenon DEF JobsInv
    <2>1. \/ backends[b].clear /\ woken' = t
          \/ woken' = woken
      BY <1>1, Zenon
    <2>2. CallTimes'
      <3>1. woken' <= clock' /\ \A c \in Backends : backends'[c].pc \in Wakers => c # b /\ backends'[c] = backends[c] /\ backends'[c].since <= clock'
        BY <1>1, <1>5, <2>0, <2>1, FreeIs, Zenon DEF WakeInv, CallTimes, Wakers
      <3>2. \A c \in Backends : backends'[c].pc = "mark" => backends'[c].pc \in Wakers
        BY Zenon DEF Wakers
      <3>3. \A c \in Backends : backends'[c].pc = "mark" => woken' < backends'[c].since
        BY <1>1, <2>0, <2>1, <3>1, <3>2, Zenon DEF WakeInv, CallTimes, Wakers
      <3>4. \A c, d \in Backends : c # d /\ backends'[c].pc \in Wakers /\ backends'[c].clear /\ backends'[d].pc = "mark" =>
                backends'[c].since < backends'[d].since
        BY <2>0, <3>1, <3>2, Zenon DEF WakeInv, CallTimes
      <3> QED
        BY <3>1, <3>3, <3>4, Zenon DEF CallTimes
    <2>3. \A k \in Rows : rows'[k].at <= clock'
      BY <1>1, <1>2, <2>0, Zenon DEF WakeInv
    <2>4. WakeNotLost'
      <3> SUFFICES ASSUME NEW k \in Rows, rows'[k].st = "sleeping" PROVE rows'[k].at > woken'
        BY Zenon DEF WakeNotLost
      <3>1. k \notin found /\ rows[k].st = "sleeping" /\ rows'[k].at = rows[k].at
        BY <1>2, Zenon
      <3>2. CASE backends[b].clear /\ woken' = t
        <4>1. ~(rows[k].at <= t)
          BY <1>1, <2>0, <3>1, <3>2, Zenon DEF WakeInv, WakeReaches
        <4> QED
          BY <3>1, <3>2, <4>1, Fields
      <3>3. CASE woken' = woken
        BY <2>0, <3>1, <3>3, Zenon DEF WakeInv, WakeNotLost
      <3> QED
        BY <2>1, <3>2, <3>3, Zenon
    <2>5. \A k \in Rows : rows'[k].st = "running" /\ rows'[k].at <= woken' => rows'[k].mark >= rows'[k].at
      BY <1>1, <1>2, <2>0, <2>1, Zenon DEF WakeInv, WakeReaches
    <2>6. WakeReaches'
      <3> SUFFICES ASSUME NEW c \in Backends, NEW k \in Rows, rows'[k].at <= backends'[c].since
                   PROVE  /\ backends'[c].pc = "mark" /\ rows'[k].st = "running" => backends'[c].snap[k].st = "running"
                          /\ backends'[c].pc \in {"wake", "waking"} /\ backends'[c].clear /\ rows'[k].st = "running" => rows'[k].mark >= rows'[k].at
                          /\ backends'[c].pc = "waking" /\ backends'[c].clear /\ rows'[k].st = "sleeping" => backends'[c].snap[k].st = "sleeping"
        BY Zenon DEF WakeReaches
      <3>1. CASE c = b
        BY <1>5, <3>1, FreeIs, Zenon
      <3>2. CASE c # b
        <4>1. backends'[c] = backends[c] /\ rows[k].at <= backends[c].since
          BY <1>2, <1>5, <3>2, Zenon
        <4>2. rows'[k].st \in {"running", "sleeping"} => rows'[k] = rows[k]
          BY <1>2, Zenon
        <4> QED
          BY <2>0, <4>1, <4>2, ZenonT(30) DEF WakeInv, WakeReaches
      <3> QED
        BY <3>1, <3>2, Zenon
    <2> QED
      BY <2>2, <2>3, <2>4, <2>5, <2>6, Zenon DEF WakeInv
  <1> QED
    BY <1>1, <1>2, <1>3, <1>4, <1>6, WakerSteps, FreeIs, Zenon DEF Wakers

-----------------------------------------------------------------------------
LEMMA JobsStep ==
    ASSUME JobsInv, [PgJobsNext]_pjVars
    PROVE  JobsInv' /\ (UniqueInHistory \/ UNCHANGED pjVars)
  <1>1. CASE UNCHANGED pjVars
    <2>1. UNCHANGED <<rows, backends, clock, claims, woken>>
      BY <1>1, Zenon DEF pjVars, rowVars
    <2>2. RowsOK' /\ CallsOK' /\ ClocksOK' /\ OneRunsPerKey' /\ HoldersApart' /\ HeldAsFound'
      BY <2>1, Zenon DEF JobsInv, RowsOK, CallsOK, ClocksOK, OneRunsPerKey, HoldersApart, HeldAsFound
    <2>3. KeyAlone' /\ (WakeInv => WakeInv')
      BY <2>1, Zenon DEF JobsInv, KeyAlone, Live, WakeInv, CallTimes, WakeNotLost, WakeReaches
    <2> QED
      BY <1>1, <2>2, <2>3, Zenon DEF JobsInv
  <1>2. CASE Due
    BY <1>2, DueStep, Zenon
  <1>3. ASSUME NEW b \in Backends, Calls(b) PROVE JobsInv' /\ UniqueInHistory
    BY <1>3, ClaimBeginStep, FinalizeLocksStep, InsertRowStep, RetryLooksStep, DeleteBeginsStep, CancelStep,
       MarkBeginsStep, Zenon DEF Calls
  <1>4. ASSUME NEW b \in Backends,
               \/ JobClaim(b) \/ JobFinalizeMany(b) \/ JobInsertCheckingHistory(b)
               \/ RetryHistory(b) \/ JobRetry(b) \/ JobDelete(b) \/ JobGet(b)
               \/ MarkOrderingKey(b) \/ WakeBegins(b) \/ JobRetryOrderingKey(b) \/ Rollback(b)
        PROVE  JobsInv' /\ UniqueInHistory
    BY <1>4, ClaimStep, FinalizeStep, InsertStep, RetryHistoryStep, RetryStep, DeleteStep, ReturnStep,
       MarkStep, WakeBeginsStep, WakeStep, ZenonT(30)
  <1> QED
    BY <1>1, <1>2, <1>3, <1>4, Zenon DEF PgJobsNext

\* Of an ordering key one job runs at a time, a unique key that counts completed
\* jobs is given to no second one, and no wake is lost of a JobRetryOrderingKey
\* that began while no other of the key was still to mark, however many
\* connections run the statements of jobs.go at the same time.
THEOREM JobsKept == PgJobsSpec => PgJobsSound
  <1>1. JobsInv /\ [PgJobsNext]_pjVars =>
            JobsInv' /\ [OneRunsPerKey' /\ WakeNotLost' /\ UniqueInHistory]_pjVars
    BY JobsStep, Zenon DEF JobsInv, WakeInv
  <1> QED
    BY <1>1, Begins, PTL DEF PgJobsSpec, PgJobsSound

-----------------------------------------------------------------------------
(* JobDelete. *)

\* The looks of a delete so far.  While its job is there, it is in history at
\* the second look unless a JobRetry has moved it, has been moved at the third,
\* and is in history at the fourth unless it has been moved again.
DeleteSees(b) ==
    LET c == backends[b] IN
    /\ c.from \in Nat /\ c.from <= retried[c.job]
    /\ c.lasted => Exists(c.job)
    /\ c.lasted /\ c.pc = "delete_history" /\ retried[c.job] = c.from => rows[c.job].past # "none"
    /\ c.lasted /\ c.pc \in {"delete_live_again", "delete_history_again"} => c.from < retried[c.job]
    /\ c.lasted /\ c.pc = "delete_history_again" /\ retried[c.job] <= c.from + 1 => rows[c.job].past # "none"
DeleteInv ==
    /\ retried = [j \in Rows |-> retried[j]] /\ \A j \in Rows : retried[j] \in Nat
    /\ \A j \in Rows : rows[j].past # "none" => ~Live(rows[j])
    /\ \A b \in Backends : /\ backends[b].pc = "look" => rows[backends[b].job] = NoRow
                           /\ backends[b].pc = "finalize" => backends[b].out # "none"
                           /\ backends[b].pc \in Deletes => DeleteSees(b)
    /\ DeleteKnows

LEMMA DeleteBegun == PgJobsInit => DeleteInv
  <1> SUFFICES ASSUME PgJobsInit PROVE DeleteInv
    BY Zenon
  <1>1. \A j \in Rows : rows[j].past = "none"
    <2>1. \A j \in Rows : rows[j] = NoRow \/ rows[j] = [NoRow EXCEPT !.st = "available", !.seq = j]
      BY Zenon DEF PgJobsInit
    <2>2. \A j \in Rows : [NoRow EXCEPT !.st = "available", !.seq = j].past = "none"
      BY Zenon DEF NoRow
    <2> QED
      BY <2>1, <2>2, FreeIs, Zenon
  <1>2. \A b \in Backends : backends[b].pc = "free"
    BY FreeIs, ZenonT(30) DEF PgJobsInit
  <1>3. retried = [j \in Rows |-> retried[j]] /\ \A j \in Rows : retried[j] \in Nat
    BY FreeIs, Zenon DEF PgJobsInit
  <1> QED
    BY <1>1, <1>2, <1>3, Zenon DEF DeleteInv, Deletes, DeleteKnows, PgJobsInit

\* A step keeps a job that is there and, but for a JobRetry, its place in history.
RowKept(k) ==
    /\ rows'[k].past # "none" => ~Live(rows'[k])
    /\ Exists(k) => Live(rows'[k]) \/ rows'[k].past # "none"
    /\ \/ retried'[k] = retried[k] /\ (rows[k].past # "none" => rows'[k].past # "none")
       \/ retried'[k] = retried[k] + 1

\* A delete goes on seeing its job, as long as it is there.
LEMMA SeesStays ==
    ASSUME DeleteInv, NEW b \in Backends, backends[b].pc \in Deletes, backends[b].job \in Rows,
           backends'[b].pc = backends[b].pc, backends'[b].job = backends[b].job, backends'[b].from = backends[b].from,
           backends'[b].lasted => backends[b].lasted,
           backends'[b].lasted => RowKept(backends[b].job),
           retried'[backends[b].job] \in {retried[backends[b].job], retried[backends[b].job] + 1}
    PROVE  DeleteSees(b)'
  <1> DEFINE j == backends[b].job
             f == backends[b].from
  <1>1. DeleteSees(b)
    BY Zenon DEF DeleteInv
  <1>2. f \in Nat /\ retried[j] \in Nat /\ f <= retried[j] /\ retried'[j] \in {retried[j], retried[j] + 1}
    BY <1>1, Zenon DEF DeleteSees, DeleteInv
  <1> HIDE DEF f, j
  <1>3. f <= retried'[j] /\ (f < retried[j] => f < retried'[j])
    BY <1>2
  <1>4. retried'[j] = f => retried'[j] # retried[j] + 1 /\ retried[j] = f
    BY <1>2
  <1>5. f < retried[j] /\ retried'[j] <= f + 1 => retried'[j] # retried[j] + 1 /\ retried[j] <= f + 1
    BY <1>2
  <1>6. ASSUME backends'[b].lasted PROVE backends[b].lasted /\ RowKept(j) /\ (Live(rows'[j]) \/ rows'[j].past # "none")
    BY <1>1, <1>6, Zenon DEF DeleteSees, RowKept, j
  <1>7. ASSUME backends'[b].lasted, backends[b].pc = "delete_history", retried'[j] = f PROVE rows'[j].past # "none"
    BY <1>1, <1>4, <1>6, <1>7, Zenon DEF DeleteSees, RowKept, j, f
  <1>8. ASSUME backends'[b].lasted, backends[b].pc = "delete_history_again", retried'[j] <= f + 1 PROVE rows'[j].past # "none"
    BY <1>1, <1>5, <1>6, <1>8, Zenon DEF DeleteSees, RowKept, j, f
  <1>9. ASSUME backends'[b].lasted, backends[b].pc \in {"delete_live_again", "delete_history_again"} PROVE f < retried'[j]
    BY <1>1, <1>3, <1>6, <1>9, Zenon DEF DeleteSees, j, f
  <1> QED
    BY <1>2, <1>3, <1>6, <1>7, <1>8, <1>9, Zenon DEF DeleteSees, Exists, Live, j, f

\* A step of no delete.
LEMMA OthersSee ==
    ASSUME JobsInv, DeleteInv,
           \A k \in Rows : RowKept(k) /\ retried'[k] \in {retried[k], retried[k] + 1},
           retried' = [k \in Rows |-> retried'[k]], DeleteKnows',
           \A c \in Backends :
               \/ backends'[c] = backends[c] /\ (backends[c].pc = "look" => rows'[backends[c].job] = NoRow)
               \/ /\ backends'[c].pc \notin Deletes
                  /\ backends'[c].pc = "look" => rows'[backends'[c].job] = NoRow
                  /\ backends'[c].pc = "finalize" => backends'[c].out # "none"
    PROVE  DeleteInv'
  <1>1. \A k \in Rows : retried'[k] \in Nat /\ (rows'[k].past # "none" => ~Live(rows'[k]))
    <2>1. \A k \in Rows : retried[k] \in Nat /\ retried'[k] \in {retried[k], retried[k] + 1}
      BY Zenon DEF DeleteInv
    <2>2. \A k \in Rows : retried'[k] \in Nat
      BY <2>1
    <2> QED
      BY <2>2, Zenon DEF RowKept
  <1>2. ASSUME NEW c \in Backends, backends'[c].pc \in Deletes PROVE DeleteSees(c)'
    <2>1. backends'[c] = backends[c] /\ backends[c].pc \in Deletes
      BY <1>2, Zenon
    <2>2. backends[c].job \in Rows
      BY <2>1, Fields, Zenon DEF Deletes, OnJob
    <2> QED
      BY <2>1, <2>2, SeesStays, Zenon
  <1>3. ASSUME NEW c \in Backends
        PROVE  /\ backends'[c].pc = "look" => rows'[backends'[c].job] = NoRow
               /\ backends'[c].pc = "finalize" => backends'[c].out # "none"
    BY Zenon DEF DeleteInv
  <1> QED
    BY <1>1, <1>2, <1>3, Zenon DEF DeleteInv, Live

LEMMA SameKept ==
    ASSUME DeleteInv, NEW k \in Rows, rows'[k] = rows[k], retried'[k] = retried[k]
    PROVE  RowKept(k)
  BY Zenon DEF RowKept, DeleteInv, Exists

\* A step of one connection that changes no row and is no look of a delete.
LEMMA QuietSees ==
    ASSUME JobsInv, DeleteInv, NEW b \in Backends, NEW rec, Step(b, rec), rec.pc \notin Deletes,
           rec.pc = "look" => rows[rec.job] = NoRow, rec.pc = "finalize" => rec.out # "none",
           rows' = rows, retried' = retried, DeleteKnows'
    PROVE  DeleteInv'
  <1>1. backends'[b] = rec /\ \A c \in Backends \ {b} : backends'[c] = backends[c]
    BY Zenon DEF JobsInv, CallsOK, Step
  <1>2. \A k \in Rows : RowKept(k) /\ retried'[k] \in {retried[k], retried[k] + 1}
    BY SameKept, Zenon
  <1>3. retried' = [k \in Rows |-> retried'[k]]
    BY Zenon DEF DeleteInv
  <1>4. \A c \in Backends : backends[c].pc = "look" => rows'[backends[c].job] = NoRow
    BY Zenon DEF DeleteInv
  <1> QED
    BY <1>1, <1>2, <1>3, <1>4, OthersSee, Zenon

\* A statement that changes a row and returns.
LEMMA RowSees ==
    ASSUME JobsInv, DeleteInv, NEW b \in Backends, NEW j \in Rows, Return(b), RowKept(j), DeleteKnows',
           \A k \in Rows \ {j} : rows'[k] = rows[k] /\ retried'[k] = retried[k],
           retried'[j] \in {retried[j], retried[j] + 1}, retried' = [k \in Rows |-> retried'[k]],
           rows[j] # NoRow \/ (backends[b].pc = "look" /\ backends[b].job = j)
    PROVE  DeleteInv'
  <1>1. backends'[b] = Free /\ \A c \in Backends \ {b} : backends'[c] = backends[c]
    BY OneReturns, Zenon DEF JobsInv
  <1>2. \A k \in Rows : RowKept(k) /\ retried'[k] \in {retried[k], retried[k] + 1}
    BY SameKept, Zenon
  <1>3. ASSUME NEW c \in Backends \ {b}, backends[c].pc = "look" PROVE rows'[backends[c].job] = NoRow
    <2>1. backends[c].job \in Rows /\ rows[backends[c].job] = NoRow
      BY <1>3, Fields, Zenon DEF DeleteInv, OnJob
    <2>2. backends[c].job # j
      BY <1>3, <2>1, Zenon DEF JobsInv, HoldersApart, Holding
    <2> QED
      BY <2>1, <2>2, Zenon
  <1>4. backends'[b].pc \notin Deletes \cup {"look", "finalize"}
    BY <1>1, FreeIs, Zenon DEF Deletes
  <1> QED
    BY <1>1, <1>2, <1>3, <1>4, OthersSee, Zenon

\* A row changed by what leaves the retries as they are.
LEMMA RowChanged ==
    ASSUME JobsInv, DeleteInv, NEW b \in Backends, NEW j \in Rows, NEW r, Return(b), DeleteKnows',
           rows' = [rows EXCEPT ![j] = r], retried' = retried,
           r.past # "none" => ~Live(r), Live(r) \/ r.past # "none", rows[j].past # "none" => r.past # "none",
           rows[j] # NoRow \/ (backends[b].pc = "look" /\ backends[b].job = j)
    PROVE  DeleteInv'
  <1>1. rows'[j] = r /\ \A k \in Rows \ {j} : rows'[k] = rows[k]
    BY Zenon DEF JobsInv, RowsOK
  <1>2. RowKept(j)
    BY <1>1, Zenon DEF RowKept
  <1>3. retried' = [k \in Rows |-> retried'[k]]
    BY Zenon DEF DeleteInv
  <1> QED
    BY <1>1, <1>2, <1>3, RowSees, Zenon

LEMMA CallsSee ==
    ASSUME JobsInv, DeleteInv, NEW b \in Backends, ClaimBegin(b) \/ FinalizeLocks(b) \/ InsertRow(b) \/ MarkBegins(b)
    PROVE  DeleteInv'
  <1>0. DeleteKnows' /\ rows' = rows /\ retried' = retried
    BY Zenon DEF DeleteInv, DeleteKnows, ClaimBegin, FinalizeLocks, InsertRow, MarkBegins, rowVars
  <1>1. CASE ClaimBegin(b)
    <2> DEFINE rec == [Free EXCEPT !.pc = "claim", !.snap = rows]
    <2>1. Step(b, rec) /\ rec.pc = "claim"
      BY <1>1, Zenon DEF ClaimBegin, Free
    <2> HIDE DEF rec
    <2> QED
      BY <1>0, <2>1, QuietSees, Zenon DEF Deletes
  <1>2. CASE FinalizeLocks(b)
    <2>1. PICK cl \in claims, out \in Outcomes :
              Step(b, [Free EXCEPT !.pc = "finalize", !.job = cl[1], !.fence = cl[2], !.out = out])
      BY <1>2, Zenon DEF FinalizeLocks
    <2> DEFINE rec == [Free EXCEPT !.pc = "finalize", !.job = cl[1], !.fence = cl[2], !.out = out]
    <2>2. Step(b, rec) /\ rec.pc = "finalize" /\ rec.out # "none"
      BY <2>1, Zenon DEF Free, Outcomes
    <2> HIDE DEF rec
    <2> QED
      BY <1>0, <2>2, QuietSees, Zenon DEF Deletes
  <1>3. CASE InsertRow(b)
    <2>1. PICK j \in Inserted : rows[j] = NoRow /\ (Step(b, Free) \/ Step(b, [Free EXCEPT !.pc = "look", !.job = j]))
      BY <1>3, Zenon DEF InsertRow, Return
    <2> DEFINE rec == [Free EXCEPT !.pc = "look", !.job = j]
    <2>2. rec.pc = "look" /\ rec.job = j
      BY Zenon DEF Free
    <2>3. CASE Step(b, Free)
      BY <1>0, <2>3, QuietSees, FreeIs, Zenon DEF Deletes
    <2>4. CASE Step(b, rec)
      <3> HIDE DEF rec
      <3> QED
        BY <1>0, <2>1, <2>2, <2>4, QuietSees, Zenon DEF Deletes
    <2> QED
      BY <2>1, <2>3, <2>4, Zenon
  <1>4. CASE MarkBegins(b)
    <2> DEFINE first == \A c \in Backends : backends[c].pc # "mark"
               rec == [Free EXCEPT !.pc = "mark", !.snap = rows, !.since = clock + 1, !.clear = first]
    <2>1. Step(b, rec)
      BY <1>4, Zenon DEF MarkBegins
    <2> HIDE DEF first
    <2>2. rec.pc = "mark"
      BY Zenon DEF Free
    <2> HIDE DEF rec
    <2> QED
      BY <1>0, <2>1, <2>2, QuietSees, Zenon DEF Deletes
  <1> QED
    BY <1>1, <1>2, <1>3, <1>4, Zenon

LEMMA ClaimSees ==
    ASSUME JobsInv, DeleteInv, NEW b \in Backends, JobClaim(b)
    PROVE  DeleteInv'
  <1> DEFINE found == {j \in Eligible(backends[b].snap) : rows[j].st = "available" /\ j \notin Held(b)}
  <1>0. Return(b) /\ DeleteKnows' /\ retried' = retried
    BY Zenon DEF JobClaim, DeleteInv, DeleteKnows, rowVars
  <1>1. CASE ~\E j \in found : RunningKeyIndex(j)
    <2>1. rows' = rows
      BY <1>1, Zenon DEF JobClaim, rowVars
    <2> QED
      BY <1>0, <2>1, QuietSees, FreeIs, Zenon DEF Return, Deletes
  <1>2. CASE \E j \in found : RunningKeyIndex(j)
    <2>1. PICK j \in found : rows' = [rows EXCEPT ![j].st = "running", ![j].fence = @ + 1, ![j].at = clock + 1]
      <3>1. (CHOOSE k \in found : TRUE) \in found
        BY <1>2, Zenon
      <3> QED
        BY <1>2, <3>1, Zenon DEF JobClaim
    <2> DEFINE r == [rows[j] EXCEPT !.st = "running", !.fence = rows[j].fence + 1, !.at = clock + 1]
    <2>2. j \in Rows /\ rows[j].st = "available"
      BY Zenon DEF Eligible
    <2>3. rows' = [rows EXCEPT ![j] = r]
      <3>1. rows = [k \in Rows |-> rows[k]]
        BY Zenon DEF JobsInv, RowsOK
      <3> QED
        BY <2>1, <2>2, <3>1, Zenon
    <2>4. r.st = "running" /\ r.past = rows[j].past
      <3>1. RowShaped(rows[j])
        BY <2>2, Fields, Zenon
      <3> QED
        BY <3>1, Zenon DEF RowShaped
    <2>5. rows[j].past = "none" /\ rows[j] # NoRow
      BY <2>2, FreeIs, Zenon DEF DeleteInv, Live, Waiting
    <2> HIDE DEF r, found
    <2> QED
      BY <1>0, <2>2, <2>3, <2>4, <2>5, RowChanged, Zenon DEF Live
  <1> QED
    BY <1>1, <1>2, Zenon

LEMMA FinalizeSees ==
    ASSUME JobsInv, DeleteInv, NEW b \in Backends, JobFinalizeMany(b)
    PROVE  DeleteInv'
  <1> DEFINE j == backends[b].job
             row == rows[j]
             out == backends[b].out
             next == IF out \in Waiting
                     THEN [row EXCEPT !.st = IF Wakes(row) THEN "available" ELSE out, !.mark = 0]
                     ELSE [row EXCEPT !.st = "absent", !.mark = 0, !.past = out]
  <1>1. backends[b].pc = "finalize" /\ rows' = [rows EXCEPT ![j] = next] /\ Return(b) /\ retried' = retried /\ DeleteKnows'
    BY DEF JobFinalizeMany, DeleteInv, DeleteKnows
  <1>2. j \in Rows /\ row.st = "running" /\ out # "none"
    BY <1>1, Fields, Zenon DEF OnJob, JobsInv, HeldAsFound, DeleteInv
  <1>3. row.past = "none" /\ row # NoRow
    BY <1>2, FreeIs, Zenon DEF DeleteInv, Live
  <1>4. \/ next.st \in Waiting /\ next.past = "none"
        \/ next.st = "absent" /\ next.past # "none"
    <2>1. RowShaped(row)
      BY <1>2, Fields, Zenon
    <2>2. CASE out \in Waiting
      BY <1>3, <2>1, <2>2, Zenon DEF RowShaped, Waiting
    <2>3. CASE out \notin Waiting
      BY <1>2, <2>1, <2>3, Zenon DEF RowShaped
    <2> QED
      BY <2>2, <2>3, Zenon
  <1> HIDE DEF next
  <1>5. (next.past # "none" => ~Live(next)) /\ (Live(next) \/ next.past # "none")
    BY <1>4, Zenon DEF Live, Waiting
  <1> QED
    BY <1>1, <1>2, <1>3, <1>5, RowChanged, Zenon

LEMMA InsertSees ==
    ASSUME JobsInv, DeleteInv, NEW b \in Backends, JobInsertCheckingHistory(b)
    PROVE  DeleteInv'
  <1> DEFINE j == backends[b].job
             r == [NoRow EXCEPT !.st = "available", !.seq = MaxSeq + 1]
  <1>1. /\ backends[b].pc = "look" /\ Return(b) /\ retried' = retried /\ DeleteKnows'
        /\ rows' = IF UniqueHistory(j) THEN rows ELSE [rows EXCEPT ![j] = r]
    BY Zenon DEF JobInsertCheckingHistory, DeleteInv, DeleteKnows
  <1>2. j \in Rows /\ rows[j] = NoRow
    BY <1>1, Fields, Zenon DEF OnJob, DeleteInv
  <1>3. CASE UniqueHistory(j)
    BY <1>1, <1>3, QuietSees, FreeIs, Zenon DEF Return, Deletes
  <1>4. CASE ~UniqueHistory(j)
    <2>1. r.st = "available" /\ r.past = "none"
      BY Zenon DEF NoRow
    <2>2. rows' = [rows EXCEPT ![j] = r]
      BY <1>1, <1>4, Zenon
    <2> HIDE DEF r
    <2> QED
      BY <1>1, <1>2, <2>1, <2>2, RowChanged, FreeIs, Zenon DEF Live, Waiting
  <1> QED
    BY <1>3, <1>4, Zenon

LEMMA RetrySees ==
    ASSUME JobsInv, DeleteInv, NEW b \in Backends, RetryLooks(b) \/ RetryHistory(b) \/ JobRetry(b)
    PROVE  DeleteInv'
  <1>0. DeleteKnows'
    <2>1. lost' = lost \/ lost' = lost \cup {"retry"}
      BY Zenon DEF RetryLooks, RetryHistory, JobRetry
    <2> QED
      BY <2>1 DEF DeleteInv, DeleteKnows
  <1>1. CASE RetryLooks(b)
    <2>1. PICK j \in Rows :
              IF Live(rows[j])
              THEN /\ rows' = [rows EXCEPT ![j] = RunNow(rows[j])]
                   /\ Return(b)
              ELSE /\ Step(b, [Free EXCEPT !.pc = "retry_history", !.job = j, !.lasted = TRUE])
                   /\ rows' = rows
      BY <1>1, Zenon DEF RetryLooks
    <2>2. retried' = retried
      BY <1>1, Zenon DEF RetryLooks
    <2>3. CASE Live(rows[j])
      <3> DEFINE r == RunNow(rows[j])
      <3>1. r.st = "available" /\ r.past = rows[j].past
        <4>1. RowShaped(rows[j])
          BY Fields, Zenon
        <4> QED
          BY <4>1, Zenon DEF RowShaped, RunNow
      <3>2. rows[j].past = "none" /\ rows[j] # NoRow /\ rows' = [rows EXCEPT ![j] = r]
        BY <2>1, <2>3, FreeIs, Zenon DEF DeleteInv, Live, Waiting
      <3> HIDE DEF r
      <3> QED
        BY <1>0, <2>1, <2>2, <2>3, <3>1, <3>2, RowChanged, Zenon DEF Live, Waiting
    <2>4. CASE ~Live(rows[j])
      <3> DEFINE rec == [Free EXCEPT !.pc = "retry_history", !.job = j, !.lasted = TRUE]
      <3>1. rec.pc = "retry_history" /\ Step(b, rec) /\ rows' = rows
        BY <2>1, <2>4, Zenon DEF Free
      <3> HIDE DEF rec
      <3> QED
        BY <1>0, <2>2, <3>1, QuietSees, Zenon DEF Deletes
    <2> QED
      BY <2>3, <2>4, Zenon
  <1>2. CASE RetryHistory(b)
    <2> DEFINE rec == [backends[b] EXCEPT !.pc = "retry_commit"]
    <2>1. (Step(b, Free) \/ Step(b, rec)) /\ rows' = rows /\ retried' = retried
      BY <1>2, Zenon DEF RetryHistory, Return
    <2>2. rec.pc = "retry_commit"
      <3>1. CallShaped(backends[b])
        BY Fields, Zenon
      <3> QED
        BY <3>1, Zenon DEF CallShaped
    <2> HIDE DEF rec
    <2> QED
      BY <1>0, <2>1, <2>2, QuietSees, FreeIs, Zenon DEF Deletes
  <1>3. CASE JobRetry(b)
    <2> DEFINE j == backends[b].job
               r == [rows[j] EXCEPT !.st = "available", !.seq = MaxSeq + 1, !.past = "none"]
    <2>1. /\ backends[b].pc = "retry_commit" /\ Return(b)
          /\ rows' = [rows EXCEPT ![j] = r] /\ retried' = [retried EXCEPT ![j] = @ + 1]
      BY <1>3 DEF JobRetry
    <2>2. j \in Rows /\ rows[j] # NoRow
      BY <2>1, Fields, FreeIs, Zenon DEF OnJob, JobsInv, HeldAsFound
    <2>3. r.st = "available" /\ r.past = "none"
      <3>1. RowShaped(rows[j])
        BY <2>2, Fields, Zenon
      <3> QED
        BY <3>1, Zenon DEF RowShaped
    <2> HIDE DEF r, j
    <2>4. rows'[j] = r /\ \A k \in Rows \ {j} : rows'[k] = rows[k]
      BY <2>1, <2>2, Zenon DEF JobsInv, RowsOK
    <2>5. /\ retried'[j] = retried[j] + 1 /\ \A k \in Rows \ {j} : retried'[k] = retried[k]
          /\ retried' = [k \in Rows |-> retried'[k]]
      BY <2>1, <2>2, Zenon DEF DeleteInv
    <2>6. RowKept(j)
      BY <2>3, <2>4, <2>5, Zenon DEF RowKept, Live, Waiting
    <2> QED
      BY <1>0, <2>1, <2>2, <2>4, <2>5, <2>6, RowSees, Zenon
  <1> QED
    BY <1>1, <1>2, <1>3, Zenon

LEMMA CancelSees ==
    ASSUME JobsInv, DeleteInv, NEW b \in Backends, JobCancel(b)
    PROVE  DeleteInv'
  <1>1. PICK j \in Rows :
            IF rows[j].st \in Waiting
            THEN rows' = [rows EXCEPT ![j].st = "absent", ![j].mark = 0, ![j].past = "canceled"] /\ Return(b)
            ELSE rows' = rows /\ Step(b, [Free EXCEPT !.pc = "get", !.job = j])
    BY Zenon DEF JobCancel
  <1>2. retried' = retried /\ DeleteKnows'
    BY Zenon DEF JobCancel, DeleteInv, DeleteKnows
  <1>3. CASE rows[j].st \in Waiting
    <2> DEFINE r == [rows[j] EXCEPT !.st = "absent", !.mark = 0, !.past = "canceled"]
    <2>1. r.st = "absent" /\ r.past = "canceled"
      <3>1. RowShaped(rows[j])
        BY Fields, Zenon
      <3> QED
        BY <3>1, Zenon DEF RowShaped
    <2>2. rows' = [rows EXCEPT ![j] = r]
      <3>1. rows = [k \in Rows |-> rows[k]]
        BY Zenon DEF JobsInv, RowsOK
      <3> QED
        BY <1>1, <1>3, <3>1, Zenon
    <2>3. rows[j] # NoRow
      BY <1>3, FreeIs, Zenon DEF Waiting
    <2> HIDE DEF r
    <2> QED
      BY <1>1, <1>2, <1>3, <2>1, <2>2, <2>3, RowChanged, Zenon DEF Live, Waiting
  <1>4. CASE rows[j].st \notin Waiting
    <2> DEFINE rec == [Free EXCEPT !.pc = "get", !.job = j]
    <2>1. rec.pc = "get" /\ Step(b, rec) /\ rows' = rows
      BY <1>1, <1>4, Zenon DEF Free
    <2> HIDE DEF rec
    <2> QED
      BY <1>2, <2>1, QuietSees, Zenon DEF Deletes
  <1> QED
    BY <1>3, <1>4, Zenon

\* A statement on waiting and running jobs that leaves them so.
LEMMA LiveSees ==
    ASSUME JobsInv, DeleteInv, DeleteKnows', retried' = retried,
           \A k \in Rows : \/ rows'[k] = rows[k]
                           \/ Live(rows[k]) /\ Live(rows'[k]) /\ rows'[k].past = rows[k].past,
           \A c \in Backends : backends'[c] = backends[c] \/ backends'[c].pc \notin Deletes \cup {"look", "finalize"}
    PROVE  DeleteInv'
  <1>1. ASSUME NEW k \in Rows PROVE RowKept(k) /\ retried'[k] = retried[k] /\ (rows[k] = NoRow => rows'[k] = NoRow)
    <2>1. CASE rows'[k] = rows[k]
      BY <2>1, SameKept, Zenon
    <2>2. CASE Live(rows[k]) /\ Live(rows'[k]) /\ rows'[k].past = rows[k].past
      BY <2>2, FreeIs, Zenon DEF RowKept, DeleteInv, Live, Waiting
    <2> QED
      BY <2>1, <2>2, Zenon
  <1>2. retried' = [k \in Rows |-> retried'[k]]
    BY Zenon DEF DeleteInv
  <1>3. \A c \in Backends : backends[c].pc = "look" => rows'[backends[c].job] = NoRow
    BY <1>1, Fields, Zenon DEF DeleteInv, OnJob
  <1> QED
    BY <1>1, <1>2, <1>3, OthersSee, Zenon

LEMMA WakersSee ==
    ASSUME JobsInv, DeleteInv, NEW b \in Backends, MarkOrderingKey(b) \/ WakeBegins(b) \/ JobRetryOrderingKey(b)
    PROVE  DeleteInv'
  <1>0. DeleteKnows' /\ retried' = retried
    BY Zenon DEF DeleteInv, DeleteKnows, MarkOrderingKey, WakeBegins, JobRetryOrderingKey, rowVars
  <1>1. \A c \in Backends : backends'[c] = backends[c] \/ backends'[c].pc \notin Deletes \cup {"look", "finalize"}
    <2>1. CallShaped(backends[b])
      BY Fields, Zenon
    <2>2. PICK rec : Step(b, rec) /\ rec.pc \in {"wake", "waking", "free"}
      <3>1. [backends[b] EXCEPT !.pc = "wake", !.snap = <<>>].pc = "wake" /\ [backends[b] EXCEPT !.pc = "waking", !.snap = rows].pc = "waking"
        BY <2>1, Zenon DEF CallShaped
      <3> QED
        BY <3>1, FreeIs, Zenon DEF MarkOrderingKey, WakeBegins, JobRetryOrderingKey, Return
    <2>3. backends'[b] = rec /\ \A c \in Backends \ {b} : backends'[c] = backends[c]
      BY <2>2, Zenon DEF JobsInv, CallsOK, Step
    <2> QED
      BY <2>2, <2>3, Zenon DEF Deletes
  <1>2. ASSUME NEW k \in Rows
        PROVE  \/ rows'[k] = rows[k]
               \/ Live(rows[k]) /\ Live(rows'[k]) /\ rows'[k].past = rows[k].past
    <2>1. RowShaped(rows[k])
      BY Fields, Zenon
    <2>2. CASE MarkOrderingKey(b)
      <3>1. rows'[k] = rows[k] \/ (rows[k].st = "running" /\ rows'[k] = [rows[k] EXCEPT !.mark = backends[b].since])
        BY <2>2, Zenon DEF MarkOrderingKey, Marked
      <3> QED
        BY <2>1, <3>1, Zenon DEF RowShaped, Live
    <2>3. CASE WakeBegins(b)
      BY <2>3, Zenon DEF WakeBegins, rowVars
    <2>4. CASE JobRetryOrderingKey(b)
      <3>1. rows'[k] = rows[k] \/ (rows[k].st = "sleeping" /\ rows'[k] = [rows[k] EXCEPT !.st = "available", !.mark = 0])
        BY <2>4, Zenon DEF JobRetryOrderingKey, RunNow
      <3> QED
        BY <2>1, <3>1, Zenon DEF RowShaped, Live, Waiting
    <2> QED
      BY <2>2, <2>3, <2>4, Zenon
  <1> QED
    BY <1>0, <1>1, <1>2, LiveSees, Zenon

LEMMA DueSees ==
    ASSUME JobsInv, DeleteInv, Due
    PROVE  DeleteInv'
  <1>1. backends' = backends /\ retried' = retried /\ DeleteKnows'
    BY Zenon DEF Due, DeleteInv, DeleteKnows
  <1>2. PICK j \in Rows : rows[j].st = "sleeping" /\ rows' = [rows EXCEPT ![j].st = "available"]
    BY Zenon DEF Due
  <1>3. rows'[j] = [rows[j] EXCEPT !.st = "available"] /\ \A k \in Rows \ {j} : rows'[k] = rows[k]
    BY <1>2, Zenon DEF JobsInv, RowsOK
  <1>4. Live(rows[j]) /\ Live(rows'[j]) /\ rows'[j].past = rows[j].past
    <2>1. RowShaped(rows[j])
      BY Fields, Zenon
    <2>2. rows'[j].st = "available" /\ rows'[j].past = rows[j].past
      BY <1>3, <2>1, Zenon DEF RowShaped
    <2>3. rows[j].st = "sleeping"
      BY <1>2, Zenon
    <2> QED
      BY <2>2, <2>3, Zenon DEF Live, Waiting
  <1> QED
    BY <1>1, <1>3, <1>4, LiveSees, Zenon

\* What a call knows after a look of a delete.
KnowsOf(c, old) ==
    /\ backends'[c].pc = old.pc /\ backends'[c].job = old.job /\ backends'[c].from = old.from
    /\ backends'[c].out = old.out
    /\ backends'[c].lasted =>
         old.lasted /\ (old.job \in Rows => Live(rows'[old.job]) \/ rows'[old.job].past # "none")

LEMMA LastingSees ==
    ASSUME CallsOK, NEW b \in Backends, NEW rec, CallShaped(rec), backends' = Lasting([backends EXCEPT ![b] = rec])
    PROVE  KnowsOf(b, rec) /\ \A c \in Backends \ {b} : KnowsOf(c, backends[c])
  <1> DEFINE bs == [backends EXCEPT ![b] = rec]
             was(c) == bs[c].lasted /\ (bs[c].job \in Rows => Live(rows'[bs[c].job]) \/ rows'[bs[c].job].past # "none")
  <1>1. bs[b] = rec /\ \A c \in Backends \ {b} : bs[c] = backends[c]
    BY Zenon DEF CallsOK
  <1>2. \A c \in Backends : CallShaped(bs[c])
    BY <1>1, Zenon DEF CallsOK
  <1>3. backends' = [c \in Backends |-> [bs[c] EXCEPT !.lasted = was(c)]]
    BY DEF Lasting
  <1> HIDE DEF bs
  <1>4. ASSUME NEW c \in Backends PROVE KnowsOf(c, bs[c])
    <2>1. was(c) => bs[c].lasted /\ (bs[c].job \in Rows => Live(rows'[bs[c].job]) \/ rows'[bs[c].job].past # "none")
      BY Zenon
    <2> HIDE DEF was
    <2>2. backends'[c] = [bs[c] EXCEPT !.lasted = was(c)]
      BY <1>3, Zenon
    <2>3. /\ backends'[c].pc = bs[c].pc /\ backends'[c].job = bs[c].job /\ backends'[c].from = bs[c].from
          /\ backends'[c].out = bs[c].out /\ backends'[c].lasted = was(c)
      BY <1>2, <2>2 DEF CallShaped
    <2> QED
      BY <2>1, <2>3, Zenon DEF KnowsOf
  <1> QED
    BY <1>1, <1>4, Zenon

\* A look of a delete: it changes no row but its job's, which it may take away.
LEMMA LookSees ==
    ASSUME JobsInv, DeleteInv, NEW b \in Backends, backends[b].pc \in Deletes, NEW rec, CallShaped(rec),
           rec.pc \in Deletes \cup {"free"}, backends' = Lasting([backends EXCEPT ![b] = rec]),
           \A k \in Rows \ {backends[b].job} : rows'[k] = rows[k],
           \/ rows'[backends[b].job] = rows[backends[b].job]
           \/ /\ rows[backends[b].job] # NoRow
              /\ ~Live(rows'[backends[b].job]) /\ rows'[backends[b].job].past = "none",
           retried' = retried, DeleteKnows', rec.pc \in Deletes => DeleteSees(b)'
    PROVE  DeleteInv'
  <1> DEFINE j == backends[b].job
  <1>1. j \in Rows
    BY Fields, Zenon DEF Deletes, OnJob
  <1> HIDE DEF j
  <1>2. /\ \A k \in Rows : rows'[k].past # "none" => ~Live(rows'[k])
        /\ retried' = [k \in Rows |-> retried'[k]] /\ \A k \in Rows : retried'[k] \in Nat
    BY Zenon DEF DeleteInv, j
  <1>3. ASSUME NEW c \in Backends
        PROVE  /\ backends'[c].pc = "look" => rows'[backends'[c].job] = NoRow
               /\ backends'[c].pc = "finalize" => backends'[c].out # "none"
               /\ backends'[c].pc \in Deletes => DeleteSees(c)'
    <2>1. CASE c = b
      <3>1. backends'[c].pc = rec.pc
        BY <2>1, LastingSees, ZenonT(30) DEF JobsInv, KnowsOf
      <3> QED
        BY <2>1, <3>1, Zenon DEF Deletes
    <2>2. CASE c # b
      <3> DEFINE k == backends[c].job
      <3>1. /\ backends'[c].pc = backends[c].pc /\ backends'[c].job = k /\ backends'[c].from = backends[c].from
            /\ backends'[c].out = backends[c].out
            /\ backends'[c].lasted =>
                 backends[c].lasted /\ (k \in Rows => Live(rows'[k]) \/ rows'[k].past # "none")
        BY <2>2, LastingSees, ZenonT(30) DEF JobsInv, KnowsOf
      <3> HIDE DEF k
      <3>2. backends[c].pc \in Deletes \cup {"look"} => k \in Rows
        BY Fields, Zenon DEF Deletes, OnJob, k
      <3>3. backends[c].pc = "look" => rows'[k] = NoRow
        BY <3>2, Zenon DEF DeleteInv, k, j
      <3>4. ASSUME backends[c].pc \in Deletes, backends'[c].lasted PROVE RowKept(k)
        <4>1. CASE rows'[k] = rows[k]
          BY <3>2, <3>4, <4>1, SameKept, Zenon
        <4>2. CASE rows'[k] # rows[k]
          BY <3>1, <3>2, <3>4, <4>2, Zenon DEF j
        <4> QED
          BY <4>1, <4>2, Zenon
      <3>5. ASSUME backends[c].pc \in Deletes PROVE DeleteSees(c)'
        BY <3>1, <3>2, <3>4, <3>5, SeesStays, Zenon DEF k
      <3> QED
        BY <3>1, <3>3, <3>5, ZenonT(30) DEF DeleteInv
    <2> QED
      BY <2>1, <2>2, Zenon
  <1> QED
    BY <1>2, <1>3, Zenon DEF DeleteInv, Live

\* A step of a delete that changes no row.
LEMMA NextLookSees ==
    ASSUME JobsInv, DeleteInv, NEW b \in Backends, backends'[b].pc \in Deletes, DeleteSees(b)',
           \A c \in Backends \ {b} : backends'[c] = backends[c],
           rows' = rows, retried' = retried, DeleteKnows'
    PROVE  DeleteInv'
  <1>1. ASSUME NEW c \in Backends
        PROVE  /\ backends'[c].pc = "look" => rows'[backends'[c].job] = NoRow
               /\ backends'[c].pc = "finalize" => backends'[c].out # "none"
               /\ backends'[c].pc \in Deletes => DeleteSees(c)'
    <2>1. CASE c = b
      BY <2>1, Zenon DEF Deletes
    <2>2. CASE c # b
      BY <2>2, ZenonT(30) DEF DeleteInv, DeleteSees, Exists, Live
    <2> QED
      BY <2>1, <2>2, Zenon
  <1> QED
    BY <1>1, Zenon DEF DeleteInv, Live

LEMMA DeleteCallSees ==
    ASSUME JobsInv, DeleteInv, NEW b \in Backends, DeleteBegins(b)
    PROVE  DeleteInv'
  <1>1. PICK j \in Rows : /\ Exists(j)
                          /\ Step(b, [Free EXCEPT !.pc = "delete_live", !.job = j, !.lasted = TRUE, !.from = retried[j]])
    BY Zenon DEF DeleteBegins
  <1>2. rows' = rows /\ retried' = retried /\ DeleteKnows'
    BY Zenon DEF DeleteBegins, rowVars, DeleteInv, DeleteKnows
  <1> DEFINE rec == [Free EXCEPT !.pc = "delete_live", !.job = j, !.lasted = TRUE, !.from = retried[j]]
  <1>3. rec.pc = "delete_live" /\ rec.job = j /\ rec.from = retried[j]
    BY Zenon DEF Free
  <1>4. backends'[b] = rec /\ \A c \in Backends \ {b} : backends'[c] = backends[c]
    BY <1>1, Zenon DEF JobsInv, CallsOK, Step
  <1> HIDE DEF rec
  <1>5. DeleteSees(b)'
    <2>1. retried[j] \in Nat /\ retried[j] <= retried[j]
      BY DEF DeleteInv
    <2> QED
      BY <1>1, <1>2, <1>3, <1>4, <2>1, Zenon DEF DeleteSees, Exists, Live
  <1> QED
    BY <1>2, <1>3, <1>4, <1>5, NextLookSees, Zenon DEF Deletes

\* DeleteLive and DeleteHistory: that a delete goes on to the next table means
\* its job was not in this one.
LEMMA DeleteLiveSees ==
    ASSUME JobsInv, DeleteInv, NEW b \in Backends,
           NEW pc, NEW next, DeleteLive(b, pc, next),
           \/ pc = "delete_live" /\ next = "delete_history"
           \/ pc = "delete_live_again" /\ next = "delete_history_again"
    PROVE  DeleteInv'
  <1> DEFINE j == backends[b].job
  <1>1. /\ backends[b].pc = pc /\ retried' = retried /\ DeleteKnows'
        /\ IF Live(rows[j])
           THEN /\ rows' = IF rows[j].st = "running" THEN rows ELSE [rows EXCEPT ![j].st = "absent"]
                /\ backends' = Lasting([backends EXCEPT ![b] = Free])
           ELSE /\ backends' = [backends EXCEPT ![b].pc = next]
                /\ rows' = rows
    BY Zenon DEF DeleteLive, DeleteInv, DeleteKnows
  <1>2. backends[b].pc \in Deletes /\ j \in Rows /\ DeleteSees(b)
    BY <1>1, Fields, Zenon DEF OnJob, Deletes, DeleteInv
  <1>3. CASE Live(rows[j])
    <2>1. rows[j].past = "none" /\ rows[j] # NoRow
      BY <1>2, <1>3, FreeIs, Zenon DEF DeleteInv, Live, Waiting
    <2>2. CASE rows[j].st = "running"
      <3>1. rows' = rows
        BY <1>1, <1>3, <2>2, Zenon
      <3> QED
        BY <1>1, <1>2, <1>3, <3>1, LookSees, FreeIs, Zenon DEF Deletes
    <2>3. CASE rows[j].st # "running"
      <3> DEFINE r == [rows[j] EXCEPT !.st = "absent"]
      <3>1. rows'[j] = r /\ \A k \in Rows \ {j} : rows'[k] = rows[k]
        BY <1>1, <1>2, <1>3, <2>3, Zenon DEF JobsInv, RowsOK
      <3>2. r.st = "absent" /\ r.past = rows[j].past
        <4>1. RowShaped(rows[j])
          BY <1>2, Fields, Zenon
        <4> QED
          BY <4>1, Zenon DEF RowShaped
      <3> HIDE DEF r
      <3>3. ~Live(rows'[j]) /\ rows'[j].past = "none"
        BY <2>1, <3>1, <3>2, Zenon DEF Live, Waiting
      <3> QED
        BY <1>1, <1>2, <1>3, <2>1, <3>1, <3>3, LookSees, FreeIs, Zenon DEF Deletes
    <2> QED
      BY <2>2, <2>3, Zenon
  <1>4. CASE ~Live(rows[j])
    <2> DEFINE rec == [backends[b] EXCEPT !.pc = next]
    <2>1. backends'[b] = rec /\ \A c \in Backends \ {b} : backends'[c] = backends[c]
      BY <1>1, <1>4, Zenon DEF JobsInv, CallsOK
    <2>2. rec.pc = next /\ rec.job = j /\ rec.from = backends[b].from /\ rec.lasted = backends[b].lasted
      <3>1. CallShaped(backends[b])
        BY Fields, Zenon
      <3> QED
        BY <3>1 DEF CallShaped
    <2>3. rows' = rows
      BY <1>1, <1>4, Zenon
    <2> HIDE DEF rec
    <2>4. backends[b].lasted => rows[j].past # "none"
      BY <1>2, <1>4, Zenon DEF DeleteSees, Exists
    <2>5. DeleteSees(b)'
      BY <1>1, <1>2, <2>1, <2>2, <2>3, <2>4, Zenon DEF DeleteSees, Exists, Live
    <2> QED
      BY <1>1, <2>1, <2>2, <2>3, <2>5, NextLookSees, Zenon DEF Deletes
  <1> QED
    BY <1>3, <1>4, Zenon

LEMMA DeleteHistorySees ==
    ASSUME JobsInv, DeleteInv, NEW b \in Backends,
           NEW pc, NEW next, DeleteHistory(b, pc, next),
           \/ pc = "delete_history" /\ next = "delete_live_again"
           \/ pc = "delete_history_again" /\ next = "free"
    PROVE  DeleteInv'
  <1> DEFINE j == backends[b].job
             found == rows[j].past # "none"
             rec == IF found \/ next = "free" THEN Free ELSE [backends[b] EXCEPT !.pc = next]
  <1>1. /\ backends[b].pc = pc /\ retried' = retried
        /\ rows' = IF found THEN [rows EXCEPT ![j].past = "none"] ELSE rows
        /\ backends' = Lasting([backends EXCEPT ![b] = rec])
        /\ lost' = IF ~found /\ next = "free" /\ backends[b].lasted /\ retried[j] <= backends[b].from + 1
                   THEN lost \cup {"delete"} ELSE lost
    BY DEF DeleteHistory
  <1>2. backends[b].pc \in Deletes /\ j \in Rows /\ DeleteSees(b)
    BY <1>1, Fields, Zenon DEF OnJob, Deletes, DeleteInv
  <1>3. DeleteKnows'
    <2>1. pc = "delete_history_again" /\ backends[b].lasted /\ retried[j] <= backends[b].from + 1 => found
      BY <1>1, <1>2, Zenon DEF DeleteSees
    <2>2. next = "free" => pc = "delete_history_again"
      BY Zenon
    <2> QED
      BY <1>1, <2>1, <2>2, Zenon DEF DeleteInv, DeleteKnows
  <1>4. /\ CallShaped(rec)
        /\ rec = Free \/ (~found /\ pc = "delete_history" /\ rec.pc = "delete_live_again" /\ rec.job = j
                          /\ rec.from = backends[b].from /\ rec.lasted = backends[b].lasted)
    <2>1. CallShaped(backends[b])
      BY Fields, Zenon
    <2>2. LET n == [backends[b] EXCEPT !.pc = next] IN
          CallShaped(n) /\ n.pc = next /\ n.job = j /\ n.from = backends[b].from /\ n.lasted = backends[b].lasted
      BY <2>1 DEF CallShaped
    <2> QED
      BY <2>2, FreeIs, Zenon
  <1> HIDE DEF rec
  <1>5. \A k \in Rows \ {j} : rows'[k] = rows[k]
    BY <1>1, <1>2, Zenon DEF JobsInv, RowsOK
  <1>6. \/ rows'[j] = rows[j]
        \/ rows[j] # NoRow /\ ~Live(rows'[j]) /\ rows'[j].past = "none"
    <2>1. CASE found
      <3>1. rows'[j] = [rows[j] EXCEPT !.past = "none"]
        BY <1>1, <1>2, <2>1, Zenon DEF JobsInv, RowsOK
      <3>2. rows'[j].past = "none" /\ rows'[j].st = rows[j].st
        <4>1. RowShaped(rows[j])
          BY <1>2, Fields, Zenon
        <4> QED
          BY <3>1, <4>1, Zenon DEF RowShaped
      <3>3. ~Live(rows[j])
        BY <1>2, <2>1, Zenon DEF DeleteInv
      <3> QED
        BY <2>1, <3>2, <3>3, FreeIs, Zenon DEF Live
    <2>2. CASE ~found
      BY <1>1, <2>2, Zenon
    <2> QED
      BY <2>1, <2>2, Zenon
  <1>7. ASSUME rec.pc \in Deletes PROVE DeleteSees(b)'
    <2>1. ~found /\ pc = "delete_history" /\ rec.pc = "delete_live_again" /\ rec.job = j
          /\ rec.from = backends[b].from /\ rec.lasted = backends[b].lasted
      BY <1>4, <1>7, FreeIs, Zenon DEF Deletes
    <2>3. /\ backends'[b].pc = rec.pc /\ backends'[b].job = rec.job /\ backends'[b].from = rec.from
          /\ backends'[b].lasted => rec.lasted
      <3>1. CallsOK
        BY Zenon DEF JobsInv
      <3>2. CallShaped(rec) /\ backends' = Lasting([backends EXCEPT ![b] = rec])
        BY <1>1, <1>4, Zenon
      <3> QED
        BY <3>1, <3>2, LastingSees, ZenonT(30) DEF KnowsOf
    <2>4. rows' = rows
      BY <1>1, <2>1, Zenon
    <2>5. backends[b].lasted => backends[b].from < retried[j]
      <3>1. backends[b].lasted => retried[j] # backends[b].from
        BY <1>1, <1>2, <2>1, Zenon DEF DeleteSees
      <3>2. backends[b].from \in Nat /\ backends[b].from <= retried[j] /\ retried[j] \in Nat
        BY <1>2, Zenon DEF DeleteSees, DeleteInv
      <3> QED
        BY <3>1, <3>2
    <2> QED
      BY <1>1, <1>2, <2>1, <2>3, <2>4, <2>5, Zenon DEF DeleteSees, Exists, Live
  <1>8. rec.pc \in Deletes \cup {"free"}
    BY <1>4, FreeIs, Zenon DEF Deletes
  <1> QED
    BY <1>1, <1>2, <1>3, <1>4, <1>5, <1>6, <1>7, <1>8, LookSees, Zenon

LEMMA ReturnSees ==
    ASSUME JobsInv, DeleteInv, NEW b \in Backends, JobGet(b) \/ Rollback(b)
    PROVE  DeleteInv'
  <1>1. Step(b, Free) /\ rows' = rows /\ retried' = retried /\ DeleteKnows'
    BY Zenon DEF JobGet, Rollback, Return, rowVars, DeleteInv, DeleteKnows
  <1> QED
    BY <1>1, QuietSees, FreeIs, Zenon DEF Deletes

LEMMA DeleteStays ==
    ASSUME JobsInv, DeleteInv, [PgJobsNext]_pjVars
    PROVE  DeleteInv'
  <1>1. CASE UNCHANGED pjVars
    <2>1. UNCHANGED <<rows, backends, retried, lost>>
      BY <1>1, Zenon DEF pjVars, rowVars
    <2> QED
      BY <2>1, Zenon DEF DeleteInv, DeleteSees, DeleteKnows, Exists, Live
  <1>2. CASE Due
    BY <1>2, DueSees, Zenon
  <1>3. ASSUME NEW b \in Backends, Calls(b) PROVE DeleteInv'
    BY <1>3, CallsSee, RetrySees, DeleteCallSees, CancelSees, Zenon DEF Calls
  <1>4. ASSUME NEW b \in Backends, JobDelete(b) PROVE DeleteInv'
    BY <1>4, DeleteLiveSees, DeleteHistorySees, Zenon DEF JobDelete
  <1>5. ASSUME NEW b \in Backends,
               \/ JobClaim(b) \/ JobFinalizeMany(b) \/ JobInsertCheckingHistory(b)
               \/ RetryHistory(b) \/ JobRetry(b) \/ JobGet(b)
               \/ MarkOrderingKey(b) \/ WakeBegins(b) \/ JobRetryOrderingKey(b) \/ Rollback(b)
        PROVE  DeleteInv'
    BY <1>5, ClaimSees, FinalizeSees, InsertSees, RetrySees, ReturnSees, WakersSee, ZenonT(30)
  <1> QED
    BY <1>1, <1>2, <1>3, <1>4, <1>5, Zenon DEF PgJobsNext

\* A job that is live or in history while a JobDelete of it looks, and that at
\* most one JobRetry moves meanwhile, is found by one of its four looks, however
\* many connections claim, finish, insert, retry, cancel and delete jobs.
THEOREM DeleteKept == PgJobsSpec => []DeleteKnows
  <1>1. PgJobsInit => JobsInv /\ DeleteInv
    BY Begins, DeleteBegun, Zenon
  <1>2. (JobsInv /\ DeleteInv) /\ [PgJobsNext]_pjVars => (JobsInv /\ DeleteInv)'
    BY JobsStep, DeleteStays, Zenon
  <1>3. DeleteInv => DeleteKnows
    BY Zenon DEF DeleteInv
  <1> QED
    BY <1>1, <1>2, <1>3, PTL DEF PgJobsSpec
=============================================================================
