---------------------------- MODULE StartProofs ----------------------------
(***************************************************************************)
(* Proofs about when a job may start: not before its dependencies have      *)
(* ended as their policies ask (Workflow), and not past the limits of its   *)
(* queue, on the jobs that run and on the claims of an interval             *)
(* (FlowControl).  For any jobs, dependencies, limits and claimers.         *)
(***************************************************************************)
EXTENDS FlowControl, Workflow, FiniteSetTheorems, WellFoundedInduction, TLAPS

\* The time a prover may take on a leaf that names none, on a loaded machine too.
USE SMTT(30), ZenonT(30)

-----------------------------------------------------------------------------
(* The invariant.  Who holds the row has the limits it holds, and has      *)
(* counted no fewer jobs than run.  The tokens left, with what was claimed *)
(* in any interval, are no more than the bucket held and the rate has      *)
(* added since the interval began, by the time of the last refill: that    *)
(* time may be before the interval's end, and then there is so much less.  *)

Holds(c) == txs[c].pc \in {"locked", "counted"}

FlowTypeOK ==
    /\ limits \in Limits
    /\ tokens \in Nat \cup {NoTokens}
    /\ refilled \in 0..MaxTicks /\ tick \in 0..MaxTicks
    /\ jobsAt \in [FlowJobs -> {"waiting", "running", "done"}]
    /\ DOMAIN txs = Claimers
    /\ \A c \in Claimers : DOMAIN txs[c] = DOMAIN NoTx /\ txs[c].now \in 0..MaxTicks
    /\ started \in [Times -> Nat]

LockSound ==
    /\ \A c, d \in Claimers : Holds(c) /\ Holds(d) => c = d
    /\ \A c \in Claimers :
        /\ txs[c].pc # "none" => engine = "pg"
        /\ Holds(c) => txs[c].limits = limits
        /\ txs[c].pc = "counted" => txs[c].running \in Nat /\ Cardinality(RunningJobs) <= txs[c].running

BucketSound ==
    /\ \A s, t \in Times : s <= t => started[s] <= started[t]
    /\ tokens = NoTokens => \A t \in Times : started[t] = 0
    /\ \A s, t \in Times : s <= t /\ started[s] < started[t] =>
        (started[t] - started[s]) * Part + tokens <= Capacity(limits) + limits.rate * (refilled - s)
    /\ \A s, t \in Times : s < t =>
        (started[t] - started[s]) * Part <= Capacity(limits) + limits.rate * (t - 1 - s)

FlowInv == FlowTypeOK /\ LockSound /\ BucketSound

-----------------------------------------------------------------------------
(* Sets of jobs. *)

\* A finite set of numbers has a largest: the one with the fewest above it.
LEMMA LargestOf ==
    ASSUME NEW F, IsFiniteSet(F), F \subseteq Nat, F # {}
    PROVE  \E m \in F : \A k \in F : k <= m
  <1> DEFINE Above(j) == {k \in F : j < k}
             Counts == {Cardinality(Above(j)) : j \in F}
  <1>1. \A j \in F : IsFiniteSet(Above(j)) /\ Cardinality(Above(j)) \in Nat
    BY FS_Subset, FS_CardinalityType, Zenon
  <1>2. Counts \subseteq Nat /\ Counts # {}
    BY <1>1, Zenon
  <1>3. \E x \in Counts : \A y \in Counts : ~(<<y, x>> \in OpToRel(<, Nat))
    BY <1>2, NatLessThanWellFounded, WFMin, Zenon
  <1>4. PICK m \in F : \A y \in Counts : ~(y < Cardinality(Above(m)))
    BY <1>2, <1>3, Zenon DEF OpToRel
  <1>5. ASSUME NEW k \in F, m < k PROVE FALSE
    <2>0. \A x \in F : k < x => m < x
      BY <1>4, <1>5
    <2>1. Above(k) \in SUBSET Above(m)
      BY <2>0, Zenon
    <2>2. k \in Above(m) /\ k \notin Above(k)
      BY <1>5
    <2>3. Cardinality(Above(k)) <= Cardinality(Above(m)) /\ Cardinality(Above(k)) # Cardinality(Above(m))
      BY <1>1, <1>4, <2>1, <2>2, FS_Subset, Zenon
    <2>4. Cardinality(Above(k)) \in Counts
      BY <1>5, Zenon
    <2> HIDE DEF Above, Counts
    <2> QED
      BY <1>1, <1>4, <1>5, <2>3, <2>4
  <1> QED
    BY <1>5

LEMMA DisjointUnion ==
    ASSUME NEW A, IsFiniteSet(A), NEW B, IsFiniteSet(B), A \cap B = {}
    PROVE  Cardinality(A \cup B) = Cardinality(A) + Cardinality(B)
  <1> DEFINE a == Cardinality(A)
             b == Cardinality(B)
  <1>1. Cardinality(A \cup B) = a + b - Cardinality(A \cap B)
    BY FS_Union, Zenon
  <1>2. a \in Nat /\ b \in Nat /\ Cardinality(A \cap B) = 0
    BY FS_EmptySet, FS_CardinalityType, Zenon
  <1> HIDE DEF a, b
  <1>3. a + b - 0 = a + b
    BY <1>2
  <1> QED
    BY <1>1, <1>2, <1>3, Zenon DEF a, b

\* A claim takes no more jobs than its budget.
LEMMA FirstOfFits ==
    ASSUME NEW S, IsFiniteSet(S), S \subseteq Nat, NEW n \in Nat
    PROVE  /\ FirstOf(S, n) \subseteq S
           /\ IsFiniteSet(FirstOf(S, n))
           /\ Cardinality(FirstOf(S, n)) \in Nat
           /\ Cardinality(FirstOf(S, n)) <= n
  <1> DEFINE F == FirstOf(S, n)
             UpTo(j) == {k \in S : k <= j}
  <1>1. F \in SUBSET S /\ F \subseteq Nat
    BY Zenon DEF FirstOf
  <1>2. IsFiniteSet(F) /\ Cardinality(F) \in Nat
    BY <1>1, FS_Subset, FS_CardinalityType, Zenon
  <1>3. CASE F = {}
    BY <1>1, <1>2, <1>3, FS_EmptySet
  <1>4. CASE F # {}
    <2>1. PICK m \in F : \A k \in F : k <= m
      BY <1>1, <1>2, <1>4, LargestOf, Zenon
    <2>2. F \in SUBSET UpTo(m) /\ UpTo(m) \in SUBSET S
      BY <1>1, <2>1, Zenon
    <2>3. IsFiniteSet(UpTo(m)) /\ Cardinality(UpTo(m)) \in Nat /\ Cardinality(F) <= Cardinality(UpTo(m))
      BY <2>2, FS_Subset, FS_CardinalityType, Zenon
    <2>4. Cardinality(UpTo(m)) <= n
      BY <2>1, Zenon DEF FirstOf
    <2> QED
      BY <1>1, <1>2, <2>3, <2>4
  <1> QED
    BY <1>3, <1>4, Zenon

LEMMA JobSets ==
    ASSUME NEW S \in SUBSET FlowJobs
    PROVE  IsFiniteSet(S) /\ Cardinality(S) \in Nat /\ S \subseteq Nat
  BY FlowAssumption, FS_Subset, FS_CardinalityType, Zenon

-----------------------------------------------------------------------------
(* Budgets. *)

LEMMA Distributes ==
    ASSUME NEW a \in Int, NEW b \in Int, NEW c \in Int
    PROVE  (a + b) * c = a * c + b * c /\ (a - b) * c = a * c - b * c
  OBVIOUS

\* So many whole tokens are no more than the parts they are made of.
LEMMA WholeTokens ==
    ASSUME NEW a \in Int, NEW n \in Nat, n <= a \div Part
    PROVE  n * Part <= a
  <1>1. Part \in Nat /\ Part > 0
    BY FlowAssumption
  <1>2. a \div Part \in Int /\ (a \div Part) * Part <= a
    BY <1>1
  <1>3. n * Part <= (a \div Part) * Part
    BY <1>1, <1>2
  <1> QED
    BY <1>1, <1>2, <1>3

LEMMA LimitsAre ==
    ASSUME NEW l \in Limits
    PROVE  /\ l.global \in Nat /\ l.rate \in Nat /\ l.burst \in Nat /\ l.partition \in Nat
           /\ Capacity(l) \in Nat
           /\ Part \in Nat /\ Part > 0 /\ MaxTicks \in Nat
  <1>1. l.global \in Nat /\ l.rate \in Nat /\ l.burst \in Nat /\ l.partition \in Nat
    BY FlowAssumption, Zenon
  <1>2. Part \in Nat /\ Part > 0 /\ MaxTicks \in Nat
    BY FlowAssumption
  <1>3. (l.rate + Part - 1) \div Part \in Nat
    BY <1>1, <1>2
  <1>4. Capacity(l) \in Nat
    BY <1>1, <1>2, <1>3 DEF Capacity
  <1> QED
    BY <1>1, <1>2, <1>4, Zenon

LEMMA LimitTypes ==
    ASSUME FlowTypeOK
    PROVE  /\ limits.global \in Nat /\ limits.rate \in Nat /\ limits.burst \in Nat /\ limits.partition \in Nat
           /\ Capacity(limits) \in Nat
           /\ Part \in Nat /\ Part > 0 /\ MaxTicks \in Nat
  BY LimitsAre, Zenon DEF FlowTypeOK

LEMMA AvailableIs ==
    ASSUME FlowTypeOK, NEW now \in 0..MaxTicks
    PROVE  /\ Available(limits, now) \in Int
           /\ Available(limits, now) <= Capacity(limits)
           /\ tokens # NoTokens => Available(limits, now) <= tokens + limits.rate * (now - refilled)
  <1>1. limits.rate \in Nat /\ Capacity(limits) \in Nat
    BY LimitTypes, Zenon
  <1>2. limits.rate * (now - refilled) \in Int /\ tokens \in Int
    BY <1>1, FlowAssumption DEF FlowTypeOK, NoTokens
  <1> QED
    BY <1>1, <1>2 DEF Available, Lesser

\* What a claim may take at most.
LEMMA BudgetIs ==
    ASSUME FlowTypeOK, NEW asked \in Nat, NEW running \in Nat, NEW now \in 0..MaxTicks
    PROVE  LET budget == Budget(limits, asked, running, now) IN
           /\ budget \in Int
           /\ limits.global > 0 => budget <= limits.global - running
           /\ limits.rate > 0 => budget <= Available(limits, now) \div Part
  <1>1. limits.global \in Nat /\ limits.rate \in Nat /\ Part \in Nat /\ Part > 0
    BY LimitTypes, Zenon
  <1>2. Available(limits, now) \in Int
    BY AvailableIs, Zenon
  <1>3. Available(limits, now) \div Part \in Int
    BY <1>1, <1>2
  <1> QED
    BY <1>1, <1>3 DEF Budget, Lesser

-----------------------------------------------------------------------------
(* The claim statement. *)

\* The jobs a claim takes.
Taken(budget) == IF budget <= 0 THEN {} ELSE FirstOf(Admitted(limits), budget)

LEMMA TakenFits ==
    ASSUME FlowTypeOK, NEW budget \in Int
    PROVE  /\ Taken(budget) \in SUBSET Admitted(limits)
           /\ Taken(budget) \in SUBSET FlowJobs
           /\ IsFiniteSet(Taken(budget)) /\ Cardinality(Taken(budget)) \in Nat
           /\ budget > 0 => Cardinality(Taken(budget)) <= budget
           /\ budget <= 0 => Taken(budget) = {}
  <1>1. Admitted(limits) \in SUBSET FlowJobs
    BY Zenon DEF Admitted
  <1>2. IsFiniteSet(Admitted(limits)) /\ Admitted(limits) \subseteq Nat
    BY <1>1, JobSets, Zenon
  <1>3. CASE budget <= 0
    BY <1>3, FS_EmptySet DEF Taken
  <1>4. CASE budget > 0
    BY <1>1, <1>2, <1>4, FirstOfFits DEF Taken
  <1> QED
    BY <1>3, <1>4

\* A claim leaves no more jobs running than the limits allow, when it was
\* counted, under the lock, that no more than running did.
LEMMA ClaimRuns ==
    ASSUME FlowTypeOK, NEW budget \in Int, NEW running \in Nat, Cardinality(RunningJobs) <= running,
           limits.global > 0 => budget <= limits.global - running,
           jobsAt' = [j \in FlowJobs |-> IF j \in Taken(budget) THEN "running" ELSE jobsAt[j]]
    PROVE  RunningFits
  <1> DEFINE T == Taken(budget)
             Now == {j \in FlowJobs : jobsAt'[j] = "running"}
             Of(S, j) == {k \in S : PartitionOf[k] = PartitionOf[j]}
             Upto(j) == {k \in FlowJobs : PartitionOf[k] = PartitionOf[j] /\ jobsAt[k] = "waiting" /\ k <= j}
  <1>1. /\ T \in SUBSET Admitted(limits) /\ T \in SUBSET FlowJobs /\ Cardinality(T) \in Nat
        /\ budget > 0 => Cardinality(T) <= budget
        /\ budget <= 0 => T = {}
    BY TakenFits, Zenon
  <1>2. \A j \in T : jobsAt[j] = "waiting"
    BY <1>1, Zenon DEF Admitted
  <1>3. {j \in FlowJobs : jobsAt[j] = "waiting" /\ jobsAt'[j] = "running"} = T
    BY <1>1, <1>2, Zenon
  <1>4. Now = RunningJobs \cup T /\ RunningJobs \cap T = {} /\ RunningJobs \in SUBSET FlowJobs
    BY <1>1, <1>2, Zenon DEF RunningJobs
  <1>5. ASSUME T # {}, limits.global > 0 PROVE Cardinality(Now) <= limits.global
    <2>1. IsFiniteSet(RunningJobs) /\ IsFiniteSet(T) /\ Cardinality(RunningJobs) \in Nat
      BY <1>1, <1>4, JobSets, Zenon
    <2>2. Cardinality(Now) = Cardinality(RunningJobs) + Cardinality(T)
      BY <1>4, <2>1, DisjointUnion, Zenon
    <2>3. limits.global \in Nat
      BY LimitTypes, Zenon
    <2> HIDE DEF T, Now
    <2> QED
      BY <1>1, <1>5, <2>1, <2>2, <2>3
  <1>6. ASSUME NEW j \in T, limits.partition > 0
        PROVE  Cardinality(Of(Now, j)) <= limits.partition
    <2>1. Of(T, j) \in SUBSET FlowJobs /\ j \in Of(T, j)
      BY <1>1, Zenon
    <2>2. IsFiniteSet(Of(T, j)) /\ Of(T, j) \subseteq Nat
      BY <2>1, JobSets, Zenon
    <2>3. PICK m \in Of(T, j) : \A k \in Of(T, j) : k <= m
      BY <2>1, <2>2, LargestOf, Zenon
    <2>4. m \in T /\ PartitionOf[m] = PartitionOf[j]
      BY <2>3, Zenon
    <2>5. Slot(m) <= limits.partition
      BY <1>1, <1>6, <2>4, Zenon DEF Admitted
    <2>6. Slot(m) = Cardinality(Upto(m)) + Cardinality(Of(RunningJobs, m))
      BY Zenon DEF Slot
    <2>7. Of(T, j) \in SUBSET Upto(m) /\ Upto(m) \in SUBSET FlowJobs /\ Of(RunningJobs, m) \in SUBSET FlowJobs
      BY <1>1, <1>2, <1>4, <2>3, <2>4, Zenon
    <2>8. Of(Now, j) = Of(T, j) \cup Of(RunningJobs, m) /\ Of(T, j) \cap Of(RunningJobs, m) = {}
      BY <1>4, <2>4, Zenon
    <2>9. /\ IsFiniteSet(Upto(m)) /\ Cardinality(Upto(m)) \in Nat
          /\ IsFiniteSet(Of(RunningJobs, m)) /\ Cardinality(Of(RunningJobs, m)) \in Nat
          /\ Cardinality(Of(T, j)) \in Nat
      BY <2>1, <2>7, JobSets, Zenon
    <2>10. Cardinality(Of(T, j)) <= Cardinality(Upto(m))
      BY <2>7, <2>9, FS_Subset, Zenon
    <2>11. Cardinality(Of(Now, j)) = Cardinality(Of(T, j)) + Cardinality(Of(RunningJobs, m))
      BY <2>2, <2>8, <2>9, DisjointUnion, Zenon
    <2>12. limits.partition \in Nat
      BY LimitTypes, Zenon
    <2> HIDE DEF Of, Upto, Now, T
    <2> QED
      BY <2>5, <2>6, <2>9, <2>10, <2>11, <2>12
  <1> HIDE DEF T
  <1> QED
    BY <1>3, <1>5, <1>6, Zenon DEF RunningFits

\* The bucket after a claim of n jobs at now.
Refill(n, now) ==
    /\ tokens' = Available(limits, now) - n * Part
    /\ refilled' = now
    /\ started' = [t \in Times |-> IF now < t THEN started[t] + n ELSE started[t]]

LEMMA RefillKeeps ==
    ASSUME FlowTypeOK, BucketSound, NEW n \in Nat, NEW now \in 0..MaxTicks, Refill(n, now),
           n * Part <= Available(limits, now), limits' = limits
    PROVE  /\ tokens' \in Nat /\ refilled' \in 0..MaxTicks /\ started' \in [Times -> Nat]
           /\ BucketSound'
  <1> DEFINE cap == Capacity(limits)
             rate == limits.rate
             avail == Available(limits, now)
             D(s, t) == started[t] - started[s]
             E(s, t) == started'[t] - started'[s]
             In(s, t) == s <= now /\ now < t
  <1>1. rate \in Nat /\ cap \in Nat /\ Part \in Nat /\ Part > 0 /\ MaxTicks \in Nat
    BY LimitTypes, Zenon
  <1>2. /\ avail \in Int /\ avail <= cap
        /\ tokens # NoTokens => avail <= tokens + rate * (now - refilled)
    BY AvailableIs, Zenon
  <1>3. Times \subseteq Int /\ \A t \in Times : started[t] \in Nat /\ started'[t] \in Nat
    BY <1>1 DEF Refill, FlowTypeOK, Times
  <1>4. n * Part \in Nat /\ tokens' \in Nat /\ tokens' = avail - n * Part /\ tokens \in Int
    BY <1>1, <1>2 DEF Refill, FlowTypeOK, NoTokens
  <1>5. refilled' = now /\ refilled' \in 0..MaxTicks /\ refilled \in Int /\ now \in Int
    BY <1>1 DEF Refill, FlowTypeOK
  <1>6. started' \in [Times -> Nat]
    BY <1>3, Zenon DEF Refill
  <1>7. ASSUME NEW s \in Times, NEW t \in Times, s <= t
        PROVE  /\ D(s, t) \in Nat /\ E(s, t) \in Nat
               /\ E(s, t) = IF In(s, t) THEN D(s, t) + n ELSE D(s, t)
    BY <1>3, <1>5, <1>7 DEF Refill, BucketSound
  <1>8. ASSUME NEW s \in Times, NEW t \in Times, s <= t, D(s, t) > 0
        PROVE  D(s, t) * Part + avail <= cap + rate * (now - s)
    <2>1. D(s, t) * Part + tokens <= cap + rate * (refilled - s)
      BY <1>3, <1>8 DEF BucketSound
    <2>2. tokens # NoTokens
      BY <1>3, <1>8 DEF BucketSound
    <2>3. rate * (refilled - s) + rate * (now - refilled) = rate * (now - s)
      BY <1>1, <1>3, <1>5
    <2>4. rate * (refilled - s) \in Int /\ rate * (now - refilled) \in Int /\ D(s, t) * Part \in Int
      BY <1>1, <1>3, <1>5
    <2> HIDE DEF D, cap, avail, rate
    <2> QED
      BY <1>1, <1>2, <1>4, <2>1, <2>2, <2>3, <2>4
  <1>9. ASSUME NEW s \in Times, NEW t \in Times, s <= t, E(s, t) > 0
        PROVE  E(s, t) * Part + tokens' <= cap + rate * (now - s)
    <2>1. CASE In(s, t)
      <3>1. E(s, t) * Part = D(s, t) * Part + n * Part /\ D(s, t) * Part \in Nat
        BY <1>1, <1>7, <1>9, <2>1, Distributes
      <3>2. E(s, t) * Part + tokens' = D(s, t) * Part + avail
        BY <1>2, <1>4, <3>1
      <3>3. CASE D(s, t) > 0
        BY <1>8, <1>9, <3>2, <3>3, Zenon
      <3>4. CASE D(s, t) = 0
        <4>1. rate * (now - s) \in Nat
          BY <1>1, <1>3, <1>5, <2>1
        <4>2. D(s, t) * Part = 0
          BY <1>1, <3>4
        <4> HIDE DEF D, cap, avail, rate, E
        <4> QED
          BY <1>1, <1>2, <3>2, <4>1, <4>2
      <3>5. D(s, t) > 0 \/ D(s, t) = 0
        BY <1>7, <1>9
      <3> QED
        BY <3>3, <3>4, <3>5, Zenon
    <2>2. CASE ~In(s, t)
      <3>1. E(s, t) = D(s, t)
        BY <1>7, <1>9, <2>2, Zenon
      <3>2. D(s, t) * Part + avail <= cap + rate * (now - s)
        BY <1>8, <1>9, <3>1, Zenon
      <3>3. D(s, t) * Part \in Int /\ rate * (now - s) \in Int
        BY <1>1, <1>3, <1>5
      <3> HIDE DEF D, cap, avail, rate, E
      <3> QED
        BY <1>1, <1>2, <1>4, <3>1, <3>2, <3>3
    <2> QED
      BY <2>1, <2>2, Zenon
  <1>10. ASSUME NEW s \in Times, NEW t \in Times, s < t
         PROVE  E(s, t) * Part <= cap + rate * (t - 1 - s)
    <2>0. s <= t /\ rate * (t - 1 - s) \in Nat
      BY <1>1, <1>3, <1>10
    <2>1. CASE In(s, t) /\ E(s, t) > 0
      <3>1. E(s, t) * Part + tokens' <= cap + rate * (now - s)
        BY <1>9, <2>0, <2>1, Zenon
      <3>2. rate * (now - s) <= rate * (t - 1 - s) /\ rate * (now - s) \in Int
        <4>1. now - s \in Nat /\ t - 1 - s \in Nat /\ now - s <= t - 1 - s
          BY <1>3, <1>5, <2>1
        <4> QED
          BY <1>1, <4>1
      <3>3. E(s, t) * Part \in Int
        BY <1>1, <1>7, <2>0
      <3> HIDE DEF cap, rate, E
      <3> QED
        BY <1>1, <1>4, <2>0, <3>1, <3>2, <3>3
    <2>2. CASE ~In(s, t)
      <3>1. E(s, t) = D(s, t)
        BY <1>7, <2>0, <2>2, Zenon
      <3>2. D(s, t) * Part <= cap + rate * (t - 1 - s)
        BY <1>10, Zenon DEF BucketSound
      <3> QED
        BY <3>1, <3>2, Zenon
    <2>3. CASE E(s, t) = 0
      BY <1>1, <2>0, <2>3
    <2> QED
      BY <1>7, <2>0, <2>1, <2>2, <2>3
  <1>11. Capacity(limits)' = cap /\ limits'.rate = rate
    BY Zenon DEF Capacity
  <1>12. \A s, t \in Times : s <= t => started'[s] <= started'[t]
    BY <1>3, <1>7
  <1>13. \A s, t \in Times : s <= t /\ started'[s] < started'[t] => E(s, t) > 0
    BY <1>3
  <1>14. tokens' # NoTokens
    BY <1>4 DEF NoTokens
  <1> HIDE DEF cap, rate
  <1>15. BucketSound'
    BY <1>5, <1>9, <1>10, <1>11, <1>12, <1>13, <1>14, Zenon DEF BucketSound, Times
  <1> QED
    BY <1>4, <1>5, <1>6, <1>15, Zenon

LEMMA ClaimKeeps ==
    ASSUME FlowTypeOK, BucketSound, NEW asked \in Nat, NEW running \in Nat, NEW now \in 0..MaxTicks,
           Cardinality(RunningJobs) <= running,
           ClaimRows(limits, Budget(limits, asked, running, now), now), limits' = limits
    PROVE  /\ RunningFits
           /\ jobsAt' \in [FlowJobs -> {"waiting", "running", "done"}]
           /\ tokens' \in Nat \cup {NoTokens} /\ refilled' \in 0..MaxTicks /\ started' \in [Times -> Nat]
           /\ BucketSound'
  <1> DEFINE budget == Budget(limits, asked, running, now)
             T == Taken(budget)
  <1>1. /\ budget \in Int
        /\ limits.global > 0 => budget <= limits.global - running
        /\ limits.rate > 0 => budget <= Available(limits, now) \div Part
    BY BudgetIs, Zenon
  <1>2. jobsAt' = [j \in FlowJobs |-> IF j \in T THEN "running" ELSE jobsAt[j]]
    BY Zenon DEF ClaimRows, Taken
  <1>3. IF budget > 0 /\ limits.rate > 0
          THEN Refill(Cardinality(T), now)
          ELSE tokens' = tokens /\ refilled' = refilled /\ started' = started
    BY Zenon DEF ClaimRows, Taken, Refill
  <1> HIDE DEF budget
  <1>4. RunningFits
    BY <1>1, <1>2, ClaimRuns, Zenon
  <1>5. jobsAt' \in [FlowJobs -> {"waiting", "running", "done"}]
    BY <1>2, Zenon DEF FlowTypeOK
  <1>6. CASE budget > 0 /\ limits.rate > 0
    <2>1. Cardinality(T) \in Nat /\ Cardinality(T) <= budget
      BY <1>1, <1>6, TakenFits, Zenon
    <2>2. Available(limits, now) \in Int /\ Part \in Nat /\ Part > 0
      BY AvailableIs, LimitTypes, Zenon
    <2>3. Cardinality(T) <= Available(limits, now) \div Part
      <3>1. Available(limits, now) \div Part \in Int
        BY <2>2
      <3> HIDE DEF T
      <3> QED
        BY <1>1, <1>6, <2>1, <3>1
    <2>4. Cardinality(T) * Part <= Available(limits, now)
      BY <2>1, <2>2, <2>3, WholeTokens, Zenon
    <2> QED
      BY <1>3, <1>4, <1>5, <1>6, <2>1, <2>4, RefillKeeps, Zenon
  <1>7. CASE ~(budget > 0 /\ limits.rate > 0)
    <2>1. tokens' = tokens /\ refilled' = refilled /\ started' = started
      BY <1>3, <1>7, Zenon
    <2>2. BucketSound'
      BY <2>1, Zenon DEF BucketSound, Capacity
    <2> QED
      BY <1>4, <1>5, <2>1, <2>2, Zenon DEF FlowTypeOK
  <1> QED
    BY <1>6, <1>7, Zenon

-----------------------------------------------------------------------------
(* The steps. *)

LEMMA FlowStart ==
    ASSUME FlowInit
    PROVE  FlowInv
  <1>1. FlowTypeOK
    BY FlowAssumption DEF FlowInit, FlowTypeOK, NoTx, NoneStarted, Times
  <1>2. LockSound
    BY Zenon DEF FlowInit, LockSound, Holds, NoTx
  <1>3. BucketSound
    <2>1. limits.rate \in Nat /\ Capacity(limits) \in Nat /\ Part \in Nat /\ MaxTicks \in Nat
      BY <1>1, LimitTypes, Zenon
    <2>2. \A t \in Times : started[t] = 0
      BY Zenon DEF FlowInit, NoneStarted
    <2>3. \A s, t \in Times : s < t => limits.rate * (t - 1 - s) \in Nat
      BY <2>1 DEF Times
    <2> QED
      BY <2>1, <2>2, <2>3 DEF BucketSound
  <1> QED
    BY <1>1, <1>2, <1>3, Zenon DEF FlowInv

\* A step that claims nothing and leaves the queue's row alone.
LEMMA RowKept ==
    ASSUME FlowInv, UNCHANGED <<limits, tokens, refilled, started>>
    PROVE  BucketSound'
  BY Zenon DEF FlowInv, BucketSound, Capacity

LEMMA NoneClaimed ==
    ASSUME \A j \in FlowJobs : jobsAt[j] = "waiting" => jobsAt'[j] # "running"
    PROVE  RunningFits
  BY Zenon DEF RunningFits

LEMMA TxStep ==
    ASSUME FlowInv, NEW c \in Claimers, TxBegins(c) \/ LocksQueue(c) \/ CountsRunning(c)
    PROVE  FlowInv' /\ RunningFits
  <1>1. /\ UNCHANGED <<engine, limits, tokens, refilled, jobsAt, tick, started>>
        /\ \A d \in Claimers : d # c => txs'[d] = txs[d]
        /\ DOMAIN txs' = Claimers
    BY Zenon DEF TxBegins, LocksQueue, CountsRunning, FlowInv, FlowTypeOK
  <1>2. BucketSound'
    BY <1>1, RowKept, Zenon
  <1>3. RunningFits
    BY <1>1, NoneClaimed, Zenon
  <1>4. /\ Cardinality(RunningJobs) \in Nat /\ Cardinality(RunningJobs)' = Cardinality(RunningJobs)
    BY <1>1, JobSets, Zenon DEF RunningJobs
  <1>5. CASE TxBegins(c)
    <2>1. txs'[c] = [NoTx EXCEPT !.pc = "begun", !.now = tick]
      BY <1>5, Zenon DEF TxBegins, FlowInv, FlowTypeOK
    <2>2. FlowTypeOK'
      BY <1>1, <2>1, ZenonT(30) DEF FlowInv, FlowTypeOK, NoTx
    <2>3. txs'[c].pc = "begun" /\ engine = "pg"
      BY <1>5, <2>1, Zenon DEF TxBegins, NoTx
    <2>4. LockSound'
      <3>1. \A d \in Claimers : d # c => txs'[d] = txs[d]
        BY <1>1, Zenon
      <3> QED
        BY <1>1, <1>4, <2>3, <3>1 DEF FlowInv, LockSound, Holds
    <2> QED
      BY <1>2, <1>3, <2>2, <2>4, Zenon DEF FlowInv
  <1>6. CASE LocksQueue(c)
    <2>1. txs'[c] = [txs[c] EXCEPT !.pc = "locked", !.limits = limits] /\ ~RowLocked /\ txs[c].pc = "begun"
      BY <1>6, Zenon DEF LocksQueue, FlowInv, FlowTypeOK
    <2>2. FlowTypeOK'
      BY <1>1, <2>1, Zenon DEF FlowInv, FlowTypeOK, NoTx
    <2>3. txs'[c].pc = "locked" /\ txs'[c].limits = limits
      BY <2>1, Zenon DEF FlowInv, FlowTypeOK, NoTx
    <2>4. LockSound'
      <3>1. \A d \in Claimers : ~Holds(d)
        BY <2>1, Zenon DEF RowLocked, Holds
      <3>2. \A d \in Claimers : d # c => ~(txs'[d].pc \in {"locked", "counted"})
        BY <1>1, <3>1, Zenon DEF Holds
      <3> QED
        BY <1>1, <2>1, <2>3, <3>2, ZenonT(30) DEF FlowInv, LockSound, Holds
    <2> QED
      BY <1>2, <1>3, <2>2, <2>4, Zenon DEF FlowInv
  <1>7. CASE CountsRunning(c)
    <2>1. txs'[c] = [txs[c] EXCEPT !.pc = "counted", !.running = Cardinality(RunningJobs)] /\ txs[c].pc = "locked"
      BY <1>7, Zenon DEF CountsRunning, FlowInv, FlowTypeOK
    <2>2. FlowTypeOK'
      BY <1>1, <2>1, Zenon DEF FlowInv, FlowTypeOK, NoTx
    <2>3. txs'[c].pc = "counted" /\ txs'[c].limits = txs[c].limits /\ txs'[c].running = Cardinality(RunningJobs)
      BY <2>1, Zenon DEF FlowInv, FlowTypeOK, NoTx
    <2>4. LockSound'
      <3>1. \A d \in Claimers : d # c => ~(txs'[d].pc \in {"locked", "counted"})
        BY <1>1, <2>1, Zenon DEF FlowInv, LockSound, Holds
      <3>2. txs[c].limits = limits /\ engine = "pg"
        BY <2>1, Zenon DEF FlowInv, LockSound, Holds
      <3> QED
        BY <1>1, <1>4, <2>3, <3>1, <3>2 DEF FlowInv, LockSound, Holds
    <2> QED
      BY <1>2, <1>3, <2>2, <2>4, Zenon DEF FlowInv
  <1> QED
    BY <1>5, <1>6, <1>7, Zenon

LEMMA ClaimStep ==
    ASSUME FlowInv, NEW c \in Claimers, ClaimLimitedPg(c) \/ ClaimLimitedSqlite(c)
    PROVE  FlowInv' /\ RunningFits
  <1>0. FlowTypeOK /\ LockSound /\ BucketSound
    BY Zenon DEF FlowInv
  <1>1. CASE ClaimLimitedPg(c)
    <2>1. PICK asked \in 1..Cardinality(FlowJobs) :
              ClaimRows(txs[c].limits, Budget(txs[c].limits, asked, txs[c].running, txs[c].now), txs[c].now)
      BY <1>1, Zenon DEF ClaimLimitedPg
    <2>2. /\ txs[c].limits = limits /\ txs[c].now \in 0..MaxTicks
          /\ txs[c].running \in Nat /\ Cardinality(RunningJobs) <= txs[c].running
      BY <1>0, <1>1, Zenon DEF ClaimLimitedPg, LockSound, Holds, FlowTypeOK
    <2>3. /\ limits' = limits /\ engine' = engine /\ tick' = tick
          /\ DOMAIN txs' = Claimers /\ txs'[c] = NoTx /\ \A d \in Claimers : d # c => txs'[d] = txs[d]
      BY <1>0, <1>1, Zenon DEF ClaimLimitedPg, FlowTypeOK
    <2>4. asked \in Nat
      BY <2>1, JobSets
    <2>5. ClaimRows(limits, Budget(limits, asked, txs[c].running, txs[c].now), txs[c].now)
      BY <2>1, <2>2, Zenon
    <2>6. /\ RunningFits
          /\ jobsAt' \in [FlowJobs -> {"waiting", "running", "done"}]
          /\ tokens' \in Nat \cup {NoTokens} /\ refilled' \in 0..MaxTicks /\ started' \in [Times -> Nat]
          /\ BucketSound'
      BY <1>0, <2>2, <2>3, <2>4, <2>5, ClaimKeeps, ZenonT(30)
    <2>7. FlowTypeOK'
      BY <1>0, <2>3, <2>6, FlowAssumption DEF FlowTypeOK, NoTx
    <2>8. LockSound'
      <3>1. \A d \in Claimers : d # c => ~Holds(d)
        BY <1>0, <1>1, Zenon DEF ClaimLimitedPg, LockSound, Holds
      <3>2. \A d \in Claimers : ~(txs'[d].pc \in {"locked", "counted"})
        BY <2>3, <3>1 DEF Holds, NoTx
      <3> QED
        BY <1>0, <2>3, <3>2 DEF LockSound, Holds, NoTx
    <2> QED
      BY <2>6, <2>7, <2>8, Zenon DEF FlowInv
  <1>2. CASE ClaimLimitedSqlite(c)
    <2>1. PICK asked \in 1..Cardinality(FlowJobs) :
              ClaimRows(limits, Budget(limits, asked, Cardinality(RunningJobs), tick), tick)
      BY <1>2, Zenon DEF ClaimLimitedSqlite
    <2>2. /\ engine = "sqlite" /\ UNCHANGED <<engine, limits, txs, tick>>
      BY <1>2, Zenon DEF ClaimLimitedSqlite
    <2>3. asked \in Nat /\ Cardinality(RunningJobs) \in Nat /\ Cardinality(RunningJobs) <= Cardinality(RunningJobs)
      BY <2>1, JobSets DEF RunningJobs
    <2>4. tick \in 0..MaxTicks
      BY <1>0, Zenon DEF FlowTypeOK
    <2>5. /\ RunningFits
          /\ jobsAt' \in [FlowJobs -> {"waiting", "running", "done"}]
          /\ tokens' \in Nat \cup {NoTokens} /\ refilled' \in 0..MaxTicks /\ started' \in [Times -> Nat]
          /\ BucketSound'
      BY <1>0, <2>1, <2>2, <2>3, <2>4, ClaimKeeps, Zenon
    <2>6. FlowTypeOK'
      BY <1>0, <2>2, <2>5, Zenon DEF FlowTypeOK
    <2>7. LockSound'
      BY <1>0, <2>2, Zenon DEF LockSound, Holds
    <2> QED
      BY <2>5, <2>6, <2>7, Zenon DEF FlowInv
  <1> QED
    BY <1>1, <1>2, Zenon

LEMMA FinishesStep ==
    ASSUME FlowInv, NEW j \in FlowJobs, Finishes(j)
    PROVE  FlowInv' /\ RunningFits
  <1>1. /\ UNCHANGED <<engine, limits, tokens, refilled, txs, tick, started>>
        /\ jobsAt[j] = "running"
        /\ jobsAt' \in [FlowJobs -> {"waiting", "running", "done"}]
        /\ jobsAt'[j] # "running" /\ \A k \in FlowJobs : k # j => jobsAt'[k] = jobsAt[k]
    BY Zenon DEF Finishes, FlowInv, FlowTypeOK
  <1>2. BucketSound' /\ RunningFits
    BY <1>1, RowKept, NoneClaimed, Zenon
  <1>3. FlowTypeOK'
    BY <1>1, Zenon DEF FlowInv, FlowTypeOK
  <1>4. RunningJobs' \in SUBSET RunningJobs /\ RunningJobs \in SUBSET FlowJobs
    BY <1>1, Zenon DEF RunningJobs
  <1>5. /\ Cardinality(RunningJobs') <= Cardinality(RunningJobs)
        /\ Cardinality(RunningJobs') \in Nat /\ Cardinality(RunningJobs) \in Nat
    BY <1>4, JobSets, FS_Subset, FS_CardinalityType, Zenon
  <1>6. LockSound'
    BY <1>1, <1>5 DEF FlowInv, LockSound, Holds
  <1> QED
    BY <1>2, <1>3, <1>6, Zenon DEF FlowInv

LEMMA LimitsStep ==
    ASSUME FlowInv, QueueSetLimits
    PROVE  FlowInv' /\ RunningFits
  <1>1. /\ limits' \in Limits /\ ~RowLocked
        /\ tokens' = IF limits'.rate # limits.rate THEN NoTokens ELSE tokens
        /\ started' = IF limits'.rate # limits.rate \/ limits'.burst # limits.burst THEN NoneStarted ELSE started
        /\ UNCHANGED <<engine, refilled, jobsAt, txs, tick>>
    BY Zenon DEF QueueSetLimits
  <1>2. RunningFits
    BY <1>1, NoneClaimed, Zenon
  <1>3. FlowTypeOK'
    BY <1>1, Zenon DEF FlowInv, FlowTypeOK, NoneStarted
  <1>4. LockSound'
    BY <1>1, Zenon DEF FlowInv, LockSound, Holds, RowLocked, RunningJobs
  <1>5. BucketSound'
    <2>1. CASE started' = NoneStarted
      <3>1. limits'.rate \in Nat /\ Capacity(limits') \in Nat /\ Part \in Nat /\ MaxTicks \in Nat
        BY <1>1, LimitsAre, Zenon
      <3>2. \A t \in Times : started'[t] = 0
        BY <2>1, Zenon DEF NoneStarted
      <3>3. \A s, t \in Times : s < t => limits'.rate * (t - 1 - s) \in Nat
        BY <3>1 DEF Times
      <3> QED
        BY <3>1, <3>2, <3>3 DEF BucketSound
    <2>2. CASE started' # NoneStarted
      <3>1. limits'.rate = limits.rate /\ limits'.burst = limits.burst /\ tokens' = tokens /\ started' = started
        BY <1>1, <2>2, Zenon
      <3>2. Capacity(limits') = Capacity(limits)
        BY <3>1, Zenon DEF Capacity
      <3> QED
        BY <1>1, <3>1, <3>2, Zenon DEF FlowInv, BucketSound
    <2> QED
      BY <2>1, <2>2, Zenon
  <1> QED
    BY <1>2, <1>3, <1>4, <1>5, Zenon DEF FlowInv

LEMMA FlowStep ==
    ASSUME FlowInv, [FlowNext]_flowVars
    PROVE  FlowInv' /\ RunningFits
  <1>1. CASE Ticks
    <2>1. UNCHANGED <<engine, limits, tokens, refilled, jobsAt, txs, started>> /\ tick' \in 0..MaxTicks
      BY <1>1, FlowAssumption DEF Ticks, FlowInv, FlowTypeOK
    <2>2. BucketSound' /\ RunningFits
      BY <2>1, RowKept, NoneClaimed, Zenon
    <2> QED
      BY <2>1, <2>2, Zenon DEF FlowInv, FlowTypeOK, LockSound, Holds, RunningJobs
  <1>2. CASE UNCHANGED flowVars
    <2>1. BucketSound' /\ RunningFits
      BY <1>2, RowKept, NoneClaimed, Zenon DEF flowVars
    <2> QED
      BY <1>2, <2>1, Zenon DEF flowVars, FlowInv, FlowTypeOK, LockSound, Holds, RunningJobs
  <1> QED
    BY <1>1, <1>2, TxStep, ClaimStep, FinishesStep, LimitsStep, Zenon DEF FlowNext

-----------------------------------------------------------------------------
\* Whatever the limits, the keys and the clients, and however their claims, a
\* change of the limits and the passing of time interleave, a claim leaves no
\* more jobs running than the row's limits allow, in all and per key, and
\* between two times no more start than the bucket holds and the rate adds
\* (claimLimited and the bucket of the queue's row, in both engines).
THEOREM LimitsKept == FlowSpec => LimitsHold
  <1>1. FlowInit => FlowInv
    BY FlowStart, Zenon
  <1>2. FlowInv /\ [FlowNext]_flowVars => FlowInv'
    BY FlowStep, Zenon
  <1>3. FlowInv /\ FlowInv' /\ [FlowNext]_flowVars => [RunningFits /\ RateFits']_flowVars
    <2>1. FlowInv' => RateFits'
      BY Zenon DEF FlowInv, BucketSound, RateFits
    <2> QED
      BY <2>1, FlowStep, Zenon
  <1> QED
    BY <1>1, <1>2, <1>3, PTL DEF FlowSpec, LimitsHold

-----------------------------------------------------------------------------
NoCallbacks == [k \in {"success", "failure", "complete"} |-> 0]

\* Before the insert, and once the batch is complete, no job depends on another.
Absent ==
    /\ \A j \in Jobs : state[j] = "absent" /\ results[j] = "none"
    /\ edges = {}
    /\ batch = [pending |-> 0, failed |-> 0, completed |-> FALSE]

Over == batch.completed => edges = {} /\ \A j \in Jobs : results[j] = "none"

EdgesLive == \A e \in edges : IsLive(e.job)

WorkflowInv ==
    /\ WorkflowTypeOK
    /\ CheckDependencies(edges)
    /\ EdgesLive
    /\ Inserted \/ Absent
    /\ Over
    /\ ~batch.completed => callbacks = NoCallbacks
    /\ BatchCounts /\ PendingIsHeld /\ FailureCascades /\ ResultsMatch

-----------------------------------------------------------------------------
(***************************************************************************)
(* The cascade.  What it reaches from more jobs is more, so the least set  *)
(* it does not leave is one, and a job it did not cancel has no edge that  *)
(* says it should have.                                                    *)
(***************************************************************************)
LEMMA GroupPolicy ==
    ASSUME WorkflowTypeOK, CheckDependencies(edges), NEW e \in edges
    PROVE  /\ e.job \in Jobs /\ e.on \in Jobs /\ e.policy \in Policies
           /\ e.anyOf = 0 <=> e.policy \in {"cancel", "ignore"}
           /\ e \in Group(e)
           /\ \A s \in Group(e) : /\ s \in edges /\ s.job = e.job /\ s.anyOf = e.anyOf /\ Group(s) = Group(e)
                                  /\ e.anyOf # 0 => s.policy = e.policy /\ Recorded(s.on)
  <1>1. e \in Edge
    BY Zenon DEF WorkflowTypeOK
  <1>2. e.job \in Jobs /\ e.on \in Jobs /\ e.policy \in Policies
    BY <1>1, Zenon DEF Edge
  <1>3. e.anyOf = 0 <=> e.policy \in {"cancel", "ignore"}
    BY Zenon DEF CheckDependencies
  <1>4. ASSUME NEW s \in Group(e)
        PROVE  /\ s \in edges /\ s.job = e.job /\ s.anyOf = e.anyOf /\ Group(s) = Group(e)
               /\ e.anyOf # 0 => s.policy = e.policy /\ Recorded(s.on)
    BY ZenonT(30) DEF Group, CheckDependencies, Recorded
  <1> QED
    BY <1>2, <1>3, <1>4, Zenon DEF Group

Gone(done, seen) == done \cup Canceled(done, seen)

LEMMA OutcomeIs ==
    ASSUME NEW done \in SUBSET LiveJobs, NEW out, NEW seen
    PROVE  /\ Canceled(done, seen) \subseteq LiveJobs /\ Canceled(done, seen) \cap done = {}
           /\ Gone(done, seen) \subseteq LiveJobs
           /\ \A j \in done : Outcome(done, out, seen)[j] = out[j]
           /\ \A j \in Canceled(done, seen) : Outcome(done, out, seen)[j] = "canceled"
           /\ \A j \in Jobs \ Gone(done, seen) : Outcome(done, out, seen)[j] = state[j]
  BY Zenon DEF Outcome, Canceled, Gone, LiveJobs, IsLive, Live

LEMMA CanceledGrows ==
    ASSUME NEW done \in SUBSET LiveJobs, NEW out, NEW S, NEW T, S \subseteq T
    PROVE  /\ Gone(done, S) \subseteq Gone(done, T)
           /\ \A j \in Gone(done, S) : Outcome(done, out, T)[j] = Outcome(done, out, S)[j]
  <1>1. Canceled(done, S) \subseteq Canceled(done, T)
    BY Zenon DEF Canceled
  <1>2. \A j \in done : Outcome(done, out, S)[j] = out[j] /\ Outcome(done, out, T)[j] = out[j]
    BY Zenon DEF Outcome, LiveJobs
  <1>3. \A j \in Canceled(done, S) : Outcome(done, out, S)[j] = "canceled"
    BY Zenon DEF Outcome, Canceled
  <1>4. \A j \in Canceled(done, T) : Outcome(done, out, T)[j] = "canceled"
    BY Zenon DEF Outcome, Canceled
  <1> QED
    BY <1>1, <1>2, <1>3, <1>4, Zenon DEF Gone

LEMMA ReachGrows ==
    ASSUME WorkflowTypeOK, CheckDependencies(edges), NEW done \in SUBSET LiveJobs, NEW out,
           NEW S \in SUBSET Jobs, NEW T \in SUBSET Jobs, S \subseteq T
    PROVE  Reach(done, out, S) \subseteq T \cup Reach(done, out, T)
  <1> DEFINE fail(X) == {j \in Gone(done, X) : Outcome(done, out, X)[j] \in Failed}
             ends(d, X) == Exhausted(d, LiveJobs \ Gone(done, X), Record(Gone(done, X), Outcome(done, out, X)))
             hit(X) == {d \in edges : \/ d.policy = "cancel" /\ d.on \in fail(X) \cup X
                                      \/ d.policy = "any_cancel" /\ d.on \in fail(X) /\ ends(d, X)}
  <1>0. \A j \in Gone(done, S) : j \in Gone(done, T) /\ Outcome(done, out, T)[j] = Outcome(done, out, S)[j]
    BY CanceledGrows
  <1>1. fail(S) \subseteq fail(T)
    BY <1>0, Zenon
  <1>2. ASSUME NEW d \in edges, d.policy = "any_cancel", ends(d, S) PROVE ends(d, T)
    <2>0. d.anyOf # 0
      BY <1>2, GroupPolicy, Zenon
    <2>1. SUFFICES ASSUME NEW s \in Group(d)
                   PROVE  /\ s.on \notin LiveJobs \ Gone(done, T)
                          /\ Record(Gone(done, T), Outcome(done, out, T))[s.on] \notin {"none", "completed"}
      BY Zenon DEF Exhausted, Satisfied
    <2>2. /\ s.on \notin LiveJobs \ Gone(done, S)
          /\ Record(Gone(done, S), Outcome(done, out, S))[s.on] \notin {"none", "completed"}
      BY <1>2, Zenon DEF Exhausted, Satisfied
    <2>3. Recorded(s.on) /\ s.on \in Jobs
      BY <2>0, GroupPolicy, Zenon
    <2>4. CASE s.on \in Gone(done, S)
      <3>1. s.on \in Gone(done, T) /\ Outcome(done, out, T)[s.on] = Outcome(done, out, S)[s.on]
        BY <1>0, <2>4, Zenon
      <3> QED
        BY <2>2, <2>3, <2>4, <3>1, Zenon DEF Record
    <2>5. CASE s.on \notin Gone(done, S)
      <3>1. s.on \notin LiveJobs /\ s.on \notin Gone(done, T)
        BY <2>2, <2>5, OutcomeIs, ZenonT(30)
      <3> QED
        BY <2>2, <2>3, <2>5, <3>1, Zenon DEF Record
    <2> QED
      BY <2>4, <2>5, Zenon
  <1>3. hit(S) \subseteq hit(T)
    BY <1>1, <1>2, Zenon
  <1>4. \A X : Reach(done, out, X) = {e.job : e \in {d \in hit(X) : d.job \notin X}}
    BY Zenon DEF Reach, Gone
  <1> HIDE DEF hit
  <1> QED
    BY <1>3, <1>4

LEMMA CascadeEnds ==
    ASSUME WorkflowTypeOK, CheckDependencies(edges), NEW done \in SUBSET LiveJobs, NEW out
    PROVE  Reach(done, out, Cascade(done, out)) = {}
  <1> DEFINE C == Cascade(done, out)
             Ends(S) == S \in SUBSET {e.job : e \in edges} /\ Reach(done, out, S) = {}
             Behind == {e.job : e \in edges}
  <1>1. C \in SUBSET Jobs
    BY GroupPolicy, Zenon DEF Cascade
  <1>2. C = {j \in Behind : \A S : Ends(S) => j \in S}
    BY Zenon DEF Cascade
  <1>3. Reach(done, out, C) \subseteq Behind /\ Reach(done, out, C) \cap C = {} /\ Behind \subseteq Jobs
    BY GroupPolicy, Zenon DEF Reach
  <1>4. ASSUME NEW S, Ends(S)
        PROVE  Reach(done, out, C) \subseteq S
    <2>1. C \subseteq S /\ S \in SUBSET Jobs
      BY <1>2, <1>3, <1>4, Zenon
    <2> HIDE DEF C
    <2> QED
      BY <1>1, <1>4, <2>1, ReachGrows, Zenon
  <1> HIDE DEF C, Ends
  <1>5. Reach(done, out, C) \subseteq C
    BY <1>2, <1>3, <1>4, Zenon
  <1> QED
    BY <1>3, <1>5, Zenon DEF C

-----------------------------------------------------------------------------
(***************************************************************************)
(* What finish and tail do, once the cascade has made done the set all.    *)
(***************************************************************************)
RecordedIn(all) == [j \in Jobs |-> IF j \in all /\ Recorded(j) THEN state'[j] ELSE results[j]]

Ending(all) ==
    /\ all # {} /\ all \subseteq LiveJobs
    /\ state' \in [Jobs -> {"absent"} \cup Live \cup Terminal]
    /\ \A j \in all : state'[j] \in Terminal
    /\ \A j \in Jobs \ all : state'[j] = state[j] \/ (state[j] = "pending" /\ state'[j] = "waiting")

\* A job that is still pending is one that tail did not promote; one that is
\* not any more, was ready.
Promoting(all) ==
    \A j \in Jobs \ all : state[j] = "pending" =>
        (state'[j] = "waiting" <=> (\E e \in edges : e.job = j /\ e.on \in all) /\ Ready(j, LiveJobs', results'))

Sparing(all) ==
    \A e \in edges : state[e.job] = "pending" /\ e.job \notin all /\ e.on \in all /\ state'[e.on] \in Failed =>
        /\ e.policy # "cancel"
        /\ e.policy = "any_cancel" => ~Exhausted(e, LiveJobs', RecordedIn(all))

Recording(all) ==
    /\ edges' = {e \in edges : e.job \notin all}
    /\ batch' = Counted(batch, Cardinality(all), Cardinality({j \in all : state'[j] \in Failed}))
    /\ results' = IF Completes(batch') THEN [j \in Jobs |-> "none"] ELSE RecordedIn(all)
    /\ callbacks' = InsertCallbacks(batch')
    /\ \E keep \in SUBSET all : archived' = archived \cup keep

LEMMA FinishIs ==
    ASSUME WorkflowTypeOK, CheckDependencies(edges), NEW done \in SUBSET LiveJobs, done # {},
           NEW out, \A j \in done : out[j] \in Terminal, NEW keep \in SUBSET done, Finish(done, out, keep)
    PROVE  \E all \in SUBSET LiveJobs : Ending(all) /\ Promoting(all) /\ Sparing(all) /\ Recording(all)
  <1> DEFINE seen == Cascade(done, out)
             after == Outcome(done, out, seen)
             all == Gone(done, seen)
             live == {j \in Jobs : after[j] \in Live}
             count == Counted(batch, Cardinality(all), Cardinality({j \in all : after[j] \in Failed}))
             res == IF Completes(count) THEN [j \in Jobs |-> "none"] ELSE Record(all, after)
             promoted(j) == after[j] = "pending" /\ (\E e \in edges : e.on \in all /\ e.job = j) /\ Ready(j, live, res)
  <1>1. /\ state' = [j \in Jobs |-> IF promoted(j) THEN "waiting" ELSE after[j]]
        /\ archived' = archived \cup keep \cup Canceled(done, seen)
        /\ edges' = {e \in edges : e.job \notin all}
        /\ results' = res
        /\ batch' = count
        /\ callbacks' = InsertCallbacks(count)
    BY Zenon DEF Finish, Gone
  <1>2. /\ all \subseteq LiveJobs /\ LiveJobs \subseteq Jobs /\ done \subseteq all /\ Canceled(done, seen) \subseteq all
        /\ \A j \in all : after[j] \in Terminal
        /\ \A j \in Jobs \ all : after[j] = state[j]
    <2> HIDE DEF seen
    <2>1. /\ Canceled(done, seen) \subseteq LiveJobs /\ all \subseteq LiveJobs
          /\ \A j \in done : after[j] = out[j]
          /\ \A j \in Canceled(done, seen) : after[j] = "canceled"
          /\ \A j \in Jobs \ all : after[j] = state[j]
      BY Zenon DEF Outcome, Canceled, Gone, LiveJobs, IsLive, Live
    <2> QED
      BY <2>1, Zenon DEF Gone, Terminal, Failed, LiveJobs
  <1>3. state \in [Jobs -> {"absent"} \cup Live \cup Terminal]
    BY Zenon DEF WorkflowTypeOK
  <1>4. Reach(done, out, seen) = {}
    BY CascadeEnds, Zenon
  <1> HIDE DEF seen
  <1>5. \A d \in edges :
          (\/ d.policy = "cancel" /\ d.on \in all /\ after[d.on] \in Failed
           \/ d.policy = "any_cancel" /\ d.on \in all /\ after[d.on] \in Failed
              /\ Exhausted(d, LiveJobs \ all, Record(all, after))) => d.job \in seen
    BY <1>4, Zenon DEF Reach, Gone
  <1>6. \A j \in seen : j \in Jobs /\ state[j] = "pending" => j \in all
    BY Zenon DEF Gone, Canceled
  <1> HIDE DEF after, all, count
  <1>7. \A j \in all : state'[j] = after[j]
    BY <1>1, <1>2, Zenon DEF Terminal, Failed
  <1>8. \A j \in Jobs \ all : state'[j] = IF promoted(j) THEN "waiting" ELSE state[j]
    BY <1>1, <1>2, Zenon
  <1>9. Ending(all)
    <2>1. state' \in [Jobs -> {"absent"} \cup Live \cup Terminal]
      <3>1. \A j \in Jobs : state'[j] \in {"absent"} \cup Live \cup Terminal
        BY <1>2, <1>3, <1>7, <1>8, Zenon DEF Live
      <3> QED
        BY <1>1, <3>1, Zenon
    <2>2. all # {}
      BY <1>2, Zenon
    <2>3. \A j \in Jobs \ all : promoted(j) => state[j] = "pending"
      BY <1>2, Zenon
    <2> HIDE DEF promoted
    <2> QED
      BY <1>2, <1>7, <1>8, <2>1, <2>2, <2>3, Zenon DEF Ending
  <1>10. live = LiveJobs \ all /\ LiveJobs' = LiveJobs \ all
    <2>1. \A j \in Jobs : after[j] \in Live <=> j \in LiveJobs \ all
      BY <1>2, Zenon DEF LiveJobs, IsLive, Live, Terminal, Failed
    <2>2. \A j \in Jobs : state'[j] \in Live <=> j \in LiveJobs \ all
      BY <1>2, <1>7, <1>8, Zenon DEF LiveJobs, IsLive, Live, Terminal, Failed
    <2> QED
      BY <1>2, <2>1, <2>2, Zenon DEF LiveJobs, IsLive
  <1>11. Record(all, after) = RecordedIn(all)
    BY <1>7, Zenon DEF Record, RecordedIn
  <1>12. {j \in all : after[j] \in Failed} = {j \in all : state'[j] \in Failed}
    BY <1>7, Zenon
  <1>13. Recording(all)
    <2>1. archived' = archived \cup (keep \cup Canceled(done, seen)) /\ keep \cup Canceled(done, seen) \in SUBSET all
      BY <1>1, <1>2, Zenon
    <2>2. count = Counted(batch, Cardinality(all), Cardinality({j \in all : state'[j] \in Failed}))
      BY <1>12, Zenon DEF count
    <2>3. results' = IF Completes(batch') THEN [j \in Jobs |-> "none"] ELSE RecordedIn(all)
      BY <1>1, <1>11, Zenon
    <2> QED
      BY <1>1, <2>1, <2>2, <2>3, Zenon DEF Recording
  <1>14. Promoting(all)
    <2>1. ASSUME NEW j \in Jobs \ all, state[j] = "pending"
          PROVE  state'[j] = "waiting" <=> (\E e \in edges : e.job = j /\ e.on \in all) /\ Ready(j, LiveJobs', results')
      <3>1. promoted(j) <=> (\E e \in edges : e.job = j /\ e.on \in all) /\ Ready(j, LiveJobs', results')
        BY <1>1, <1>2, <1>10, <2>1, Zenon
      <3> HIDE DEF promoted
      <3> QED
        BY <1>8, <2>1, <3>1, Zenon
    <2> QED
      BY <2>1, Zenon DEF Promoting
  <1>15. Sparing(all)
    <2>1. ASSUME NEW e \in edges, state[e.job] = "pending", e.job \notin all, e.on \in all, state'[e.on] \in Failed
          PROVE  /\ e.policy # "cancel"
                 /\ e.policy = "any_cancel" => ~Exhausted(e, LiveJobs', RecordedIn(all))
      <3>1. e.job \in Jobs /\ e.job \notin seen
        BY <1>6, <2>1, GroupPolicy, Zenon
      <3>2. after[e.on] \in Failed
        BY <1>7, <2>1, Zenon
      <3> QED
        BY <1>5, <1>10, <1>11, <2>1, <3>1, <3>2, Zenon
    <2> QED
      BY <2>1, Zenon DEF Sparing
  <1> QED
    BY <1>2, <1>9, <1>13, <1>14, <1>15, Zenon


-----------------------------------------------------------------------------
LEMMA JobsFinite ==
    ASSUME NEW S \in SUBSET Jobs
    PROVE  IsFiniteSet(S) /\ Cardinality(S) \in Nat /\ (Cardinality(S) = 0 <=> S = {})
  <1>1. IsFiniteSet(Jobs)
    BY WorkflowAssumption, FS_Interval DEF Jobs
  <1>2. IsFiniteSet(S)
    BY <1>1, FS_Subset, Zenon
  <1> QED
    BY <1>2, FS_CardinalityType, FS_EmptySet, Zenon

FailedJobs == {j \in Jobs : state[j] \in Failed}

\* Who is live, has failed and is pending once the jobs in all have ended.
LEMMA EndingSets ==
    ASSUME WorkflowTypeOK, Inserted \/ Absent, NEW all, Ending(all)
    PROVE  /\ Inserted /\ Inserted' /\ all \in SUBSET Jobs
           /\ LiveJobs' = LiveJobs \ all
           /\ FailedJobs' = FailedJobs \cup {j \in all : state'[j] \in Failed}
           /\ FailedJobs \cap all = {}
           /\ \A j \in Jobs : state'[j] = "pending" => state[j] = "pending" /\ j \notin all
           /\ \A j \in Jobs \ LiveJobs : state'[j] = state[j]
  <1>1. LiveJobs \subseteq Jobs /\ all \subseteq Jobs
    BY Zenon DEF LiveJobs, Ending
  <1>2. Inserted
    BY <1>1, Zenon DEF Ending, LiveJobs, IsLive, Live, Absent
  <1>3. \A j \in Jobs : state[j] \in Live \cup Terminal
    BY <1>2, Zenon DEF Inserted, WorkflowTypeOK
  <1>4. \A j \in Jobs : /\ state'[j] \in Live \cup Terminal
                        /\ state'[j] \in Live <=> state[j] \in Live /\ j \notin all
                        /\ state'[j] \in Failed <=> (state[j] \in Failed \/ (j \in all /\ state'[j] \in Failed))
                        /\ j \in all => state[j] \in Live
    BY <1>1, <1>3, Zenon DEF Ending, Live, Terminal, Failed, LiveJobs, IsLive
  <1>5. Inserted'
    BY <1>4, Zenon DEF Inserted, Live, Terminal, Failed
  <1>6. LiveJobs' = LiveJobs \ all
    BY <1>4, Zenon DEF LiveJobs, IsLive
  <1>7. FailedJobs' = FailedJobs \cup {j \in all : state'[j] \in Failed} /\ FailedJobs \cap all = {}
    <2>1. \A j \in all : state[j] \notin Failed
      BY <1>1, <1>4, Zenon DEF Live, Failed
    <2>2. FailedJobs' = {j \in Jobs : state'[j] \in Failed}
      BY Zenon DEF FailedJobs
    <2> QED
      BY <1>1, <1>4, <2>1, <2>2, Zenon DEF FailedJobs
  <1>8. \A j \in Jobs : state'[j] = "pending" => state[j] = "pending" /\ j \notin all
    BY <1>1, Zenon DEF Ending, Terminal, Failed
  <1>9. \A j \in Jobs \ LiveJobs : state'[j] = state[j]
    BY <1>1, Zenon DEF Ending, LiveJobs, IsLive, Live
  <1> QED
    BY <1>1, <1>2, <1>5, <1>6, <1>7, <1>8, <1>9, Zenon

\* The batch row after the jobs in all have ended.
LEMMA EndingCounts ==
    ASSUME WorkflowInv, NEW all, Ending(all), Recording(all)
    PROVE  /\ batch' \in Batch
           /\ batch.completed => batch' = batch
           /\ ~batch.completed => /\ batch'.failed = Cardinality(FailedJobs')
                                  /\ batch'.completed <=> LiveJobs' = {}
                                  /\ ~batch'.completed => batch'.pending = Cardinality(LiveJobs')
  <1> DEFINE n == Cardinality(all)
             f == Cardinality({j \in all : state'[j] \in Failed})
  <1>0. /\ Inserted /\ all \in SUBSET Jobs /\ LiveJobs' = LiveJobs \ all
        /\ FailedJobs' = FailedJobs \cup {j \in all : state'[j] \in Failed} /\ FailedJobs \cap all = {}
    BY EndingSets, Zenon DEF WorkflowInv
  <1>1. batch \in Batch /\ batch' = Counted(batch, n, f)
    BY Zenon DEF WorkflowInv, WorkflowTypeOK, Recording
  <1>2. n \in Nat /\ f \in Nat
    BY <1>0, JobsFinite, Zenon
  <1>3. Cardinality(LiveJobs \ all) = Cardinality(LiveJobs) - n /\ Cardinality(LiveJobs) \in Nat
    <2>1. LiveJobs \cap all = all /\ LiveJobs \in SUBSET Jobs
      BY Zenon DEF Ending, LiveJobs
    <2>2. IsFiniteSet(LiveJobs)
      BY <2>1, JobsFinite, Zenon
    <2>3. Cardinality(LiveJobs \ all) = Cardinality(LiveJobs) - Cardinality(LiveJobs \cap all)
      BY <2>2, FS_Difference, Zenon
    <2> QED
      BY <2>1, <2>3, JobsFinite, Zenon
  <1>4. Cardinality(FailedJobs') = Cardinality(FailedJobs) + f /\ Cardinality(FailedJobs) \in Nat
    <2> DEFINE A == FailedJobs
               B == {j \in all : state'[j] \in Failed}
    <2>1. A \in SUBSET Jobs /\ B \in SUBSET Jobs /\ A \cap B = {}
      BY <1>0, Zenon DEF FailedJobs
    <2>2. IsFiniteSet(A) /\ IsFiniteSet(B) /\ Cardinality(A \cap B) = 0 /\ Cardinality(A) \in Nat
      BY <2>1, JobsFinite, FS_EmptySet, Zenon
    <2>3. Cardinality(A \cup B) = Cardinality(A) + Cardinality(B) - Cardinality(A \cap B)
      BY <2>2, FS_Union, Zenon
    <2>4. FailedJobs' = A \cup B
      BY <1>0, Zenon
    <2> HIDE DEF A
    <2> QED
      BY <1>2, <2>2, <2>3, <2>4 DEF A
  <1> HIDE DEF n, f
  <1>5. CASE batch.completed
    BY <1>1, <1>5, Zenon DEF Counted
  <1>6. CASE ~batch.completed
    <2>1. batch.pending = Cardinality(LiveJobs) /\ batch.failed = Cardinality(FailedJobs)
      BY <1>0, <1>6, Zenon DEF WorkflowInv, BatchCounts, FailedJobs
    <2>2. batch.pending - n = Cardinality(LiveJobs') /\ batch.failed + f = Cardinality(FailedJobs')
      BY <1>0, <1>3, <1>4, <2>1, Zenon
    <2>3. LiveJobs' \in SUBSET Jobs
      BY Zenon DEF LiveJobs
    <2>4. Cardinality(LiveJobs') \in Nat /\ (Cardinality(LiveJobs') = 0 <=> LiveJobs' = {})
      BY <2>3, JobsFinite, Zenon
    <2>5. Cardinality(FailedJobs') \in Nat
      BY <1>2, <1>4
    <2>6. CASE batch.pending - n > 0
      <3>1. batch' = [batch EXCEPT !.pending = @ - n, !.failed = @ + f]
        BY <1>1, <1>6, <2>6, Zenon DEF Counted
      <3>2. batch'.pending = batch.pending - n /\ batch'.failed = batch.failed + f /\ batch'.completed = FALSE
        BY <1>1, <1>6, <3>1, Zenon DEF Batch
      <3>3. batch' \in Batch
        <4>1. batch.pending - n \in Int /\ batch.failed + f \in Int
          BY <2>2, <2>4, <2>5
        <4> QED
          BY <1>1, <3>1, <4>1, Zenon DEF Batch
      <3> QED
        BY <1>6, <2>2, <2>4, <2>6, <3>2, <3>3
    <2>7. CASE ~(batch.pending - n > 0)
      <3>1. batch' = [pending |-> 0, failed |-> batch.failed + f, completed |-> TRUE]
        BY <1>1, <1>6, <2>7, Zenon DEF Counted
      <3>2. batch.failed + f \in Int
        BY <2>2, <2>5
      <3>3. batch' \in Batch
        BY <3>1, <3>2 DEF Batch
      <3> QED
        BY <1>6, <2>2, <2>4, <2>7, <3>1, <3>3
    <2> QED
      BY <2>6, <2>7, Zenon
  <1> QED
    BY <1>5, <1>6, Zenon


LEMMA EndingCallbacks ==
    ASSUME WorkflowInv, NEW all, Ending(all), Recording(all)
    PROVE  /\ CallbackMatches /\ CompletedIsFinal
           /\ ~batch'.completed => callbacks' = NoCallbacks
           /\ callbacks' \in [{"success", "failure", "complete"} -> Nat]
  <1>0. callbacks \in [{"success", "failure", "complete"} -> Nat] /\ batch \in Batch
    BY Zenon DEF WorkflowInv, WorkflowTypeOK
  <1>1. callbacks' = InsertCallbacks(batch')
    BY Zenon DEF Recording
  <1>2. CASE ~Completes(batch')
    <2>1. callbacks' = callbacks
      BY <1>1, <1>2, Zenon DEF InsertCallbacks
    <2>2. batch.completed => batch' = batch
      BY EndingCounts, Zenon
    <2>3. ~batch'.completed => ~batch.completed
      BY <2>2, Zenon
    <2> QED
      BY <1>0, <1>2, <2>1, <2>2, <2>3, Zenon DEF CallbackMatches, CompletedIsFinal, WorkflowInv
  <1>3. CASE Completes(batch')
    <2>0. ~batch.completed /\ batch'.completed
      BY <1>3, Zenon DEF Completes
    <2>1. batch'.failed = Cardinality(FailedJobs') /\ LiveJobs' = {} /\ callbacks = NoCallbacks
      BY <2>0, EndingCounts, Zenon DEF WorkflowInv
    <2>2. \A j \in Jobs : state'[j] \in Terminal
      <3>1. Inserted' /\ state' \in [Jobs -> {"absent"} \cup Live \cup Terminal]
        BY EndingSets, Zenon DEF WorkflowInv, Ending
      <3>2. \A j \in Jobs : state'[j] # "absent" /\ state'[j] \notin Live
        BY <2>1, <3>1, Zenon DEF Inserted, LiveJobs, IsLive
      <3> QED
        BY <3>1, <3>2, Zenon
    <2>3. batch'.failed > 0 <=> \E j \in Jobs : state'[j] \in Failed
      <3>1. FailedJobs' \in SUBSET Jobs /\ (FailedJobs' # {} <=> \E j \in Jobs : state'[j] \in Failed)
        BY Zenon DEF FailedJobs
      <3>2. Cardinality(FailedJobs') \in Nat /\ (Cardinality(FailedJobs') = 0 <=> FailedJobs' = {})
        BY <3>1, JobsFinite, Zenon
      <3> QED
        BY <2>1, <3>1, <3>2
    <2> DEFINE outcome == IF batch'.failed > 0 THEN "failure" ELSE "success"
    <2>4. callbacks' = [callbacks EXCEPT ![outcome] = @ + 1, !["complete"] = @ + 1]
      BY <1>1, <1>3, Zenon DEF InsertCallbacks
    <2>5. outcome = IF \E j \in Jobs : state'[j] \in Failed THEN "failure" ELSE "success"
      BY <2>3, Zenon
    <2>6. outcome \in {"success", "failure"}
      BY Zenon
    <2> HIDE DEF outcome
    <2>7. callbacks' = [k \in {"success", "failure", "complete"} |-> IF k \in {outcome, "complete"} THEN 1 ELSE 0]
      <3> DEFINE D == {"success", "failure", "complete"}
      <3>1. callbacks \in [D -> {0}]
        BY <2>1, Zenon DEF NoCallbacks
      <3>2. callbacks' = [k \in D |-> callbacks'[k]]
        BY <2>4, <3>1, Zenon
      <3>3. callbacks'["complete"] = 1
        BY <2>4, <2>6, <3>1
      <3>4. \A k \in {"success", "failure"} : callbacks'[k] = IF k = outcome THEN 1 ELSE 0
        BY <2>4, <2>6, <3>1
      <3>5. \A k \in D : callbacks'[k] = IF k \in {outcome, "complete"} THEN 1 ELSE 0
        BY <2>6, <3>3, <3>4, Zenon
      <3> QED
        BY <3>2, <3>5, Zenon
    <2>8. DOMAIN callbacks = {"success", "failure", "complete"}
      BY <1>0, Zenon
    <2>9. CallbackMatches
      BY <2>2, <2>5, <2>7, <2>8, Zenon DEF CallbackMatches
    <2> QED
      BY <2>0, <2>7, <2>9, Zenon DEF CompletedIsFinal
  <1> QED
    BY <1>2, <1>3, Zenon

\* An edge left is of a job that is live still, and its group is what it was.
LEMMA EdgesLeft ==
    ASSUME WorkflowInv, NEW all, Ending(all), Recording(all), NEW e \in edges'
    PROVE  /\ e \in edges /\ e.job \notin all /\ e.job \in LiveJobs' /\ ~Completes(batch')
           /\ Group(e)' = Group(e)
           /\ Recorded(e.on) => results'[e.on] = IF e.on \in all THEN state'[e.on] ELSE results[e.on]
  <1>1. e \in edges /\ e.job \notin all
    BY Zenon DEF Recording
  <1>2. e.job \in LiveJobs' /\ e.on \in Jobs
    <2>1. e.job \in Jobs /\ IsLive(e.job) /\ e.on \in Jobs
      BY <1>1, GroupPolicy, Zenon DEF WorkflowInv, EdgesLive
    <2> QED
      BY <1>1, <2>1, EndingSets DEF WorkflowInv, LiveJobs
  <1>3. ~Completes(batch')
    BY <1>2, EndingCounts, Zenon DEF Completes
  <1>4. Group(e)' = Group(e)
    BY <1>1, Zenon DEF Group, Recording
  <1>5. results' = RecordedIn(all)
    BY <1>3, Zenon DEF Recording
  <1> QED
    BY <1>1, <1>2, <1>3, <1>4, <1>5, Zenon DEF RecordedIn

LEMMA EndingResults ==
    ASSUME WorkflowInv, NEW all, Ending(all), Recording(all)
    PROVE  ResultsMatch' /\ EdgesLive' /\ CheckDependencies(edges')
  <1>1. EdgesLive'
    BY EdgesLeft, Zenon DEF EdgesLive, LiveJobs
  <1>2. CheckDependencies(edges')
    <2>1. edges' \subseteq edges
      BY Zenon DEF Recording
    <2> QED
      BY <2>1, Zenon DEF CheckDependencies, WorkflowInv
  <1>3. ASSUME NEW e \in edges', e.reads \/ e.anyOf # 0
        PROVE  results'[e.on] = IF state'[e.on] \in Live THEN "none" ELSE state'[e.on]
    <2>1. e \in edges /\ (results'[e.on] = IF e.on \in all THEN state'[e.on] ELSE results[e.on])
      BY <1>3, EdgesLeft, Zenon DEF Recorded
    <2>2. e.on \in Jobs /\ results[e.on] = IF IsLive(e.on) THEN "none" ELSE state[e.on]
      BY <1>3, <2>1, GroupPolicy, Zenon DEF WorkflowInv, ResultsMatch
    <2>3. CASE e.on \in all
      BY <2>1, <2>3, Zenon DEF Ending, Terminal, Failed, Live
    <2>4. CASE e.on \notin all
      <3>1. state'[e.on] \in Live <=> IsLive(e.on)
        BY <2>2, <2>4, Zenon DEF Ending, IsLive, Live
      <3>2. ~IsLive(e.on) => state'[e.on] = state[e.on]
        BY <2>2, <2>4, Zenon DEF Ending, IsLive, Live
      <3> QED
        BY <2>1, <2>2, <2>4, <3>1, <3>2, Zenon
    <2> QED
      BY <2>3, <2>4, Zenon
  <1>4. ResultsMatch'
    BY <1>3, Zenon DEF ResultsMatch, IsLive
  <1> QED
    BY <1>1, <1>2, <1>4, Zenon

\* What the results say of a group's jobs that are not live any more.
LEMMA EndingGroup ==
    ASSUME WorkflowInv, NEW all, Ending(all), Recording(all), NEW e \in edges', e.anyOf # 0, NEW s \in Group(e)
    PROVE  /\ s \in edges' /\ s.on \in Jobs
           /\ s.on \notin LiveJobs' => /\ state'[s.on] \in Terminal
                                       /\ results'[s.on] = state'[s.on] /\ RecordedIn(all)[s.on] = state'[s.on]
           /\ Satisfied(s, LiveJobs', results') <=> s.on \notin LiveJobs' /\ state'[s.on] = "completed"
           /\ Satisfied(s, LiveJobs', RecordedIn(all)) <=> s.on \notin LiveJobs' /\ state'[s.on] = "completed"
  <1>1. e \in edges /\ e.job \notin all
    BY EdgesLeft, Zenon
  <1>2. s \in edges /\ s.job = e.job /\ s.anyOf # 0 /\ s.on \in Jobs
    BY <1>1, GroupPolicy, Zenon DEF WorkflowInv
  <1>3. s \in edges'
    BY <1>1, <1>2, Zenon DEF Recording
  <1>4. results' = RecordedIn(all)
    BY EdgesLeft, Zenon DEF Recording
  <1>5. ASSUME s.on \notin LiveJobs' PROVE state'[s.on] \in Terminal /\ results'[s.on] = state'[s.on]
    <2>1. Inserted' /\ state' \in [Jobs -> {"absent"} \cup Live \cup Terminal]
      BY EndingSets, Zenon DEF WorkflowInv, Ending
    <2>2. state'[s.on] \notin Live
      BY <1>2, <1>5, Zenon DEF LiveJobs, IsLive
    <2>3. state'[s.on] \in Terminal
      BY <1>2, <2>1, <2>2, Zenon DEF Inserted
    <2>4. ResultsMatch'
      BY EndingResults, Zenon
    <2>5. results'[s.on] = IF state'[s.on] \in Live THEN "none" ELSE state'[s.on]
      BY <1>2, <1>3, <2>4, Zenon DEF ResultsMatch, IsLive
    <2> QED
      BY <2>2, <2>3, <2>5, Zenon
  <1> QED
    BY <1>2, <1>3, <1>4, <1>5, Zenon DEF Satisfied, Terminal, Failed

LEMMA EndingCascades ==
    ASSUME WorkflowInv, NEW all, Ending(all), Recording(all), Sparing(all)
    PROVE  FailureCascades'
  <1> SUFFICES ASSUME NEW e \in edges', state'[e.job] = "pending"
               PROVE  /\ e.policy = "cancel" => state'[e.on] \notin Failed
                      /\ e.policy = "any_cancel" => \E s \in Group(e) : state'[s.on] \notin Failed
    <2>1. \A e \in edges' : Group(e)' = Group(e)
      BY EdgesLeft, Zenon
    <2> QED
      BY <2>1, Zenon DEF FailureCascades
  <1>0. e \in edges /\ e.job \in Jobs /\ e.on \in Jobs /\ e.job \notin all /\ state[e.job] = "pending"
    BY EdgesLeft, GroupPolicy, EndingSets, Zenon DEF WorkflowInv
  <1>1. ASSUME e.policy = "cancel", state'[e.on] \in Failed PROVE FALSE
    <2>1. e.on \notin all
      BY <1>0, <1>1, Zenon DEF Sparing
    <2>2. state[e.on] \in Failed
      BY <1>0, <1>1, <2>1, Zenon DEF Ending, Failed
    <2> QED
      BY <1>0, <1>1, <2>2, Zenon DEF WorkflowInv, FailureCascades
  <1>2. ASSUME e.policy = "any_cancel", \A s \in Group(e) : state'[s.on] \in Failed PROVE FALSE
    <2>0. e.anyOf # 0
      BY <1>0, <1>2, GroupPolicy, Zenon DEF WorkflowInv
    <2>1. PICK s \in Group(e) : state[s.on] \notin Failed
      BY <1>0, <1>2, Zenon DEF WorkflowInv, FailureCascades
    <2>2. s \in edges /\ s.job = e.job /\ s.policy = "any_cancel" /\ Group(s) = Group(e) /\ s.on \in Jobs
      BY <1>0, <1>2, <2>0, GroupPolicy, Zenon DEF WorkflowInv
    <2>3. s.on \in all
      BY <1>2, <2>1, <2>2, Zenon DEF Ending, Failed
    <2>4. ~Exhausted(s, LiveJobs', RecordedIn(all))
      BY <1>0, <1>2, <2>2, <2>3, Zenon DEF Sparing
    <2>5. ASSUME NEW t \in Group(e) PROVE t.on \notin LiveJobs' /\ ~Satisfied(t, LiveJobs', RecordedIn(all))
      <3>1. state'[t.on] \in Failed
        BY <1>2, Zenon
      <3>2. t.on \notin LiveJobs' /\ state'[t.on] # "completed"
        BY <3>1, Zenon DEF LiveJobs, IsLive, Live, Failed
      <3> QED
        BY <2>0, <3>2, EndingGroup, Zenon
    <2> QED
      BY <2>2, <2>4, <2>5, Zenon DEF Exhausted
  <1> QED
    BY <1>1, <1>2, Zenon


LEMMA EndingHeld ==
    ASSUME WorkflowInv, NEW all, Ending(all), Recording(all), Sparing(all), Promoting(all)
    PROVE  PendingIsHeld'
  <1> SUFFICES ASSUME NEW j \in Jobs, state'[j] = "pending"
               PROVE  \E e \in edges' : /\ e.job = j
                                        /\ e.on \in LiveJobs'
                                        /\ e.anyOf # 0 => \A s \in Group(e) : s.on \notin LiveJobs' => state'[s.on] \in Failed
    <2>1. \A e \in edges' : Group(e)' = Group(e) /\ (e.on \in LiveJobs' <=> IsLive(e.on)')
      BY EdgesLeft, GroupPolicy, Zenon DEF LiveJobs, WorkflowInv
    <2>2. \A e \in edges' : \A s \in Group(e) : s.on \in LiveJobs' <=> IsLive(s.on)'
      BY EdgesLeft, GroupPolicy, Zenon DEF LiveJobs, WorkflowInv
    <2> QED
      BY <2>1, <2>2 DEF PendingIsHeld
  <1>0. state[j] = "pending" /\ j \notin all /\ LiveJobs' = LiveJobs \ all
    BY EndingSets, Zenon DEF WorkflowInv
  <1>1. CASE \A e \in edges : e.job = j => e.on \notin all
    <2>1. PICK e \in edges : /\ e.job = j
                             /\ IsLive(e.on)
                             /\ e.anyOf # 0 => \A s \in Group(e) : ~IsLive(s.on) => state[s.on] \in Failed
      BY <1>0, Zenon DEF WorkflowInv, PendingIsHeld
    <2>2. e \in edges' /\ e.on \in Jobs /\ e.on \in LiveJobs'
      BY <1>0, <1>1, <2>1, GroupPolicy, Zenon DEF Recording, WorkflowInv, LiveJobs
    <2>3. ASSUME e.anyOf # 0, NEW s \in Group(e), s.on \notin LiveJobs' PROVE state'[s.on] \in Failed
      <3>1. s \in edges /\ s.job = j /\ s.on \in Jobs /\ s.on \notin all
        BY <1>1, <2>1, GroupPolicy, Zenon DEF WorkflowInv
      <3>2. ~IsLive(s.on) /\ s.on \in Jobs \ LiveJobs
        BY <1>0, <2>3, <3>1, Zenon DEF LiveJobs
      <3>3. state[s.on] \in Failed /\ state'[s.on] = state[s.on]
        BY <2>1, <2>3, <3>2, EndingSets, Zenon DEF WorkflowInv
      <3> QED
        BY <3>3, Zenon
    <2> QED
      BY <2>1, <2>2, <2>3, Zenon
  <1>2. CASE \E e \in edges : e.job = j /\ e.on \in all
    <2>1. ~Ready(j, LiveJobs', results')
      BY <1>0, <1>2, Zenon DEF Promoting
    <2>2. PICK e \in edges :
            /\ e.job = j
            /\ ~IF e.anyOf = 0 THEN e.on \notin LiveJobs'
                ELSE e.policy = "any_cancel" \/ e.on \in LiveJobs'
                        => \E s \in Group(e) : Satisfied(s, LiveJobs', results')
      BY <2>1, Zenon DEF Ready
    <2>3. e \in edges' /\ e \in Group(e)
      BY <1>0, <2>2, Zenon DEF Recording, Group
    <2>4. CASE e.anyOf = 0
      BY <2>2, <2>3, <2>4, Zenon
    <2>5. CASE e.anyOf # 0
      <3>1. /\ e.policy = "any_cancel" \/ e.on \in LiveJobs'
            /\ \A s \in Group(e) : ~Satisfied(s, LiveJobs', results')
        BY <2>2, <2>5, Zenon
      <3>2. \A s \in Group(e) : s.on \notin LiveJobs' => state'[s.on] \in Failed
        BY <2>3, <2>5, <3>1, EndingGroup, Zenon DEF Terminal
      <3>3. CASE \E s \in Group(e) : s.on \in LiveJobs'
        <4>1. PICK s \in Group(e) : s.on \in LiveJobs'
          BY <3>3, Zenon
        <4>2. s \in edges' /\ s.job = j /\ Group(s) = Group(e)
          BY <2>2, <2>3, <2>5, EndingGroup, GroupPolicy, Zenon DEF WorkflowInv
        <4> QED
          BY <3>2, <4>1, <4>2, Zenon
      <3>4. CASE \A s \in Group(e) : s.on \notin LiveJobs'
        <4>1. e.policy = "any_cancel" /\ \A s \in Group(e) : state'[s.on] \in Failed
          BY <2>3, <3>1, <3>2, <3>4, Zenon
        <4>2. FailureCascades' /\ Group(e)' = Group(e)
          BY <2>3, EndingCascades, EdgesLeft, Zenon
        <4> QED
          BY <2>2, <2>3, <4>1, <4>2, Zenon DEF FailureCascades
      <3> QED
        BY <3>3, <3>4, Zenon
    <2> QED
      BY <2>4, <2>5, Zenon
  <1> QED
    BY <1>1, <1>2, Zenon

LEMMA EndingPromotes ==
    ASSUME WorkflowInv, NEW all, Ending(all), Recording(all), Promoting(all)
    PROVE  PromotionIsSound
  <1> SUFFICES ASSUME NEW j \in Jobs, state[j] = "pending", state'[j] = "waiting", NEW e \in edges, e.job = j
               PROVE  IF e.anyOf = 0 THEN state'[e.on] \in Terminal
                      ELSE \/ \E s \in Group(e) : state'[s.on] = "completed"
                           \/ e.policy = "any_ignore" /\ \A s \in Group(e) : state'[s.on] \in Failed
    BY Zenon DEF PromotionIsSound
  <1>1. j \notin all /\ Ready(j, LiveJobs', results')
    BY Zenon DEF Ending, Promoting, Terminal, Failed
  <1>2. e \in edges' /\ e.on \in Jobs /\ e.policy \in Policies /\ (e.anyOf = 0 <=> e.policy \in {"cancel", "ignore"})
    BY <1>1, GroupPolicy, Zenon DEF Recording, WorkflowInv
  <1>3. \A i \in Jobs : i \notin LiveJobs' => state'[i] \in Terminal
    <2>1. Inserted' /\ state' \in [Jobs -> {"absent"} \cup Live \cup Terminal]
      BY EndingSets, Zenon DEF WorkflowInv, Ending
    <2> QED
      BY <2>1, Zenon DEF Inserted, LiveJobs, IsLive
  <1>4. CASE e.anyOf = 0
    <2>1. e.on \notin LiveJobs'
      BY <1>1, <1>4, Zenon DEF Ready
    <2> QED
      BY <1>2, <1>3, <1>4, <2>1, Zenon
  <1>5. CASE e.anyOf # 0
    <2>1. \A s \in Group(e) : /\ s \in edges /\ s.job = j /\ s.anyOf # 0 /\ Group(s) = Group(e) /\ s.on \in Jobs
                              /\ Satisfied(s, LiveJobs', results') => state'[s.on] = "completed"
      BY <1>2, <1>5, EndingGroup, GroupPolicy, Zenon DEF WorkflowInv
    <2>2. CASE e.policy = "any_cancel" \/ \E s \in Group(e) : s.on \in LiveJobs'
      <3>1. \E s \in Group(e) : Satisfied(s, LiveJobs', results')
        BY <1>1, <1>5, <2>1, <2>2, Zenon DEF Ready
      <3> QED
        BY <1>5, <2>1, <3>1, Zenon
    <2>3. CASE e.policy # "any_cancel" /\ \A s \in Group(e) : s.on \notin LiveJobs'
      <3>1. e.policy = "any_ignore"
        BY <1>2, <1>5, <2>3, Zenon DEF Policies
      <3>2. \A s \in Group(e) : state'[s.on] \in Terminal
        BY <1>3, <2>1, <2>3, Zenon
      <3> QED
        BY <1>5, <3>1, <3>2, Zenon DEF Terminal
    <2> QED
      BY <2>2, <2>3, Zenon
  <1> QED
    BY <1>4, <1>5, Zenon

\* The steps a finish may not take, and what it keeps.
StepSound == CallbackMatches /\ CompletedIsFinal /\ PromotionIsSound

LEMMA EndingKeeps ==
    ASSUME WorkflowInv, overrides' = overrides, NEW all, Ending(all), Recording(all), Sparing(all), Promoting(all)
    PROVE  WorkflowInv' /\ StepSound
  <1>0. /\ Inserted' /\ all \in SUBSET Jobs
        /\ \A j \in Jobs \ LiveJobs : state'[j] = state[j]
    BY EndingSets, Zenon DEF WorkflowInv
  <1>1. /\ batch' \in Batch
        /\ batch.completed => batch' = batch
        /\ ~batch.completed => /\ batch'.failed = Cardinality(FailedJobs')
                               /\ batch'.completed <=> LiveJobs' = {}
                               /\ ~batch'.completed => batch'.pending = Cardinality(LiveJobs')
    BY EndingCounts, Zenon
  <1>2. /\ CallbackMatches /\ CompletedIsFinal
        /\ ~batch'.completed => callbacks' = NoCallbacks
        /\ callbacks' \in [{"success", "failure", "complete"} -> Nat]
    BY EndingCallbacks, Zenon
  <1>3. WorkflowTypeOK'
    <2>1. state' \in [Jobs -> {"absent"} \cup Live \cup Terminal] /\ \A j \in all : state'[j] \in Terminal
      BY Zenon DEF Ending
    <2>2. archived' \subseteq {j \in Jobs : state'[j] \in Terminal}
      <3>1. PICK keep \in SUBSET all : archived' = archived \cup keep
        BY Zenon DEF Recording
      <3>2. \A j \in archived : j \in Jobs \ LiveJobs /\ state[j] \in Terminal
        BY Zenon DEF WorkflowInv, WorkflowTypeOK, LiveJobs, IsLive, Live, Terminal, Failed
      <3> QED
        BY <1>0, <2>1, <3>1, <3>2, Zenon
    <2>3. edges' \in SUBSET Edge
      BY Zenon DEF Recording, WorkflowInv, WorkflowTypeOK
    <2>4. results' \in [Jobs -> {"none"} \cup Terminal]
      <3>1. results \in [Jobs -> {"none"} \cup Terminal]
        BY Zenon DEF WorkflowInv, WorkflowTypeOK
      <3>2. RecordedIn(all) \in [Jobs -> {"none"} \cup Terminal]
        BY <2>1, <3>1, Zenon DEF RecordedIn
      <3> QED
        BY <3>2, Zenon DEF Recording
    <2>5. overrides' \in 0..MaxOverrides
      BY Zenon DEF WorkflowInv, WorkflowTypeOK
    <2> QED
      BY <1>1, <1>2, <2>1, <2>2, <2>3, <2>4, <2>5, Zenon DEF WorkflowTypeOK
  <1>4. Over'
    <2>1. CASE batch.completed
      <3>1. edges = {} /\ (\A j \in Jobs : results[j] = "none") /\ batch' = batch
        BY <1>1, <2>1, Zenon DEF WorkflowInv, Over
      <3>2. edges' = {} /\ ~Completes(batch') /\ \A j \in Jobs : ~Recorded(j)
        BY <2>1, <3>1, Zenon DEF Recording, Completes, Recorded
      <3>3. results' = RecordedIn(all)
        BY <3>2, Zenon DEF Recording
      <3> QED
        BY <3>1, <3>2, <3>3, Zenon DEF Over, RecordedIn
    <2>2. CASE ~batch.completed /\ batch'.completed
      <3>1. Completes(batch')
        BY <2>2, Zenon DEF Completes
      <3>2. edges' = {}
        BY <3>1, EdgesLeft, Zenon
      <3>3. results' = [j \in Jobs |-> "none"]
        BY <3>1, Zenon DEF Recording
      <3> QED
        BY <3>2, <3>3, Zenon DEF Over
    <2>3. CASE ~batch.completed /\ ~batch'.completed
      BY <2>3, Zenon DEF Over
    <2> QED
      BY <2>1, <2>2, <2>3, Zenon
  <1>5. BatchCounts'
    <2>1. ~batch'.completed => ~batch.completed
      BY <1>1, Zenon
    <2>2. FailedJobs' = {j \in Jobs : state'[j] \in Failed}
      BY Zenon DEF FailedJobs
    <2> QED
      BY <1>1, <2>1, <2>2, Zenon DEF BatchCounts
  <1>6. ResultsMatch' /\ EdgesLive' /\ CheckDependencies(edges')
    BY EndingResults, Zenon
  <1>7. PendingIsHeld' /\ FailureCascades'
    BY EndingHeld, EndingCascades, Zenon
  <1>8. PromotionIsSound
    BY EndingPromotes, Zenon
  <1>9. CheckDependencies(edges)'
    BY <1>6, Zenon DEF CheckDependencies
  <1> QED
    BY <1>0, <1>2, <1>3, <1>4, <1>5, <1>6, <1>7, <1>8, <1>9, Zenon DEF WorkflowInv, StepSound


LEMMA FinishKeeps ==
    ASSUME WorkflowInv, overrides' = overrides, NEW done \in SUBSET LiveJobs, done # {},
           NEW out, \A j \in done : out[j] \in Terminal, NEW keep \in SUBSET done, Finish(done, out, keep)
    PROVE  WorkflowInv' /\ StepSound
  <1>1. PICK all \in SUBSET LiveJobs : Ending(all) /\ Promoting(all) /\ Sparing(all) /\ Recording(all)
    BY FinishIs, Zenon DEF WorkflowInv
  <1> QED
    BY <1>1, EndingKeeps, Zenon

LEMMA FinishesKeep ==
    ASSUME WorkflowInv, Finalize \/ JobDiscardExpired \/ \E j \in Jobs : JobCancel(j) \/ JobDelete(j)
    PROVE  WorkflowInv' /\ StepSound
  <1>1. CASE Finalize
    <2>1. PICK done \in (SUBSET {j \in Jobs : state[j] = "running"}) \ {{}} :
            \E out \in [done -> Terminal] :
              \E keep \in {done, {j \in done : out[j] \in Failed}} : Finish(done, out, keep)
      BY <1>1, Zenon DEF Finalize
    <2>2. PICK out \in [done -> Terminal] :
            \E keep \in {done, {j \in done : out[j] \in Failed}} : Finish(done, out, keep)
      BY <2>1, Zenon
    <2>3. PICK keep \in SUBSET done : Finish(done, out, keep)
      BY <2>2, Zenon
    <2>4. done \in SUBSET LiveJobs /\ done # {} /\ overrides' = overrides /\ \A j \in done : out[j] \in Terminal
      BY <1>1, Zenon DEF LiveJobs, IsLive, Live, Finalize
    <2> QED
      BY <2>3, <2>4, FinishKeeps, Zenon
  <1>2. CASE JobDiscardExpired
    <2>1. PICK done \in (SUBSET {j \in Jobs : state[j] = "waiting"}) \ {{}} :
            Finish(done, [j \in done |-> "discarded"], done)
      BY <1>2, Zenon DEF JobDiscardExpired
    <2> DEFINE out == [j \in done |-> "discarded"]
    <2>2. done \in SUBSET LiveJobs /\ done # {} /\ overrides' = overrides /\ \A j \in done : out[j] \in Terminal
      BY <1>2, Zenon DEF LiveJobs, IsLive, Live, JobDiscardExpired, Terminal, Failed
    <2> HIDE DEF out
    <2>3. Finish(done, out, done)
      BY <2>1, Zenon DEF out
    <2> QED
      BY <2>2, <2>3, FinishKeeps, Zenon
  <1>3. ASSUME NEW j \in Jobs, JobCancel(j) \/ JobDelete(j) PROVE WorkflowInv' /\ StepSound
    <2> DEFINE out == [i \in {j} |-> "canceled"]
    <2>1. {j} \in SUBSET LiveJobs /\ {j} # {} /\ overrides' = overrides /\ \A i \in {j} : out[i] \in Terminal
      BY <1>3, Zenon DEF LiveJobs, IsLive, Live, JobCancel, JobDelete, Terminal, Failed
    <2> HIDE DEF out
    <2>2. PICK keep \in SUBSET {j} : Finish({j}, out, keep)
      BY <1>3, Zenon DEF JobCancel, JobDelete, out
    <2> QED
      BY <2>1, <2>2, FinishKeeps, Zenon
  <1> QED
    BY <1>1, <1>2, <1>3, Zenon

LEMMA InsertKeeps == ASSUME WorkflowInv, WorkflowInsert PROVE WorkflowInv' /\ StepSound
  <1>0. 1 \in Jobs /\ Cardinality(Jobs) = N /\ N \in Nat
    BY WorkflowAssumption, FS_Interval DEF Jobs
  <1>1. Absent
    BY <1>0, Zenon DEF WorkflowInsert, WorkflowInv, Inserted
  <1>2. PICK deps \in Graphs :
          /\ CheckDependencies(deps)
          /\ edges' = deps
          /\ state' = [j \in Jobs |-> IF \E d \in deps : d.job = j THEN "pending" ELSE "waiting"]
    BY Zenon DEF WorkflowInsert
  <1>3. deps \in SUBSET Edge
    BY WorkflowAssumption, Zenon
  <1>4. \A j \in Jobs : state'[j] \in {"pending", "waiting"} /\ (state'[j] = "pending" => \E d \in deps : d.job = j)
    BY <1>2, Zenon
  <1>5. batch' = [pending |-> N, failed |-> 0, completed |-> FALSE]
    BY <1>1, Zenon DEF WorkflowInsert, Absent
  <1>6. LiveJobs' = Jobs /\ {j \in Jobs : state'[j] \in Failed} = {} /\ Inserted'
    BY <1>4, Zenon DEF LiveJobs, IsLive, Live, Failed, Inserted
  <1>7. \A e \in edges' : e.job \in Jobs /\ e.on \in Jobs
    BY <1>2, <1>3, Zenon DEF Edge
  <1>8. \A e \in edges' : \A s \in Group(e)' : s.on \in Jobs /\ s \in edges'
    BY <1>7, Zenon DEF Group
  <1>9. \A j \in Jobs : IsLive(j)' /\ state'[j] \notin Failed
    BY <1>4, Zenon DEF IsLive, Live, Failed
  <1>10. archived = {}
    BY <1>1, Zenon DEF WorkflowInv, WorkflowTypeOK, Absent, Terminal, Failed
  <1>11. WorkflowTypeOK'
    <2>1. state' \in [Jobs -> {"absent"} \cup Live \cup Terminal]
      BY <1>2, Zenon DEF Live
    <2>2. batch' \in Batch
      BY <1>0, <1>5 DEF Batch
    <2> QED
      BY <1>2, <1>3, <1>10, <2>1, <2>2, Zenon DEF WorkflowTypeOK, WorkflowInsert, WorkflowInv
  <1>12. BatchCounts'
    BY <1>0, <1>5, <1>6, FS_EmptySet, Zenon DEF BatchCounts
  <1>13. PendingIsHeld'
    BY <1>2, <1>4, <1>7, <1>8, <1>9, Zenon DEF PendingIsHeld
  <1>14. FailureCascades'
    <2>1. ASSUME NEW e \in edges' PROVE e \in Group(e)'
      BY Zenon DEF Group
    <2> QED
      BY <1>7, <1>9, <2>1, Zenon DEF FailureCascades
  <1>15. ResultsMatch'
    BY <1>1, <1>7, <1>9, Zenon DEF ResultsMatch, WorkflowInsert, Absent
  <1>16. CheckDependencies(edges)' /\ EdgesLive' /\ Over'
    <2>1. CheckDependencies(edges)'
      BY <1>2, Zenon DEF CheckDependencies
    <2>2. EdgesLive'
      BY <1>7, <1>9, Zenon DEF EdgesLive
    <2> QED
      BY <1>5, <2>1, <2>2, Zenon DEF Over
  <1>17. callbacks' = NoCallbacks
    BY <1>1, Zenon DEF Absent, WorkflowInv, WorkflowInsert
  <1>18. StepSound
    BY <1>1, <1>5, Zenon DEF StepSound, CallbackMatches, Completes, CompletedIsFinal, PromotionIsSound, Absent
  <1> QED
    BY <1>6, <1>11, <1>12, <1>13, <1>14, <1>15, <1>16, <1>17, <1>18, Zenon DEF WorkflowInv

\* A live job that moves on, and none that a finish made wait for.
LEMMA MoveKeeps ==
    ASSUME WorkflowInv, NEW j \in Jobs, IsLive(j), NEW to \in {"waiting", "running"},
           state' = [state EXCEPT ![j] = to], UNCHANGED <<archived, edges, results, batch, callbacks>>,
           overrides' \in 0..MaxOverrides, state[j] = "pending" /\ to = "waiting" => overrides' # overrides
    PROVE  WorkflowInv' /\ StepSound
  <1>0. state \in [Jobs -> {"absent"} \cup Live \cup Terminal]
    BY Zenon DEF WorkflowInv, WorkflowTypeOK
  <1>1. state' \in [Jobs -> {"absent"} \cup Live \cup Terminal]
    BY <1>0, Zenon DEF Live
  <1>2. /\ state'[j] = to /\ \A i \in Jobs \ {j} : state'[i] = state[i]
        /\ \A i \in Jobs : /\ IsLive(i)' <=> IsLive(i)
                           /\ state'[i] \in Failed <=> state[i] \in Failed
                           /\ ~IsLive(i) => state'[i] = state[i]
                           /\ state'[i] = "pending" => state[i] = "pending"
                           /\ state'[i] \in Terminal <=> state[i] \in Terminal
                           /\ state'[i] # "absent" <=> state[i] # "absent"
    BY <1>0, Zenon DEF IsLive, Live, Failed, Terminal
  <1>3. \A e : Group(e)' = Group(e)
    BY Zenon DEF Group
  <1>4. \A e \in edges : e.job \in Jobs /\ e.on \in Jobs /\ \A s \in Group(e) : s.on \in Jobs
    BY GroupPolicy, Zenon DEF WorkflowInv
  <1>5. LiveJobs' = LiveJobs /\ {i \in Jobs : state'[i] \in Failed} = {i \in Jobs : state[i] \in Failed}
    BY <1>2, Zenon DEF LiveJobs
  <1>6. Inserted' \/ Absent'
    <2>1. Inserted
      BY Zenon DEF WorkflowInv, Absent, IsLive, Live
    <2> QED
      BY <1>2, <2>1, Zenon DEF Inserted
  <1>7. WorkflowTypeOK'
    <2>1. archived' \subseteq {i \in Jobs : state'[i] \in Terminal}
      BY <1>2, Zenon DEF WorkflowInv, WorkflowTypeOK
    <2> QED
      BY <1>1, <2>1, Zenon DEF WorkflowInv, WorkflowTypeOK
  <1>8. BatchCounts'
    BY <1>2, <1>5, Zenon DEF WorkflowInv, BatchCounts, Inserted
  <1>9. PendingIsHeld'
    BY <1>2, <1>3, <1>4 DEF WorkflowInv, PendingIsHeld
  <1>10. FailureCascades'
    BY <1>2, <1>3, <1>4 DEF WorkflowInv, FailureCascades
  <1>11. ResultsMatch'
    BY <1>2, <1>4, Zenon DEF WorkflowInv, ResultsMatch
  <1>12. EdgesLive' /\ CheckDependencies(edges)' /\ Over'
    BY <1>2, <1>4, Zenon DEF WorkflowInv, EdgesLive, CheckDependencies, Over
  <1>13. StepSound
    BY <1>2, Zenon DEF StepSound, CallbackMatches, Completes, CompletedIsFinal, PromotionIsSound
  <1> QED
    BY <1>6, <1>7, <1>8, <1>9, <1>10, <1>11, <1>12, <1>13, ZenonT(30) DEF WorkflowInv

LEMMA MovesKeep ==
    ASSUME WorkflowInv, NEW j \in Jobs, Claim(j) \/ Requeue(j) \/ JobRetryWaiting(j)
    PROVE  WorkflowInv' /\ StepSound
  <1>0. overrides \in 0..MaxOverrides /\ MaxOverrides \in Nat
    BY WorkflowAssumption, Zenon DEF WorkflowInv, WorkflowTypeOK
  <1>1. CASE Claim(j)
    <2>1. /\ state' = [state EXCEPT ![j] = "running"] /\ UNCHANGED <<archived, edges, results, batch, callbacks>>
          /\ overrides' \in 0..MaxOverrides /\ IsLive(j)
      BY <1>0, <1>1, Zenon DEF Claim, IsLive, Live
    <2> QED
      BY <2>1, MoveKeeps, Zenon
  <1>2. CASE Requeue(j) \/ JobRetryWaiting(j)
    <2>1. /\ state' = [state EXCEPT ![j] = "waiting"] /\ UNCHANGED <<archived, edges, results, batch, callbacks>>
          /\ IsLive(j) /\ overrides' = overrides + 1 /\ overrides < MaxOverrides
      BY <1>2, Zenon DEF Requeue, JobRetryWaiting, IsLive, Live
    <2>2. overrides' \in 0..MaxOverrides /\ overrides' # overrides
      BY <1>0, <2>1
    <2> QED
      BY <2>1, <2>2, MoveKeeps, Zenon
  <1> QED
    BY <1>1, <1>2, Zenon

LEMMA DeleteHistoryKeeps ==
    ASSUME WorkflowInv, NEW j \in Jobs, JobDeleteHistory(j) PROVE WorkflowInv' /\ StepSound
  <1>1. /\ state' = state /\ edges' = edges /\ results' = results /\ batch' = batch /\ callbacks' = callbacks
        /\ overrides' = overrides /\ archived' \subseteq archived
    BY Zenon DEF JobDeleteHistory
  <1>2. WorkflowTypeOK'
    BY <1>1, ZenonT(30) DEF WorkflowInv, WorkflowTypeOK
  <1>3. (BatchCounts /\ PendingIsHeld /\ FailureCascades /\ ResultsMatch)'
    BY <1>1 DEF WorkflowInv, BatchCounts, PendingIsHeld, FailureCascades, ResultsMatch, Inserted, LiveJobs, IsLive, Group
  <1>4. (CheckDependencies(edges) /\ EdgesLive /\ (Inserted \/ Absent) /\ Over /\ (~batch.completed => callbacks = NoCallbacks))'
    BY <1>1, Zenon DEF WorkflowInv, CheckDependencies, EdgesLive, Inserted, Absent, Over, IsLive
  <1>5. StepSound
    BY <1>1, Zenon DEF StepSound, CallbackMatches, Completes, CompletedIsFinal, PromotionIsSound
  <1> QED
    BY <1>2, <1>3, <1>4, <1>5, Zenon DEF WorkflowInv


LEMMA RetryKeeps ==
    ASSUME WorkflowInv, NEW j \in Jobs, JobRetryHistory(j) PROVE WorkflowInv' /\ StepSound
  <1>0. /\ state \in [Jobs -> {"absent"} \cup Live \cup Terminal] /\ results \in [Jobs -> {"none"} \cup Terminal]
        /\ batch \in Batch /\ overrides \in 0..MaxOverrides /\ MaxOverrides \in Nat
    BY WorkflowAssumption, Zenon DEF WorkflowInv, WorkflowTypeOK
  <1>1. state[j] \in Terminal /\ Inserted
    BY Zenon DEF JobRetryHistory, WorkflowInv, WorkflowTypeOK, Absent, Terminal, Failed
  <1>2. /\ state' = [state EXCEPT ![j] = "waiting"] /\ results' = [results EXCEPT ![j] = "none"]
        /\ archived' = archived \ {j} /\ batch' = Recounted(batch, j)
        /\ edges' = edges /\ callbacks' = callbacks
        /\ overrides' = overrides + 1 /\ overrides < MaxOverrides
    BY Zenon DEF JobRetryHistory
  <1>3. /\ state'[j] = "waiting" /\ results'[j] = "none"
        /\ \A i \in Jobs \ {j} : state'[i] = state[i] /\ results'[i] = results[i]
    BY <1>0, <1>2, Zenon
  <1>4. IsLive(j)' /\ ~IsLive(j) /\ \A i \in Jobs \ {j} : IsLive(i)' <=> IsLive(i)
    BY <1>1, <1>3, Zenon DEF IsLive, Live, Terminal, Failed
  <1>5. \A e : Group(e)' = Group(e)
    BY <1>2, Zenon DEF Group
  <1>6. \A e \in edges : e.job \in Jobs /\ e.on \in Jobs /\ e.job # j /\ \A s \in Group(e) : s.on \in Jobs
    BY <1>4, GroupPolicy, Zenon DEF WorkflowInv, EdgesLive
  <1>7. Inserted'
    BY <1>1, <1>3, Zenon DEF Inserted
  <1>8. LiveJobs' = LiveJobs \cup {j} /\ j \notin LiveJobs
    BY <1>4, Zenon DEF LiveJobs
  <1>9. FailedJobs' = FailedJobs \ {j} /\ (j \in FailedJobs <=> state[j] \in Failed)
    BY <1>3, Zenon DEF FailedJobs, Failed
  <1>10. /\ Cardinality(LiveJobs') = Cardinality(LiveJobs) + 1
         /\ Cardinality(FailedJobs') = IF state[j] \in Failed THEN Cardinality(FailedJobs) - 1 ELSE Cardinality(FailedJobs)
         /\ Cardinality(LiveJobs) \in Nat /\ Cardinality(FailedJobs) \in Nat
    <2>1. LiveJobs \in SUBSET Jobs /\ FailedJobs \in SUBSET Jobs
      BY Zenon DEF LiveJobs, FailedJobs
    <2>2. IsFiniteSet(LiveJobs) /\ IsFiniteSet(FailedJobs) /\ Cardinality(LiveJobs) \in Nat /\ Cardinality(FailedJobs) \in Nat
      BY <2>1, JobsFinite, Zenon
    <2>3. Cardinality(LiveJobs \cup {j}) = Cardinality(LiveJobs) + 1
      BY <1>8, <2>2, FS_AddElement, Zenon
    <2>4. Cardinality(FailedJobs \ {j}) = IF j \in FailedJobs THEN Cardinality(FailedJobs) - 1 ELSE Cardinality(FailedJobs)
      BY <2>2, FS_RemoveElement, Zenon
    <2> QED
      BY <1>8, <1>9, <2>2, <2>3, <2>4, Zenon
  <1>11. /\ batch' \in Batch /\ batch'.completed = batch.completed
         /\ batch.completed => batch' = batch
         /\ ~batch.completed => /\ batch'.pending = batch.pending + 1
                                /\ batch'.failed = IF state[j] \in Failed THEN batch.failed - 1 ELSE batch.failed
    <2>1. CASE batch.completed
      BY <1>0, <1>2, <2>1, Zenon DEF Recounted
    <2>2. CASE ~batch.completed
      <3> DEFINE p == batch.pending + 1
                 f == IF state[j] \in Failed THEN batch.failed - 1 ELSE batch.failed
      <3>1. batch' = [batch EXCEPT !.pending = p, !.failed = f]
        BY <1>2, <2>2, Zenon DEF Recounted
      <3>2. p \in Int /\ f \in Int
        BY <1>0 DEF Batch
      <3> HIDE DEF p, f
      <3>3. batch' \in Batch /\ batch'.completed = batch.completed /\ batch'.pending = p /\ batch'.failed = f
        BY <1>0, <3>1, <3>2, Zenon DEF Batch
      <3> QED
        BY <2>2, <3>3, Zenon DEF p, f
    <2> QED
      BY <2>1, <2>2, Zenon
  <1>12. WorkflowTypeOK'
    <2>1. state' \in [Jobs -> {"absent"} \cup Live \cup Terminal] /\ results' \in [Jobs -> {"none"} \cup Terminal]
      BY <1>0, <1>2, Zenon DEF Live
    <2>2. archived' \subseteq {i \in Jobs : state'[i] \in Terminal}
      BY <1>2, <1>3, Zenon DEF WorkflowInv, WorkflowTypeOK
    <2>3. overrides' \in 0..MaxOverrides
      BY <1>0, <1>2
    <2> QED
      BY <1>2, <1>11, <2>1, <2>2, <2>3, Zenon DEF WorkflowInv, WorkflowTypeOK
  <1>13. BatchCounts'
    <2>1. ~batch.completed => batch.pending = Cardinality(LiveJobs) /\ batch.failed = Cardinality(FailedJobs)
      BY <1>1, Zenon DEF WorkflowInv, BatchCounts, FailedJobs
    <2>2. FailedJobs' = {i \in Jobs : state'[i] \in Failed}
      BY ZenonT(30) DEF FailedJobs
    <2> QED
      BY <1>10, <1>11, <2>1, <2>2, Zenon DEF BatchCounts
  <1>14. PendingIsHeld'
    <2>1. \A i \in Jobs : state'[i] = "pending" => state[i] = "pending"
      BY <1>3, Zenon
    <2>2. \A i \in Jobs : ~IsLive(i)' => ~IsLive(i) /\ state'[i] = state[i]
      BY <1>3, <1>4, Zenon
    <2>3. \A i \in Jobs : IsLive(i) => IsLive(i)'
      BY <1>4, Zenon
    <2> QED
      BY <1>2, <1>5, <1>6, <2>1, <2>2, <2>3 DEF WorkflowInv, PendingIsHeld
  <1>15. FailureCascades'
    <2>1. \A i \in Jobs : state'[i] \in Failed => state[i] \in Failed
      BY <1>3, Zenon DEF Failed
    <2> QED
      BY <1>2, <1>3, <1>5, <1>6, <2>1 DEF WorkflowInv, FailureCascades
  <1>16. ResultsMatch'
    BY <1>2, <1>3, <1>4, <1>6 DEF WorkflowInv, ResultsMatch
  <1>17. (CheckDependencies(edges) /\ EdgesLive /\ Over /\ (~batch.completed => callbacks = NoCallbacks))'
    <2>1. CheckDependencies(edges)' /\ EdgesLive'
      BY <1>2, <1>4, <1>6, Zenon DEF WorkflowInv, CheckDependencies, EdgesLive
    <2>2. Over'
      BY <1>2, <1>3, <1>11, Zenon DEF WorkflowInv, Over
    <2> QED
      BY <1>2, <1>11, <2>1, <2>2, Zenon DEF WorkflowInv
  <1>18. StepSound
    <2>1. overrides' # overrides
      BY <1>0, <1>2
    <2> QED
      BY <1>2, <1>11, <2>1, Zenon DEF StepSound, CallbackMatches, Completes, CompletedIsFinal, PromotionIsSound
  <1> QED
    BY <1>7, <1>12, <1>13, <1>14, <1>15, <1>16, <1>17, <1>18, Zenon DEF WorkflowInv

-----------------------------------------------------------------------------
LEMMA WorkflowStart == WorkflowInit => WorkflowInv
  <1> SUFFICES ASSUME WorkflowInit PROVE WorkflowInv
    BY Zenon
  <1>1. Absent /\ ~Inserted /\ edges = {} /\ callbacks = NoCallbacks
    <2>1. 1 \in Jobs
      BY WorkflowAssumption DEF Jobs
    <2> QED
      BY <2>1, Zenon DEF WorkflowInit, Absent, Inserted, NoCallbacks
  <1>2. WorkflowTypeOK
    BY WorkflowAssumption DEF WorkflowInit, WorkflowTypeOK, Batch
  <1>3. ~batch.completed
    BY Zenon DEF WorkflowInit
  <1>4. CheckDependencies(edges) /\ EdgesLive /\ Over /\ FailureCascades /\ ResultsMatch /\ BatchCounts
    BY <1>1, <1>3, Zenon DEF CheckDependencies, EdgesLive, Over, FailureCascades, ResultsMatch, BatchCounts
  <1>5. PendingIsHeld
    BY Zenon DEF PendingIsHeld, WorkflowInit
  <1> QED
    BY <1>1, <1>2, <1>4, <1>5, Zenon DEF WorkflowInv

LEMMA WorkflowStep == WorkflowInv /\ [WorkflowNext]_workflowVars => WorkflowInv' /\ [StepSound]_workflowVars
  <1> SUFFICES ASSUME WorkflowInv, [WorkflowNext]_workflowVars PROVE WorkflowInv' /\ [StepSound]_workflowVars
    BY Zenon
  <1>1. CASE WorkflowNext
    <2>1. WorkflowInv' /\ StepSound
      BY <1>1, InsertKeeps, FinishesKeep, MovesKeep, DeleteHistoryKeeps, RetryKeeps, Zenon DEF WorkflowNext
    <2> QED
      BY <2>1, Zenon
  <1>2. CASE UNCHANGED workflowVars
    <2>1. WorkflowInv'
      BY <1>2 DEF workflowVars, WorkflowInv, WorkflowTypeOK, CheckDependencies, EdgesLive, Inserted, Absent, Over,
                  BatchCounts, PendingIsHeld, FailureCascades, ResultsMatch, LiveJobs, IsLive, Group
    <2> QED
      BY <1>2, <2>1, ZenonT(30)
  <1> QED
    BY <1>1, <1>2, Zenon

\* The leader's sweeps find nothing to promote, cancel or delete.
LEMMA NothingToSweep ==
    ASSUME WorkflowInv
    PROVE  (~\E j \in Jobs : SweepPromotes(j) \/ SweepCancels(j)) /\ SweepOrphans = {}
  <1>0. ASSUME NEW e \in edges, e.anyOf # 0, NEW s \in Group(e), s.on \notin LiveJobs
        PROVE  results[s.on] = state[s.on] /\ state[s.on] \in Terminal
    <2>1. s \in edges /\ s.anyOf # 0 /\ s.on \in Jobs /\ Inserted
      BY <1>0, GroupPolicy, Zenon DEF WorkflowInv, Absent
    <2>2. ~IsLive(s.on)
      BY <1>0, <2>1, Zenon DEF LiveJobs
    <2>3. state[s.on] \in Terminal
      BY <2>1, <2>2, Zenon DEF WorkflowInv, WorkflowTypeOK, Inserted, IsLive
    <2> QED
      BY <2>1, <2>2, <2>3, Zenon DEF WorkflowInv, ResultsMatch
  <1>1. ASSUME NEW j \in Jobs, SweepPromotes(j) PROVE FALSE
    <2>1. PICK e \in edges : /\ e.job = j
                             /\ IsLive(e.on)
                             /\ e.anyOf # 0 => \A s \in Group(e) : ~IsLive(s.on) => state[s.on] \in Failed
      BY <1>1, Zenon DEF SweepPromotes, WorkflowInv, PendingIsHeld
    <2>2. e.on \in LiveJobs
      BY <2>1, GroupPolicy, Zenon DEF WorkflowInv, LiveJobs
    <2>3. PICK s \in Group(e) : e.anyOf # 0 /\ Satisfied(s, LiveJobs, results)
      BY <1>1, <2>1, <2>2, Zenon DEF SweepPromotes, Ready
    <2>4. s.on \notin LiveJobs /\ s.on \in Jobs /\ results[s.on] \in {"none", "completed"}
      BY <2>3, GroupPolicy, Zenon DEF Satisfied, WorkflowInv
    <2>5. state[s.on] \in Failed
      BY <2>1, <2>3, <2>4, Zenon DEF LiveJobs
    <2>6. results[s.on] = state[s.on]
      BY <1>0, <2>3, <2>4, Zenon
    <2> QED
      BY <2>4, <2>5, <2>6, Zenon DEF Failed
  <1>2. ASSUME NEW j \in Jobs, SweepCancels(j) PROVE FALSE
    <2>1. PICK e \in edges : e.job = j /\ e.policy = "any_cancel" /\ Exhausted(e, LiveJobs, results)
      BY <1>2, Zenon DEF SweepCancels
    <2>2. e.anyOf # 0
      BY <2>1, GroupPolicy, Zenon DEF WorkflowInv
    <2>3. PICK s \in Group(e) : state[s.on] \notin Failed
      BY <1>2, <2>1, Zenon DEF SweepCancels, WorkflowInv, FailureCascades
    <2>4. s.on \notin LiveJobs /\ results[s.on] \notin {"none", "completed"}
      BY <2>1, Zenon DEF Exhausted, Satisfied
    <2> QED
      BY <1>0, <2>2, <2>3, <2>4, Zenon DEF Terminal
  <1>3. SweepOrphans = {}
    BY Zenon DEF SweepOrphans, WorkflowInv, Over
  <1> QED
    BY <1>1, <1>2, <1>3, Zenon

\* For any number of jobs and any graph an insert accepts, over any sequence of
\* finishes, cascades, cancels, deletes and retries: the batch row counts its
\* jobs exactly, a pending job is held by a live one, none waits behind a
\* failure that cancels it, the results recorded are those of the jobs, and the
\* leader's sweeps have nothing left to do (finalize.go, workflow.go).
THEOREM WorkflowKept == WorkflowSpec => []WorkflowSound
  <1>1. WorkflowInv => WorkflowSound
    BY NothingToSweep, Zenon DEF WorkflowInv, WorkflowSound
  <1>2. WorkflowInv /\ [WorkflowNext]_workflowVars => WorkflowInv'
    BY WorkflowStep, Zenon
  <1> QED
    BY <1>1, <1>2, WorkflowStart, PTL DEF WorkflowSpec

\* A batch completes once, with the callbacks of what really became of its jobs,
\* changes no more, and a finish makes no job claimable before its dependencies
\* and groups let it (countBatch and promoteIfReady in finalize.go).
THEOREM CallbacksKept == WorkflowSpec => WorkflowSteps
  <1>1. WorkflowInv /\ [WorkflowNext]_workflowVars => WorkflowInv'
    BY WorkflowStep, Zenon
  <1>2. WorkflowInv /\ [WorkflowNext]_workflowVars
          => [CallbackMatches /\ CompletedIsFinal /\ PromotionIsSound]_workflowVars
    BY WorkflowStep, Zenon DEF StepSound
  <1> QED
    BY <1>1, <1>2, WorkflowStart, PTL DEF WorkflowSpec, WorkflowSteps
=============================================================================
