-------------------------- MODULE FinalizerProofs --------------------------
(***************************************************************************)
(* Proof that the finalizer strands no result and keeps its log budget, for *)
(* any results, batch sizes and bounds (Finalizer).                         *)
(***************************************************************************)
EXTENDS Finalizer, FiniteSetTheorems, WellFoundedInduction, TLAPS

\* The time a prover may take on a leaf that names none, on a loaded machine too.
USE SMTT(30), ZenonT(30)

LEMMA BytesFinite ==
    ASSUME NEW S \in SUBSET Results
    PROVE  IsFiniteSet(Bytes(S))
  <1> DEFINE Of(r) == {r} \X (1..LogBytes[r])
             F == {Of(r) : r \in S}
             f == [r \in S |-> Of(r)]
  <1>1. \A r \in S : IsFiniteSet(Of(r))
    <2> SUFFICES ASSUME NEW r \in S PROVE IsFiniteSet(Of(r))
      BY Zenon
    <2>1. LogBytes[r] \in Int
      BY FinalizerAssumption
    <2>2. 1 \in Int
      OBVIOUS
    <2>3. IsFiniteSet(1..LogBytes[r]) /\ IsFiniteSet({r})
      BY <2>1, <2>2, FS_Interval, FS_Singleton, Zenon
    <2> QED
      BY <2>3, FS_Product, Zenon
  <1>2. IsFiniteSet(S)
    BY FinalizerAssumption, FS_Subset, Zenon
  <1>3. f \in Surjection(S, F)
    BY Zenon DEF Surjection
  <1> HIDE DEF Of
  <1>4. IsFiniteSet(F)
    BY <1>2, <1>3, FS_Surjection, Zenon
  <1>5. \A T \in F : IsFiniteSet(T)
    BY <1>1, Zenon
  <1>6. IsFiniteSet(UNION F)
    BY <1>4, <1>5, FS_UNION, Zenon
  <1> QED
    BY <1>6, Zenon DEF Bytes, Of

\* The logs of two sets of results that share none.
LEMMA LogsApart ==
    ASSUME NEW S \in SUBSET Results, NEW T \in SUBSET Results, S \cap T = {}
    PROVE  Logs(S \cup T) = Logs(S) + Logs(T)
  <1>0. Bytes(S \cup T) = Bytes(S) \cup Bytes(T)
    BY Zenon DEF Bytes
  <1>1. Bytes(S) \cap Bytes(T) = {}
    <2> SUFFICES ASSUME NEW x, x \in Bytes(S), x \in Bytes(T) PROVE FALSE
      BY Zenon
    <2>1. PICK r \in S : x \in {r} \X (1..LogBytes[r])
      BY Zenon DEF Bytes
    <2>2. PICK s \in T : x \in {s} \X (1..LogBytes[s])
      BY Zenon DEF Bytes
    <2> QED
      BY <2>1, <2>2
  <1>2. Cardinality(Bytes(S) \cup Bytes(T)) = Cardinality(Bytes(S)) + Cardinality(Bytes(T)) - Cardinality(Bytes(S) \cap Bytes(T))
    BY BytesFinite, FS_Union, Zenon
  <1>3. Cardinality(Bytes(S)) \in Nat /\ Cardinality(Bytes(T)) \in Nat
    BY BytesFinite, FS_CardinalityType, Zenon
  <1>4. Cardinality(Bytes(S \cup T)) = Cardinality(Bytes(S)) + Cardinality(Bytes(T))
    <2>1. Cardinality(Bytes(S) \cap Bytes(T)) = 0
      BY <1>1, FS_EmptySet, Zenon
    <2> DEFINE a == Cardinality(Bytes(S))
               b == Cardinality(Bytes(T))
    <2>2. Cardinality(Bytes(S \cup T)) = a + b - 0 /\ a \in Nat /\ b \in Nat
      BY <1>0, <1>2, <1>3, <2>1, Zenon
    <2> HIDE DEF a, b
    <2>3. a \in Nat /\ b \in Nat => a + b - 0 = a + b
      OBVIOUS
    <2> QED
      BY <2>2, <2>3, Zenon DEF a, b
  <1> QED
    BY <1>4, Zenon DEF Logs

LEMMA LogsNat ==
    ASSUME NEW S \in SUBSET Results
    PROVE  Logs(S) \in Nat
  BY BytesFinite, FS_CardinalityType, Zenon DEF Logs

LEMMA LogsNone == Logs({}) = 0
  <1>1. Bytes({}) = {}
    BY Zenon DEF Bytes
  <1> QED
    BY <1>1, FS_EmptySet, Zenon DEF Logs

LEMMA LogsOne ==
    ASSUME NEW r \in Results
    PROVE  Logs({r}) = LogBytes[r]
  <1>1. Bytes({r}) = {r} \X (1..LogBytes[r])
    BY Zenon DEF Bytes
  <1>2. LogBytes[r] \in Nat
    BY FinalizerAssumption
  <1>3. IsFiniteSet(1..LogBytes[r]) /\ Cardinality(1..LogBytes[r]) = LogBytes[r]
    <2>1. 1 \in Int /\ LogBytes[r] \in Int
      BY <1>2
    <2>2. /\ IsFiniteSet(1..LogBytes[r])
          /\ Cardinality(1..LogBytes[r]) = IF 1 > LogBytes[r] THEN 0 ELSE LogBytes[r] - 1 + 1
      BY <2>1, FS_Interval, Zenon
    <2> QED
      BY <1>2, <2>2
  <1>4. Cardinality({r} \X (1..LogBytes[r])) = Cardinality({r}) * Cardinality(1..LogBytes[r])
    BY <1>3, FS_Product, FS_Singleton, Zenon
  <1>5. Cardinality({r}) = 1
    BY FS_Singleton, Zenon
  <1>6. Cardinality({r} \X (1..LogBytes[r])) = LogBytes[r]
    BY <1>2, <1>3, <1>4, <1>5
  <1> QED
    BY <1>1, <1>6, Zenon DEF Logs

\* Results without a log count for nothing.
LEMMA LogsOfHolders ==
    ASSUME NEW S \in SUBSET Results
    PROVE  Logs(S) = Logs({r \in S : LogBytes[r] > 0})
  <1>1. \A r \in S : LogBytes[r] \in Nat
    BY FinalizerAssumption
  <1>2. \A r \in S : ~(LogBytes[r] > 0) => 1..LogBytes[r] = {}
    BY <1>1
  <1>3. \A r \in S : ~(LogBytes[r] > 0) => {r} \X (1..LogBytes[r]) = {}
    BY <1>2, Zenon
  <1>4. Bytes(S) = Bytes({r \in S : LogBytes[r] > 0})
    BY <1>3, Zenon DEF Bytes
  <1> QED
    BY <1>4, Zenon DEF Logs

-----------------------------------------------------------------------------
(***************************************************************************)
(* Sequences of results: each result once, the set of them.                 *)
(***************************************************************************)
Distinct(s) == \A i, j \in DOMAIN s : s[i] = s[j] => i = j

LEMMA Appended ==
    ASSUME NEW s \in Seq(Results), NEW r \in Results
    PROVE  /\ Append(s, r) \in Seq(Results)
           /\ Append(s, r) # <<>>
           /\ Range(Append(s, r)) = Range(s) \cup {r}
           /\ Distinct(s) /\ r \notin Range(s) => Distinct(Append(s, r))
  <1>1. /\ Append(s, r) \in Seq(Results) /\ Append(s, r) # <<>> /\ Len(Append(s, r)) = Len(s) + 1
        /\ \A i \in 1..Len(s) : Append(s, r)[i] = s[i]
        /\ Append(s, r)[Len(s) + 1] = r
        /\ Len(s) \in Nat /\ DOMAIN s = 1..Len(s) /\ DOMAIN Append(s, r) = 1..(Len(s) + 1)
    OBVIOUS
  <1>2. Range(Append(s, r)) = Range(s) \cup {r}
    <2>1. ASSUME NEW x \in Range(Append(s, r)) PROVE x \in Range(s) \cup {r}
      <3>1. PICK i \in 1..(Len(s) + 1) : x = Append(s, r)[i]
        BY <1>1, Zenon DEF Range
      <3>2. i \in 1..Len(s) \/ i = Len(s) + 1
        BY <1>1
      <3>3. CASE i \in 1..Len(s)
        BY <1>1, <3>1, <3>3, Zenon DEF Range
      <3> QED
        BY <1>1, <3>1, <3>2, <3>3, Zenon
    <2>2. Range(s) \subseteq Range(Append(s, r))
      <3>1. \A i \in 1..Len(s) : i \in 1..(Len(s) + 1)
        BY <1>1
      <3> QED
        BY <1>1, <3>1, Zenon DEF Range
    <2>3. r \in Range(Append(s, r))
      <3>1. Len(s) + 1 \in 1..(Len(s) + 1)
        BY <1>1
      <3> QED
        BY <1>1, <3>1, Zenon DEF Range
    <2> QED
      BY <2>1, <2>2, <2>3, Zenon
  <1>3. ASSUME Distinct(s), r \notin Range(s) PROVE Distinct(Append(s, r))
    <2>1. \A i \in 1..Len(s) : s[i] # r
      BY <1>1, <1>3, Zenon DEF Range
    <2>2. \A i, j \in 1..Len(s) : s[i] = s[j] => i = j
      BY <1>1, <1>3, Zenon DEF Distinct
    <2>3. \A i \in 1..(Len(s) + 1) : i \in 1..Len(s) \/ i = Len(s) + 1
      BY <1>1
    <2>4. \A i, j \in 1..(Len(s) + 1) : Append(s, r)[i] = Append(s, r)[j] => i = j
      BY <1>1, <2>1, <2>2, <2>3, Zenon
    <2> QED
      BY <1>1, <2>4, Zenon DEF Distinct
  <1> QED
    BY <1>1, <1>2, <1>3, Zenon

LEMMA Headed ==
    ASSUME NEW s \in Seq(Results), s # <<>>
    PROVE  /\ Head(s) \in Results /\ Tail(s) \in Seq(Results) /\ Len(Tail(s)) <= Len(s)
           /\ Range(s) = {Head(s)} \cup Range(Tail(s))
           /\ Distinct(s) => Distinct(Tail(s)) /\ Head(s) \notin Range(Tail(s))
  <1>1. /\ Head(s) \in Results /\ Head(s) = s[1] /\ Tail(s) \in Seq(Results)
        /\ Len(s) \in Nat /\ Len(s) >= 1 /\ Len(Tail(s)) = Len(s) - 1
        /\ DOMAIN s = 1..Len(s) /\ DOMAIN Tail(s) = 1..(Len(s) - 1)
        /\ \A i \in 1..(Len(s) - 1) : Tail(s)[i] = s[i + 1]
    OBVIOUS
  <1>2. Len(Tail(s)) <= Len(s)
    BY <1>1
  <1>3. \A i \in 1..(Len(s) - 1) : i + 1 \in 1..Len(s) /\ i + 1 # 1
    BY <1>1
  <1>4. \A i \in 1..Len(s) : i = 1 \/ \E j \in 1..(Len(s) - 1) : i = j + 1
    <2> SUFFICES ASSUME NEW i \in 1..Len(s), i # 1 PROVE \E j \in 1..(Len(s) - 1) : i = j + 1
      BY Zenon
    <2>1. i - 1 \in 1..(Len(s) - 1) /\ i = (i - 1) + 1
      BY <1>1
    <2> QED
      BY <2>1, Zenon
  <1>5. 1 \in 1..Len(s)
    BY <1>1
  <1>6. Range(s) = {Head(s)} \cup Range(Tail(s))
    <2>1. ASSUME NEW x \in Range(s) PROVE x \in {Head(s)} \cup Range(Tail(s))
      <3>1. PICK i \in 1..Len(s) : x = s[i]
        BY <1>1, Zenon DEF Range
      <3>2. CASE i = 1
        BY <1>1, <3>1, <3>2, Zenon
      <3>3. CASE i # 1
        <4>1. PICK j \in 1..(Len(s) - 1) : i = j + 1
          BY <1>4, <3>3, Zenon
        <4>2. x = Tail(s)[j]
          BY <1>1, <3>1, <4>1, Zenon
        <4> QED
          BY <1>1, <4>2, Zenon DEF Range
      <3> QED
        BY <3>2, <3>3, Zenon
    <2>2. \A x \in Range(Tail(s)) : x \in Range(s)
      BY <1>1, <1>3, ZenonT(30) DEF Range
    <2>3. Head(s) \in Range(s)
      BY <1>1, <1>5, Zenon DEF Range
    <2> QED
      BY <2>1, <2>2, <2>3, Zenon
  <1>7. ASSUME Distinct(s) PROVE Distinct(Tail(s)) /\ Head(s) \notin Range(Tail(s))
    <2>1. \A i, j \in 1..Len(s) : s[i] = s[j] => i = j
      BY <1>1, <1>7, Zenon DEF Distinct
    <2>2. \A i, j \in 1..(Len(s) - 1) : i + 1 = j + 1 => i = j
      BY <1>1
    <2>3. \A i, j \in 1..(Len(s) - 1) : Tail(s)[i] = Tail(s)[j] => i = j
      <3> SUFFICES ASSUME NEW i \in 1..(Len(s) - 1), NEW j \in 1..(Len(s) - 1), Tail(s)[i] = Tail(s)[j] PROVE i = j
        BY Zenon
      <3>1. s[i + 1] = s[j + 1] /\ i + 1 \in 1..Len(s) /\ j + 1 \in 1..Len(s)
        BY <1>1, <1>3, Zenon
      <3>2. i + 1 = j + 1
        BY <2>1, <3>1, Zenon
      <3> QED
        BY <2>2, <3>2, Zenon
    <2>4. \A i \in 1..(Len(s) - 1) : Tail(s)[i] # s[1]
      BY <1>1, <1>3, <1>5, <2>1, Zenon
    <2> QED
      BY <1>1, <2>3, <2>4, ZenonT(30) DEF Distinct, Range
  <1> QED
    BY <1>1, <1>2, <1>6, <1>7, Zenon

\* A cut after the first n.
LEMMA Cut ==
    ASSUME NEW s \in Seq(Results), NEW n \in 1..Len(s)
    PROVE  LET c == SubSeq(s, 1, n)
               d == SubSeq(s, n + 1, Len(s))
           IN  /\ c \in Seq(Results) /\ d \in Seq(Results) /\ c # <<>> /\ Len(c) = n
               /\ Range(s) = Range(c) \cup Range(d)
               /\ Distinct(s) => Distinct(c) /\ Distinct(d) /\ Range(c) \cap Range(d) = {}
  <1> DEFINE c == SubSeq(s, 1, n)
             d == SubSeq(s, n + 1, Len(s))
             m == Len(s) - n
  <1>1. /\ c \in Seq(Results) /\ d \in Seq(Results) /\ c # <<>> /\ Len(c) = n /\ DOMAIN c = 1..n
        /\ Len(d) = m /\ DOMAIN d = 1..m /\ DOMAIN s = 1..Len(s)
        /\ \A i \in 1..n : c[i] = s[i]
        /\ \A i \in 1..m : d[i] = s[n + i]
    OBVIOUS
  <1>2. /\ n \in Nat /\ m \in Nat /\ Len(s) \in Nat
        /\ \A i \in 1..n : i \in 1..Len(s)
        /\ \A i \in 1..m : n + i \in 1..Len(s) /\ n + i \notin 1..n
        /\ \A i, j \in 1..m : n + i = n + j => i = j
    OBVIOUS
  <1>3. \A i \in 1..Len(s) : i \in 1..n \/ \E j \in 1..m : i = n + j
    <2> SUFFICES ASSUME NEW i \in 1..Len(s), i \notin 1..n PROVE \E j \in 1..m : i = n + j
      BY Zenon
    <2>1. i - n \in 1..m /\ i = n + (i - n)
      OBVIOUS
    <2> QED
      BY <2>1, Zenon
  <1> HIDE DEF c, d, m
  <1>4. Range(s) = Range(c) \cup Range(d)
    <2>1. ASSUME NEW x \in Range(s) PROVE x \in Range(c) \cup Range(d)
      <3>1. PICK i \in 1..Len(s) : x = s[i]
        BY <1>1, Zenon DEF Range
      <3>2. CASE i \in 1..n
        BY <1>1, <3>1, <3>2, Zenon DEF Range
      <3>3. CASE i \notin 1..n
        <4>1. PICK j \in 1..m : i = n + j
          BY <1>3, <3>3, Zenon
        <4>2. x = d[j]
          BY <1>1, <3>1, <4>1, Zenon
        <4> QED
          BY <1>1, <4>2, Zenon DEF Range
      <3> QED
        BY <3>2, <3>3, Zenon
    <2>2. \A x \in Range(c) : x \in Range(s)
      BY <1>1, <1>2, Zenon DEF Range
    <2>3. \A x \in Range(d) : x \in Range(s)
      BY <1>1, <1>2, Zenon DEF Range
    <2> QED
      BY <2>1, <2>2, <2>3, Zenon
  <1>5. ASSUME Distinct(s) PROVE Distinct(c) /\ Distinct(d) /\ Range(c) \cap Range(d) = {}
    <2>1. \A i, j \in 1..Len(s) : s[i] = s[j] => i = j
      BY <1>1, <1>5, Zenon DEF Distinct
    <2>2. \A i, j \in 1..n : c[i] = c[j] => i = j
      <3> SUFFICES ASSUME NEW i \in 1..n, NEW j \in 1..n, c[i] = c[j] PROVE i = j
        BY Zenon
      <3>1. s[i] = s[j] /\ i \in 1..Len(s) /\ j \in 1..Len(s)
        BY <1>1, <1>2, Zenon
      <3> QED
        BY <2>1, <3>1, Zenon
    <2>3. \A i, j \in 1..m : d[i] = d[j] => i = j
      <3> SUFFICES ASSUME NEW i \in 1..m, NEW j \in 1..m, d[i] = d[j] PROVE i = j
        BY Zenon
      <3>1. s[n + i] = s[n + j] /\ n + i \in 1..Len(s) /\ n + j \in 1..Len(s)
        BY <1>1, <1>2, Zenon
      <3>2. n + i = n + j
        BY <2>1, <3>1, Zenon
      <3> QED
        BY <1>2, <3>2, Zenon
    <2>4. \A i \in 1..n, j \in 1..m : c[i] # d[j]
      <3> SUFFICES ASSUME NEW i \in 1..n, NEW j \in 1..m, c[i] = d[j] PROVE FALSE
        BY Zenon
      <3>1. s[i] = s[n + j] /\ i \in 1..Len(s) /\ n + j \in 1..Len(s)
        BY <1>1, <1>2, Zenon
      <3>2. i = n + j
        BY <2>1, <3>1, Zenon
      <3> QED
        BY <1>2, <3>2, Zenon
    <2>5. Range(c) \cap Range(d) = {}
      <3> SUFFICES ASSUME NEW x, x \in Range(c), x \in Range(d) PROVE FALSE
        BY Zenon
      <3>1. PICK i \in 1..n : x = c[i]
        BY <1>1, Zenon DEF Range
      <3>2. PICK j \in 1..m : x = d[j]
        BY <1>1, Zenon DEF Range
      <3> QED
        BY <2>4, <3>1, <3>2, Zenon
    <2> QED
      BY <1>1, <2>2, <2>3, <2>5, Zenon DEF Distinct
  <1> QED
    BY <1>1, <1>4, <1>5, Zenon DEF c, d

\* A nonempty set of numbers has a smallest.
LEMMA LeastOf ==
    ASSUME NEW S, S \subseteq Nat, S # {}
    PROVE  \E s \in S : \A t \in S : s <= t
  <1>1. \E s \in S : \A t \in S : ~(<<t, s>> \in OpToRel(<, Nat))
    BY NatLessThanWellFounded, WFMin, Zenon
  <1>2. \E s \in S : \A t \in S : ~(t < s)
    BY <1>1, Zenon DEF OpToRel
  <1> QED
    BY <1>2

\* A flush takes some of the first results.
LEMMA FlushCuts ==
    ASSUME NEW b \in Seq(Results), b # <<>>
    PROVE  \E n \in 1..Len(b) : FirstFlush(b) = SubSeq(b, 1, n)
  <1> DEFINE cuts == {n \in 1..Len(b) : n = Len(b) \/ Full(SubSeq(b, 1, n))}
  <1>1. Len(b) \in cuts /\ cuts \subseteq Nat
    OBVIOUS
  <1>2. \E n \in cuts : \A m \in cuts : n <= m
    BY <1>1, LeastOf, Zenon
  <1>3. (CHOOSE n \in cuts : \A m \in cuts : n <= m) \in 1..Len(b)
    BY <1>2, Zenon
  <1> QED
    BY <1>3, Zenon DEF FirstFlush

(***************************************************************************)
(* Without, by induction on the length of the sequence.  Kept(s, S, f) is   *)
(* its recursion.                                                           *)
(***************************************************************************)
Kept(s, S, f, n) == IF n = 0 THEN <<>> ELSE IF s[n] \in S THEN f[n - 1] ELSE Append(f[n - 1], s[n])

LEMMA KeptExists ==
    ASSUME NEW s \in Seq(Results), NEW S
    PROVE  \A n \in 0..Len(s) : \E f : f = [i \in 0..n |-> Kept(s, S, f, i)]
  <1> DEFINE Bad == {n \in 0..Len(s) : ~\E f : f = [i \in 0..n |-> Kept(s, S, f, i)]}
  <1>1. SUFFICES ASSUME Bad # {} PROVE FALSE
    BY Zenon
  <1>2. Bad \subseteq Nat
    OBVIOUS
  <1>3. PICK n \in Bad : \A t \in Bad : n <= t
    BY <1>1, <1>2, LeastOf, Zenon
  <1>4. CASE n = 0
    <2> DEFINE f == [i \in 0..0 |-> <<>>]
    <2>1. \A i \in 0..0 : i = 0
      OBVIOUS
    <2>2. f = [i \in 0..0 |-> Kept(s, S, f, i)]
      BY <2>1, Zenon DEF Kept
    <2> HIDE DEF f
    <2> QED
      BY <1>4, <2>2, Zenon
  <1>5. CASE n # 0
    <2>1. n - 1 \in 0..Len(s) /\ ~(n <= n - 1) /\ n \in Nat
      BY <1>2, <1>5
    <2>2. n - 1 \notin Bad
      BY <1>3, <2>1, Zenon
    <2>3. PICK g : g = [i \in 0..(n - 1) |-> Kept(s, S, g, i)]
      BY <2>1, <2>2, Zenon
    <2> DEFINE f == [i \in 0..n |-> IF i = n THEN Kept(s, S, g, n) ELSE g[i]]
    <2>4. \A i \in 0..n : /\ i # n => i \in 0..(n - 1) /\ i - 1 # n
                          /\ i # 0 => i - 1 \in 0..(n - 1) /\ i - 1 \in 0..n /\ i - 1 # n
      BY <2>1
    <2>5. \A i \in 0..(n - 1) : f[i] = g[i] /\ g[i] = Kept(s, S, g, i)
      <3>1. \A i \in 0..(n - 1) : i \in 0..n /\ i # n
        BY <2>1
      <3> QED
        BY <2>3, <3>1, Zenon
    <2>6. \A i \in 0..n : f[i] = Kept(s, S, g, i)
      BY <2>4, <2>5, Zenon
    <2>7. \A i \in 0..n : Kept(s, S, g, i) = Kept(s, S, f, i)
      BY <2>4, <2>5, Zenon DEF Kept
    <2>8. f = [i \in 0..n |-> f[i]]
      BY Zenon
    <2> HIDE DEF f
    <2>9. f = [i \in 0..n |-> Kept(s, S, f, i)]
      BY <2>6, <2>7, <2>8, Zenon
    <2> QED
      BY <2>9, Zenon
  <1> QED
    BY <1>4, <1>5, Zenon

LEMMA WithoutIs ==
    ASSUME NEW s \in Seq(Results), NEW S, Distinct(s)
    PROVE  /\ Without(s, S) \in Seq(Results) /\ Distinct(Without(s, S))
           /\ Range(Without(s, S)) = Range(s) \ S
  <1> DEFINE kept == CHOOSE f : f = [n \in 0..Len(s) |-> Kept(s, S, f, n)]
             First(n) == {s[i] : i \in 1..n}
             Good(n) == /\ kept[n] \in Seq(Results) /\ Distinct(kept[n])
                        /\ Range(kept[n]) = First(n) \ S
             Bad == {n \in 0..Len(s) : ~Good(n)}
  <1>1. Without(s, S) = kept[Len(s)]
    BY Zenon DEF Without, Kept
  <1>0. Len(s) \in Nat /\ Len(s) \in 0..Len(s) /\ DOMAIN s = 1..Len(s) /\ \A i \in 1..Len(s) : s[i] \in Results
    OBVIOUS
  <1>2. kept = [n \in 0..Len(s) |-> Kept(s, S, kept, n)]
    BY <1>0, KeptExists, Zenon
  <1>3. \A n \in 0..Len(s) : kept[n] = Kept(s, S, kept, n)
    BY <1>2, Zenon
  <1> HIDE DEF kept
  <1>4. ASSUME Bad # {} PROVE FALSE
    <2>1. Bad \subseteq Nat
      OBVIOUS
    <2>2. PICK n \in Bad : \A t \in Bad : n <= t
      BY <1>4, <2>1, LeastOf, Zenon
    <2>3. CASE n = 0
      <3>1. kept[0] = <<>>
        BY <1>3, <2>3, Zenon DEF Kept
      <3>2. 1..0 = {} /\ <<>> \in Seq(Results) /\ DOMAIN <<>> = {}
        OBVIOUS
      <3>3. First(0) = {} /\ Range(<<>>) = {} /\ Distinct(<<>>)
        BY <3>2, Zenon DEF Range, Distinct
      <3> QED
        BY <2>3, <3>1, <3>2, <3>3, Zenon
    <2>4. CASE n # 0
      <3>1. n - 1 \in 0..Len(s) /\ ~(n <= n - 1) /\ n \in 1..Len(s)
        BY <2>1, <2>4
      <3>2. Good(n - 1)
        BY <2>2, <3>1, Zenon
      <3>3. 1..n = 1..(n - 1) \cup {n} /\ \A i \in 1..(n - 1) : i \in 1..Len(s) /\ i # n
        BY <3>1
      <3>4. First(n) = First(n - 1) \cup {s[n]}
        BY <3>3, Zenon
      <3>5. s[n] \notin First(n - 1)
        BY <1>0, <3>1, <3>3, Zenon DEF Distinct
      <3>6. kept[n] = IF s[n] \in S THEN kept[n - 1] ELSE Append(kept[n - 1], s[n])
        BY <1>3, <2>4, Zenon DEF Kept
      <3> HIDE DEF First
      <3>7. CASE s[n] \in S
        BY <3>2, <3>4, <3>6, <3>7, Zenon
      <3>8. CASE s[n] \notin S
        <4>1. s[n] \notin Range(kept[n - 1]) /\ s[n] \in Results
          BY <1>0, <3>1, <3>2, <3>5, Zenon
        <4>2. /\ kept[n] \in Seq(Results) /\ Distinct(kept[n])
              /\ Range(kept[n]) = Range(kept[n - 1]) \cup {s[n]}
          BY <3>2, <3>6, <3>8, <4>1, Appended, ZenonT(30)
        <4>3. Range(kept[n]) = First(n) \ S
          BY <3>2, <3>4, <3>8, <4>2, Zenon
        <4> QED
          BY <4>2, <4>3, Zenon
      <3> QED
        BY <3>7, <3>8, Zenon
    <2> QED
      BY <2>3, <2>4, Zenon
  <1>5. Good(Len(s))
    BY <1>0, <1>4, Zenon
  <1>6. First(Len(s)) = Range(s)
    BY <1>0, Zenon DEF Range
  <1> QED
    BY <1>1, <1>5, <1>6, Zenon

-----------------------------------------------------------------------------
(***************************************************************************)
(* The inductive invariant.  Nothing is stranded because the submits        *)
(* counted as open are the results under way and the submits about to say   *)
(* they are done (Counts), whatever is given is in the buffer or the batch, *)
(* once (Given), and stopIfIdle closes on what it loaded only if no submit  *)
(* has started since (Idle).  The budget is kept because it is the logs of  *)
(* the results that hold it, until run has ended (Budget).                  *)
(***************************************************************************)
Under == {"counted", "ready", "delayed"}
Holding == {"ready", "given"}
Underway == {r \in Results : at[r] \in Under}
Holders == {r \in Results : at[r] \in Holding}

Given ==
    /\ Distinct(in) /\ Distinct(batch) /\ Distinct(chunk)
    /\ Range(in) \cap Range(batch) = {}
    /\ \A r \in Results : at[r] = "given" <=> r \in Range(in) \cup Range(batch)

Counts == open = Cardinality(Underway) + leaving

Phases ==
    /\ chunk # <<>> => pc = "release"
    /\ pc = "flush" => batch # <<>>
    /\ pc \in {"load", "check", "swap", "wait", "ended"} => batch = <<>>
    /\ ~draining => pc \in {"loop", "flush", "release"}
    /\ pc = "swap" => ~closed
    /\ pc = "ended" => closed

Idle ==
    /\ pc = "check" => seen.open <= open /\ (~seen.changed => seen.open = open)
    /\ pc = "check" /\ closed /\ ~refused => ~seen.changed
    /\ pc = "swap" /\ idle /\ ~seen.changed => open = 0 /\ in = <<>>
    /\ pc = "ended" /\ ~refused => open = 0 /\ in = <<>>

Budget ==
    /\ pc # "ended" => used = Logs(Holders) + Logs(Range(chunk))
    /\ ~draining => used <= BufferedLogBytes \/ \E r \in Results : LogHolders = {r} /\ used = LogBytes[r]

FinInv == TypeOK /\ Given /\ Counts /\ Phases /\ Idle /\ Budget

LEMMA Sizes ==
    ASSUME NEW S \in SUBSET Results
    PROVE  /\ IsFiniteSet(S) /\ Cardinality(S) \in Nat
           /\ Cardinality(S) = 0 => S = {}
           /\ \A r \in Results \ S : Cardinality(S \cup {r}) = Cardinality(S) + 1
           /\ \A r \in S : Cardinality(S \ {r}) = Cardinality(S) - 1 /\ Cardinality(S) >= 1
  <1>1. IsFiniteSet(S)
    BY FinalizerAssumption, FS_Subset, Zenon
  <1>2. Cardinality(S) \in Nat /\ (Cardinality(S) = 0 => S = {})
    BY <1>1, FS_CardinalityType, FS_EmptySet, Zenon
  <1>3. \A r \in Results \ S : Cardinality(S \cup {r}) = Cardinality(S) + 1
    BY <1>1, FS_AddElement, Zenon
  <1>4. ASSUME NEW r \in S PROVE Cardinality(S \ {r}) = Cardinality(S) - 1 /\ Cardinality(S) >= 1
    <2>1. Cardinality(S \ {r}) = Cardinality(S) - 1
      BY <1>1, FS_RemoveElement, Zenon
    <2>2. Cardinality(S) # 0
      BY <1>2, Zenon
    <2> QED
      BY <1>2, <2>1, <2>2
  <1> QED
    BY <1>1, <1>2, <1>3, <1>4, Zenon

LEMMA LogsAdd ==
    ASSUME NEW S \in SUBSET Results, NEW r \in Results \ S
    PROVE  Logs(S \cup {r}) = Logs(S) + LogBytes[r]
  <1>1. {r} \in SUBSET Results /\ S \cap {r} = {} /\ r \in Results
    BY Zenon
  <1> QED
    BY <1>1, LogsApart, LogsOne, Zenon

LEMMA LogsLess ==
    ASSUME NEW S \in SUBSET Results, NEW T \in SUBSET S
    PROVE  Logs(T) <= Logs(S) /\ Logs(S) = Logs(T) + Logs(S \ T)
  <1>1. T \in SUBSET Results /\ S \ T \in SUBSET Results /\ T \cap (S \ T) = {} /\ T \cup (S \ T) = S
    BY Zenon
  <1>2. Logs(S) = Logs(T) + Logs(S \ T)
    BY <1>1, LogsApart, Zenon
  <1>3. Logs(T) \in Nat /\ Logs(S \ T) \in Nat
    BY <1>1, LogsNat, Zenon
  <1> QED
    BY <1>2, <1>3

LEMMA LogsPositive ==
    ASSUME NEW S \in SUBSET Results, Logs(S) = 0, NEW r \in S
    PROVE  LogBytes[r] = 0
  <1>1. {r} \in SUBSET S /\ r \in Results
    BY Zenon
  <1>2. Logs({r}) <= 0
    BY <1>1, LogsLess, Zenon
  <1>3. Logs({r}) = LogBytes[r] /\ LogBytes[r] \in Nat
    BY <1>1, LogsOne, FinalizerAssumption, Zenon
  <1> QED
    BY <1>2, <1>3

\* One result moves.
LEMMA Moves ==
    ASSUME TypeOK, NEW r \in Results, NEW v, at' = [at EXCEPT ![r] = v]
    PROVE  /\ at'[r] = v /\ \A s \in Results \ {r} : at'[s] = at[s]
           /\ (v \in Under <=> at[r] \in Under) => Underway' = Underway
           /\ v \in Under /\ at[r] \notin Under => Underway' = Underway \cup {r} /\ r \notin Underway
           /\ v \notin Under /\ at[r] \in Under => Underway' = Underway \ {r} /\ r \in Underway
           /\ (v \in Holding <=> at[r] \in Holding) => Holders' = Holders
           /\ v \in Holding /\ at[r] \notin Holding => Holders' = Holders \cup {r} /\ r \notin Holders
           /\ v \notin Holding /\ at[r] \in Holding => Holders' = Holders \ {r} /\ r \in Holders
  <1>1. at'[r] = v /\ \A s \in Results \ {r} : at'[s] = at[s]
    BY DEF TypeOK
  <1>2. /\ (v \in Under <=> at[r] \in Under) => Underway' = Underway
        /\ v \in Under /\ at[r] \notin Under => Underway' = Underway \cup {r} /\ r \notin Underway
        /\ v \notin Under /\ at[r] \in Under => Underway' = Underway \ {r} /\ r \in Underway
    BY <1>1, Zenon DEF Underway
  <1>3. /\ (v \in Holding <=> at[r] \in Holding) => Holders' = Holders
        /\ v \in Holding /\ at[r] \notin Holding => Holders' = Holders \cup {r} /\ r \notin Holders
        /\ v \notin Holding /\ at[r] \in Holding => Holders' = Holders \ {r} /\ r \in Holders
    BY <1>1, Zenon DEF Holders
  <1> QED
    BY <1>1, <1>2, <1>3, Zenon

\* The budget's holders, of those who hold.
LEMMA HoldersAre ==
    ASSUME TypeOK
    PROVE  /\ LogHolders = {r \in Holders \cup Range(chunk) : LogBytes[r] > 0}
           /\ Holders \in SUBSET Results /\ Underway \in SUBSET Results
           /\ Range(chunk) \in SUBSET Results /\ Range(batch) \in SUBSET Results /\ Range(in) \in SUBSET Results
  <1>1. \A s \in Seq(Results) : Range(s) \in SUBSET Results
    BY DEF Range
  <1>2. Range(chunk) \in SUBSET Results /\ Range(batch) \in SUBSET Results /\ Range(in) \in SUBSET Results
    BY <1>1, Zenon DEF TypeOK
  <1>3. Holders \in SUBSET Results /\ Underway \in SUBSET Results
    BY Zenon DEF Holders, Underway
  <1>4. LogHolders = {r \in Holders \cup Range(chunk) : LogBytes[r] > 0}
    BY <1>2, Zenon DEF LogHolders, Holders, Holding
  <1> QED
    BY <1>2, <1>3, <1>4, Zenon

\* The budget does not change when nobody takes or gives of it.
LEMMA BudgetStays ==
    ASSUME Budget, used' = used, chunk' = chunk, draining' = draining, Holders' = Holders,
           pc' # "ended" => pc # "ended"
    PROVE  Budget'
  <1>1. LogHolders' = LogHolders
    BY Zenon DEF LogHolders, Holders, Holding
  <1> QED
    BY <1>1, Zenon DEF Budget

\* The steps at which results stay where they are and the loop does not go on.
LEMMA GivenStays ==
    ASSUME Given, in' = in, batch' = batch, chunk' = chunk, \A r \in Results : at'[r] = "given" <=> at[r] = "given"
    PROVE  Given'
  BY Zenon DEF Given

-----------------------------------------------------------------------------
(***************************************************************************)
(* Submits.                                                                 *)
(***************************************************************************)
\* A step that leaves the fields of the drain, or of the count, alone keeps their types.
LEMMA DrainTyped ==
    ASSUME TypeOK, UNCHANGED drainVars
    PROVE  /\ stopping' \in BOOLEAN /\ draining' \in BOOLEAN /\ deadline' \in {"unset", "set", "passed"}
           /\ expiry' \in BOOLEAN /\ force' \in BOOLEAN /\ idle' \in BOOLEAN
  BY Zenon DEF TypeOK, drainVars

LEMMA CountTyped ==
    ASSUME TypeOK, UNCHANGED countVars
    PROVE  open' \in Nat /\ closed' \in BOOLEAN /\ refused' \in BOOLEAN /\ seen' \in [open : Int, changed : BOOLEAN]
  BY Zenon DEF TypeOK, countVars

LEMMA SubmitKeeps == ASSUME FinInv, NEW r \in Results, Submit(r) PROVE FinInv'
  <1> USE DEF FinInv
  <1> DEFINE v == IF closed THEN "dropped" ELSE "counted"
  <1>1. at' = [at EXCEPT ![r] = v] /\ at[r] = "worker"
    BY Zenon DEF Submit
  <1>2. /\ at'[r] = v /\ \A s \in Results \ {r} : at'[s] = at[s]
        /\ Holders' = Holders
        /\ closed => Underway' = Underway
        /\ ~closed => Underway' = Underway \cup {r} /\ r \notin Underway
    BY <1>1, Moves, Zenon DEF Under, Holding
  <1>3. Underway \in SUBSET Results
    BY Zenon DEF Underway
  <1>4. TypeOK'
    <2>1. at' \in [Results -> Places]
      BY <1>1 DEF TypeOK, Places, InHand
    <2>2. refused' \in BOOLEAN /\ leaving' \in Nat /\ open' \in Nat
      BY DEF TypeOK, Submit, Starts
    <2>3. seen' \in [open : Int, changed : BOOLEAN]
      BY Zenon DEF TypeOK, Submit, Starts
    <2>4. UNCHANGED <<late, in, used, left, closed, drainVars, pc, batch, chunk>>
      BY Zenon DEF Submit
    <2>5. /\ late' \subseteq Results /\ in' \in Seq(Results) /\ Len(in') <= Capacity /\ used' \in Nat
          /\ left' \in BOOLEAN /\ closed' \in BOOLEAN
          /\ pc' \in {"loop", "flush", "release", "take", "load", "check", "swap", "wait", "ended"}
          /\ batch' \in Seq(Results) /\ chunk' \in Seq(Results)
      BY <2>4, Zenon DEF TypeOK
    <2> QED
      BY <2>1, <2>2, <2>3, <2>4, <2>5, DrainTyped, Zenon DEF TypeOK
  <1>5. Given'
    BY <1>1, <1>2, GivenStays, Zenon DEF Submit
  <1>6. Counts'
    <2>1. Cardinality(Underway) \in Nat /\ (~closed => Cardinality(Underway') = Cardinality(Underway) + 1)
      BY <1>2, <1>3, Sizes, Zenon
    <2>2. closed => Cardinality(Underway') = Cardinality(Underway)
      BY <1>2, Zenon
    <2> QED
      BY <2>1, <2>2 DEF Counts, Submit, Starts, TypeOK
  <1>7. Phases'
    BY Zenon DEF Phases, Submit, drainVars
  <1>8. Idle'
    <2>1. /\ open' = open + 1 /\ pc' = pc /\ closed' = closed /\ refused' = (refused \/ closed)
          /\ seen' = IF pc \in {"check", "swap"} /\ 1 > 0 THEN [seen EXCEPT !.changed = TRUE] ELSE seen
      BY Zenon DEF Submit, Starts
    <2>2. pc \in {"check", "swap"} => seen'.changed /\ seen'.open = seen.open
      BY <2>1 DEF TypeOK
    <2>3. pc = "check" => seen'.open <= open'
      BY <2>1, <2>2 DEF Idle, TypeOK
    <2> QED
      BY <2>1, <2>2, <2>3, Zenon DEF Idle, Phases
  <1>9. Budget'
    BY <1>2, BudgetStays, Zenon DEF Submit, drainVars
  <1> QED
    BY <1>4, <1>5, <1>6, <1>7, <1>8, <1>9, Zenon

LEMMA AcquireKeeps == ASSUME FinInv, NEW r \in Results, Acquire(r) PROVE FinInv'
  <1> USE DEF FinInv
  <1>1. PICK taken \in BOOLEAN :
            /\ IF taken THEN Fits(r) ELSE pc = "ended" /\ LogBytes[r] > 0
            /\ at' = [at EXCEPT ![r] = IF taken THEN "ready" ELSE "dropped"]
            /\ used' = IF taken THEN used + LogBytes[r] ELSE used
            /\ leaving' = IF taken THEN leaving ELSE leaving + 1
    BY Zenon DEF Acquire
  <1>2. /\ at[r] \in {"counted", "delayed"}
        /\ UNCHANGED <<in, left, countVars, drainVars, pc, batch, chunk>>
        /\ late' \subseteq late \cup {r}
    BY Zenon DEF Acquire
  <1>3. LogBytes[r] \in Nat
    BY FinalizerAssumption
  <1>4. /\ \A s \in Results \ {r} : at'[s] = at[s]
        /\ taken => at'[r] = "ready" /\ Underway' = Underway /\ Holders' = Holders \cup {r} /\ r \notin Holders
        /\ ~taken => at'[r] = "dropped" /\ Underway' = Underway \ {r} /\ r \in Underway /\ Holders' = Holders
    BY <1>1, <1>2, Moves, Zenon DEF Under, Holding
  <1>5. TypeOK'
    BY <1>1, <1>2, <1>3 DEF TypeOK, countVars, drainVars, Places, InHand
  <1>6. Given'
    BY <1>2, <1>4, GivenStays, Zenon
  <1>7. Counts'
    <2>1. /\ Cardinality(Underway) \in Nat
          /\ ~taken => Cardinality(Underway') = Cardinality(Underway) - 1
          /\ taken => Cardinality(Underway') = Cardinality(Underway)
      BY <1>4, HoldersAre, Sizes, Zenon
    <2> QED
      BY <1>1, <1>2, <2>1 DEF Counts, countVars, TypeOK
  <1>8. Phases' /\ Idle'
    BY <1>2, Zenon DEF Phases, Idle, countVars, drainVars
  <1>9. Budget'
    <2>1. CASE ~taken
      BY <1>1, <1>2, <1>4, <2>1, BudgetStays, Zenon DEF drainVars
    <2>2. CASE taken
      <3>1. Logs(Holders') = Logs(Holders) + LogBytes[r]
        BY <1>4, <2>2, HoldersAre, LogsAdd, Zenon
      <3>2. Logs(Holders) \in Nat /\ Logs(Range(chunk)) \in Nat
        BY HoldersAre, LogsNat, Zenon
      <3>3. pc' # "ended" => used' = Logs(Holders') + Logs(Range(chunk'))
        BY <1>1, <1>2, <1>3, <2>2, <3>1, <3>2 DEF Budget
      <3>4. ASSUME ~draining PROVE used' <= BufferedLogBytes \/ \E s \in Results : LogHolders' = {s} /\ used' = LogBytes[s]
        <4>1. Fits(r) /\ pc # "ended" /\ used' = used + LogBytes[r]
          BY <1>1, <2>2, <3>4, Zenon DEF Phases
        <4>2. CASE LogBytes[r] = 0
          <5>1. used' = used /\ ~(LogBytes[r] > 0)
            BY <4>1, <4>2 DEF TypeOK
          <5>2. LogHolders' = LogHolders
            BY <1>2, <1>4, <2>2, <5>1, Zenon DEF LogHolders, Holders, Holding
          <5> QED
            BY <3>4, <5>1, <5>2, Zenon DEF Budget
        <4>3. CASE used = 0 /\ LogBytes[r] # 0
          <5>1. Logs(Holders) = 0 /\ Logs(Range(chunk)) = 0
            BY <3>2, <4>1, <4>3 DEF Budget
          <5>2. \A s \in Holders \cup Range(chunk) : LogBytes[s] = 0
            BY <5>1, HoldersAre, LogsPositive, Zenon
          <5>3. LogBytes[r] > 0 /\ ~(0 > 0) /\ used' = LogBytes[r]
            BY <1>3, <4>1, <4>3
          <5>4. LogHolders' = {r}
            <6>1. ASSUME NEW s \in Results, s # r PROVE s \notin LogHolders'
              <7>1. at'[s] = at[s] /\ chunk' = chunk
                BY <1>2, <1>4, <2>2, <6>1, Zenon
              <7>2. s \in Holders \cup Range(chunk) => ~(LogBytes[s] > 0)
                BY <5>2, <5>3, Zenon
              <7> QED
                BY <7>1, <7>2, Zenon DEF LogHolders, Holders, Holding
            <6>2. r \in LogHolders'
              BY <1>2, <1>4, <2>2, <5>3, Zenon DEF LogHolders, Holding
            <6>3. LogHolders' \subseteq Results
              BY Zenon DEF LogHolders
            <6> QED
              BY <6>1, <6>2, <6>3, Zenon
          <5> QED
            BY <5>3, <5>4, Zenon
        <4>4. CASE used + LogBytes[r] <= BufferedLogBytes
          BY <4>1, <4>4, Zenon
        <4> QED
          BY <3>4, <4>1, <4>2, <4>3, <4>4, Zenon DEF Fits
      <3> QED
        BY <1>2, <3>3, <3>4, Zenon DEF Budget, drainVars
    <2> QED
      BY <2>1, <2>2, Zenon
  <1> QED
    BY <1>5, <1>6, <1>7, <1>8, <1>9, Zenon

LEMMA HandKeeps == ASSUME FinInv, NEW r \in Results, Hand(r) PROVE FinInv'
  <1> USE DEF FinInv
  <1>1. PICK sent \in BOOLEAN :
            /\ IF sent THEN Len(in) < Capacity ELSE pc = "ended"
            /\ at' = [at EXCEPT ![r] = IF sent THEN "given" ELSE "dropped"]
            /\ in' = IF sent THEN Append(in, r) ELSE in
    BY Zenon DEF Hand
  <1>2. /\ at[r] = "ready" /\ leaving' = leaving + 1
        /\ UNCHANGED <<late, used, left, countVars, drainVars, pc, batch, chunk>>
    BY Zenon DEF Hand
  <1>3. /\ \A s \in Results \ {r} : at'[s] = at[s]
        /\ Underway' = Underway \ {r} /\ r \in Underway
        /\ sent => at'[r] = "given" /\ Holders' = Holders
        /\ ~sent => at'[r] = "dropped"
    <2>0. at[r] \in Under \cap Holding /\ "given" \in Holding \ Under /\ "dropped" \notin Under
      BY <1>2, Zenon DEF Under, Holding
    <2>1. CASE sent
      <3>1. at' = [at EXCEPT ![r] = "given"]
        BY <1>1, <2>1, Zenon
      <3> QED
        BY <2>0, <2>1, <3>1, Moves, Zenon
    <2>2. CASE ~sent
      <3>1. at' = [at EXCEPT ![r] = "dropped"]
        BY <1>1, <2>2, Zenon
      <3> QED
        BY <2>0, <2>2, <3>1, Moves, Zenon
    <2> QED
      BY <2>1, <2>2, Zenon
  <1>4. r \notin Range(in) /\ r \notin Range(batch) /\ in \in Seq(Results)
    BY <1>2, Zenon DEF Given, TypeOK
  <1>5. /\ Append(in, r) \in Seq(Results) /\ Range(Append(in, r)) = Range(in) \cup {r}
        /\ Distinct(Append(in, r))
    BY <1>4, Appended, Zenon DEF Given
  <1>6. TypeOK'
    <2>1. in' \in Seq(Results) /\ Len(in') <= Capacity
      <3>1. Len(Append(in, r)) = Len(in) + 1 /\ Len(in) \in Nat /\ Capacity \in Nat
        BY <1>4, FinalizerAssumption
      <3>2. sent => Len(in') <= Capacity
        BY <1>1, <3>1
      <3> QED
        BY <1>1, <1>5, <3>2, Zenon DEF TypeOK
    <2> QED
      BY <1>1, <1>2, <2>1 DEF TypeOK, countVars, drainVars, Places, InHand
  <1>7. Given'
    <2>1. CASE sent
      <3>1. in' = Append(in, r)
        BY <1>1, <2>1, Zenon
      <3>2. Distinct(in') /\ Distinct(batch') /\ Distinct(chunk') /\ Range(in') \cap Range(batch') = {}
        BY <1>2, <1>4, <1>5, <3>1, Zenon DEF Given
      <3>3. \A s \in Results : at'[s] = "given" <=> s \in Range(in') \cup Range(batch')
        BY <1>2, <1>3, <1>5, <2>1, <3>1, Zenon DEF Given
      <3> QED
        BY <3>2, <3>3, Zenon DEF Given
    <2>2. CASE ~sent
      BY <1>1, <1>2, <1>3, <2>2, GivenStays, Zenon
    <2> QED
      BY <2>1, <2>2, Zenon
  <1>8. Counts' /\ open # 0
    <2>1. /\ Cardinality(Underway) \in Nat /\ Cardinality(Underway) >= 1
          /\ Cardinality(Underway') = Cardinality(Underway) - 1
      BY <1>3, HoldersAre, Sizes, Zenon
    <2> QED
      BY <1>2, <2>1 DEF Counts, countVars, TypeOK
  <1>9. Phases' /\ Idle'
    BY <1>2, <1>8, Zenon DEF Phases, Idle, countVars, drainVars
  <1>10. Budget'
    <2>1. CASE sent
      BY <1>2, <1>3, <2>1, BudgetStays, Zenon DEF drainVars
    <2>2. CASE ~sent
      BY <1>1, <1>2, <2>2, Zenon DEF Budget, Phases, drainVars
    <2> QED
      BY <2>1, <2>2, Zenon
  <1> QED
    BY <1>6, <1>7, <1>8, <1>9, <1>10, Zenon

LEMMA SubmitDoneKeeps == ASSUME FinInv, SubmitDone PROVE FinInv'
  <1> USE DEF FinInv
  <1>1. /\ leaving' = leaving - 1 /\ leaving > 0 /\ open' = open - 1
        /\ seen' = IF pc = "check" THEN [seen EXCEPT !.open = @ - 1] ELSE seen
        /\ UNCHANGED <<at, late, in, used, closed, refused, drainVars, pc, batch, chunk>>
    BY Zenon DEF SubmitDone, IsDone
  <1>2. Underway' = Underway /\ Holders' = Holders
    BY <1>1, Zenon DEF Underway, Holders
  <1>3. Cardinality(Underway) \in Nat
    BY HoldersAre, Sizes, Zenon
  <1>4. Counts' /\ open \in Nat /\ open > 0
    BY <1>1, <1>2, <1>3 DEF Counts, TypeOK
  <1>5. TypeOK'
    BY <1>1, <1>4 DEF TypeOK, SubmitDone, drainVars
  <1>6. Given'
    BY <1>1, GivenStays, Zenon
  <1>7. Phases'
    BY <1>1, Zenon DEF Phases, drainVars
  <1>8. Idle'
    BY <1>1, <1>4 DEF Idle, TypeOK, drainVars
  <1>9. Budget'
    BY <1>1, <1>2, BudgetStays, Zenon DEF drainVars
  <1> QED
    BY <1>4, <1>5, <1>6, <1>7, <1>8, <1>9, Zenon

-----------------------------------------------------------------------------
(***************************************************************************)
(* run.                                                                     *)
(***************************************************************************)
\* The steps that leave the results and the counts where they are.
LEMMA LoopKeeps ==
    ASSUME FinInv, UNCHANGED <<at, late, in, leaving, used, open, closed, refused, batch, chunk>>,
           TypeOK', Phases', Idle', draining => draining', pc' # "ended" => pc # "ended"
    PROVE  FinInv'
  <1> USE DEF FinInv
  <1>1. Underway' = Underway /\ Holders' = Holders
    BY Zenon DEF Underway, Holders
  <1>2. Given'
    BY GivenStays, Zenon
  <1>3. Counts'
    BY <1>1, Zenon DEF Counts
  <1>4. Budget'
    <2>1. LogHolders' = LogHolders
      BY Zenon DEF LogHolders
    <2> QED
      BY <1>1, <2>1, Zenon DEF Budget
  <1> QED
    BY <1>2, <1>3, <1>4, Zenon

\* A result received goes from the buffer to the batch.
LEMMA ReceiveKeeps ==
    ASSUME FinInv, Receive, UNCHANGED <<at, late, leaving, used, countVars, chunk, draining>>,
           TypeOK', pc \notin {"ended", "check", "swap"}, pc' \in {"loop", "flush", "take"}, ~draining => pc' # "take",
           chunk = <<>>
    PROVE  FinInv'
  <1> USE DEF FinInv
  <1>1. in # <<>> /\ batch' = Append(batch, Head(in)) /\ in' = Tail(in) /\ in \in Seq(Results) /\ batch \in Seq(Results)
    BY Zenon DEF Receive, TypeOK
  <1>2. /\ Head(in) \in Results /\ Range(in) = {Head(in)} \cup Range(in') /\ Distinct(in') /\ Head(in) \notin Range(in')
    BY <1>1, Headed, Zenon DEF Given
  <1>3. Head(in) \notin Range(batch)
    BY <1>2, Zenon DEF Given
  <1>4. Range(batch') = Range(batch) \cup {Head(in)} /\ Distinct(batch') /\ batch' # <<>>
    BY <1>1, <1>2, <1>3, Appended, Zenon DEF Given
  <1>5. Given'
    <2>1. Range(in') \cap Range(batch') = {}
      BY <1>2, <1>4, Zenon DEF Given
    <2>2. \A r \in Results : at'[r] = "given" <=> r \in Range(in') \cup Range(batch')
      BY <1>2, <1>4, Zenon DEF Given
    <2> QED
      BY <1>2, <1>4, <2>1, <2>2, Zenon DEF Given
  <1>6. Underway' = Underway /\ Holders' = Holders
    BY Zenon DEF Underway, Holders
  <1>7. Counts'
    BY <1>6, Zenon DEF Counts, countVars
  <1>8. Phases' /\ Idle'
    BY <1>4, Zenon DEF Phases, Idle, countVars
  <1>9. Budget'
    BY <1>6, BudgetStays, Zenon
  <1> QED
    BY <1>5, <1>7, <1>8, <1>9, Zenon

\* What a received result leaves has its type.
LEMMA ReceiveTypes ==
    ASSUME TypeOK, Receive
    PROVE  batch' \in Seq(Results) /\ in' \in Seq(Results) /\ Len(in') <= Capacity
  <1>1. in # <<>> /\ batch' = Append(batch, Head(in)) /\ in' = Tail(in) /\ in \in Seq(Results) /\ batch \in Seq(Results)
    BY Zenon DEF Receive, TypeOK
  <1>2. Head(in) \in Results /\ Tail(in) \in Seq(Results) /\ Len(Tail(in)) <= Len(in)
    BY <1>1, Headed, Zenon
  <1>3. batch' \in Seq(Results)
    BY <1>1, <1>2, Appended, Zenon
  <1>4. Len(in') <= Capacity
    BY <1>1, <1>2, FinalizerAssumption DEF TypeOK
  <1> QED
    BY <1>1, <1>2, <1>3, <1>4, Zenon

\* What is left to show of the type of a step that receives.
LEMMA ReceiveTyped ==
    ASSUME TypeOK, Receive, UNCHANGED <<at, late, leaving, used, chunk>>, UNCHANGED countVars, left' \in BOOLEAN,
           stopping' \in BOOLEAN, draining' \in BOOLEAN, deadline' \in {"unset", "set", "passed"},
           expiry' \in BOOLEAN, force' \in BOOLEAN, idle' \in BOOLEAN,
           pc' \in {"loop", "flush", "release", "take", "load", "check", "swap", "wait", "ended"}
    PROVE  TypeOK'
  <1>1. /\ at' \in [Results -> Places] /\ late' \subseteq Results /\ leaving' \in Nat /\ used' \in Nat
        /\ chunk' \in Seq(Results)
    BY Zenon DEF TypeOK
  <1> QED
    BY <1>1, ReceiveTypes, CountTyped, Zenon DEF TypeOK

LEMMA TakeKeeps == ASSUME FinInv, Take PROVE FinInv'
  <1> USE DEF FinInv
  <1>1. /\ pc = "loop" /\ Receive /\ pc' \in {"loop", "flush"}
        /\ UNCHANGED <<at, late, leaving, used, countVars, left, drainVars, chunk>>
    BY Zenon DEF Take
  <1>2. TypeOK'
    <2>1. pc' \in {"loop", "flush", "release", "take", "load", "check", "swap", "wait", "ended"}
      BY <1>1, Zenon
    <2>2. UNCHANGED countVars /\ UNCHANGED drainVars /\ left' \in BOOLEAN
      BY <1>1, Zenon DEF TypeOK
    <2> QED
      BY <1>1, <2>1, <2>2, ReceiveTyped, DrainTyped, Zenon
  <1>3. chunk = <<>> /\ pc \notin {"ended", "check", "swap"} /\ pc' \in {"loop", "flush", "take"} /\ pc' # "take"
    BY <1>1, Zenon DEF Phases
  <1> QED
    BY <1>1, <1>2, <1>3, ReceiveKeeps, Zenon DEF drainVars

LEMMA DrainTakeKeeps == ASSUME FinInv, DrainTake PROVE FinInv'
  <1> USE DEF FinInv
  <1>1. /\ pc = "take" /\ Receive /\ pc' = pc
        /\ UNCHANGED <<at, late, leaving, used, countVars, left, drainVars, chunk>>
    BY Zenon DEF DrainTake
  <1>2. TypeOK'
    <2>1. pc' \in {"loop", "flush", "release", "take", "load", "check", "swap", "wait", "ended"}
      BY <1>1, Zenon
    <2>2. UNCHANGED countVars /\ UNCHANGED drainVars /\ left' \in BOOLEAN
      BY <1>1, Zenon DEF TypeOK
    <2> QED
      BY <1>1, <2>1, <2>2, ReceiveTyped, DrainTyped, Zenon
  <1>3. chunk = <<>> /\ pc \notin {"ended", "check", "swap"} /\ pc' \in {"loop", "flush", "take"} /\ draining
    BY <1>1, Zenon DEF Phases
  <1> QED
    BY <1>1, <1>2, <1>3, ReceiveKeeps, Zenon DEF drainVars

LEMMA DrainWaitKeeps == ASSUME FinInv, DrainWait PROVE FinInv'
  <1> USE DEF FinInv
  <1>1. /\ pc = "wait" /\ pc' = "take"
        /\ UNCHANGED <<at, late, leaving, used, countVars, stopping, draining, deadline, force, idle, chunk>>
    BY Zenon DEF DrainWait
  <1>2. left' \in BOOLEAN /\ expiry' \in BOOLEAN
    BY Zenon DEF DrainWait, TypeOK
  <1>3. chunk = <<>> /\ pc \notin {"ended", "check", "swap"} /\ pc' \in {"loop", "flush", "take"} /\ draining
    BY <1>1, Zenon DEF Phases
  <1>4. CASE Receive
    <2>1. TypeOK'
      <3>1. /\ stopping' \in BOOLEAN /\ draining' \in BOOLEAN /\ deadline' \in {"unset", "set", "passed"}
            /\ force' \in BOOLEAN /\ idle' \in BOOLEAN
            /\ pc' \in {"loop", "flush", "release", "take", "load", "check", "swap", "wait", "ended"}
        BY <1>1, Zenon DEF TypeOK
      <3> QED
        BY <1>1, <1>2, <1>4, <3>1, ReceiveTyped, Zenon
    <2> QED
      BY <1>1, <1>3, <1>4, <2>1, ReceiveKeeps, Zenon
  <1>5. CASE UNCHANGED <<in, batch>>
    <2>1. TypeOK'
      BY <1>1, <1>2, <1>5, ZenonT(30) DEF TypeOK, countVars
    <2>2. Phases' /\ Idle'
      BY <1>1, <1>3, <1>5, Zenon DEF Phases, Idle, countVars
    <2> QED
      BY <1>1, <1>5, <2>1, <2>2, LoopKeeps, Zenon DEF countVars
  <1> QED
    BY <1>4, <1>5, Zenon DEF DrainWait

LEMMA QuietStepsKeep ==
    ASSUME FinInv, FinCancel \/ Expire \/ Timer \/ Drain \/ StopLoad
    PROVE  FinInv'
  <1> USE DEF FinInv, submitVars, countVars, drainVars
  <1>1. CASE FinCancel
    <2>0. TypeOK'
      BY <1>1 DEF FinCancel, TypeOK
    <2>1. TypeOK' /\ Phases' /\ Idle'
      BY <1>1, <2>0, Zenon DEF FinCancel, Phases, Idle
    <2> QED
      BY <1>1, <2>1, LoopKeeps, Zenon DEF FinCancel
  <1>2. CASE Expire
    <2>0. TypeOK'
      BY <1>2 DEF Expire, TypeOK
    <2>1. TypeOK' /\ Phases' /\ Idle'
      BY <1>2, <2>0, Zenon DEF Expire, Phases, Idle
    <2> QED
      BY <1>2, <2>1, LoopKeeps, Zenon DEF Expire
  <1>3. CASE Timer
    <2>0. TypeOK'
      BY <1>3 DEF Timer, TypeOK
    <2>1. TypeOK' /\ Phases' /\ Idle'
      BY <1>3, <2>0, Zenon DEF Timer, Phases, Idle
    <2> QED
      BY <1>3, <2>1, LoopKeeps, Zenon DEF Timer
  <1>4. CASE Drain
    <2>0. TypeOK'
      BY <1>4 DEF Drain, TypeOK
    <2>1. TypeOK' /\ Phases' /\ Idle'
      BY <1>4, <2>0, Zenon DEF Drain, Phases, Idle
    <2> QED
      BY <1>4, <2>1, LoopKeeps, Zenon DEF Drain
  <1>5. CASE StopLoad
    <2>1. TypeOK' /\ Idle'
      BY <1>5 DEF StopLoad, TypeOK, Idle
    <2>2. Phases'
      BY <1>5, Zenon DEF StopLoad, Phases
    <2> QED
      BY <1>5, <2>1, <2>2, LoopKeeps, ZenonT(30) DEF StopLoad
  <1> QED
    BY <1>1, <1>2, <1>3, <1>4, <1>5, Zenon

\* stopIfIdle, once it has loaded submits.
LEMMA StopCheckKeeps == ASSUME FinInv, StopCheck PROVE FinInv'
  <1> USE DEF FinInv
  <1>1. /\ pc = "check" /\ idle' = (seen.open = 0 /\ in = <<>>)
        /\ pc' = IF ~closed /\ (idle' \/ force) THEN "swap" ELSE IF idle' THEN "ended" ELSE "wait"
        /\ seen' = [seen EXCEPT !.open = 0]
        /\ UNCHANGED <<submitVars, open, closed, refused, left, stopping, draining, deadline, expiry, force, batch, chunk>>
    BY Zenon DEF StopCheck
  <1>2. seen' \in [open : Int, changed : BOOLEAN] /\ seen'.changed = seen.changed
    BY <1>1 DEF TypeOK
  <1>3. idle' \in BOOLEAN /\ pc' \in {"swap", "ended", "wait"}
    BY <1>1, Zenon
  <1>4. TypeOK'
    <2>1. pc' \in {"loop", "flush", "release", "take", "load", "check", "swap", "wait", "ended"}
      BY <1>3, Zenon
    <2> QED
      BY <1>1, <1>2, <1>3, <2>1, ZenonT(30) DEF TypeOK, submitVars
  <1>5. Phases'
    BY <1>1, <1>3, Zenon DEF Phases
  <1>6. idle' /\ ~seen.changed => open' = 0 /\ in' = <<>>
    BY <1>1, Zenon DEF Idle, submitVars
  <1>7. closed /\ ~refused => ~seen.changed
    BY <1>1, Zenon DEF Idle
  <1>8. Idle'
    BY <1>1, <1>2, <1>3, <1>6, <1>7, Zenon DEF Idle
  <1> QED
    BY <1>1, <1>4, <1>5, <1>8, LoopKeeps, Zenon DEF submitVars

LEMMA StopSwapKeeps == ASSUME FinInv, StopSwap PROVE FinInv'
  <1> USE DEF FinInv
  <1>1. /\ pc = "swap" /\ closed' = ~seen.changed
        /\ pc' = IF ~closed' THEN "load" ELSE IF idle THEN "ended" ELSE "wait"
        /\ UNCHANGED <<submitVars, open, refused, seen, left, drainVars, batch, chunk>>
    BY Zenon DEF StopSwap, Swaps
  <1>2. pc' \in {"load", "ended", "wait"} /\ closed' \in BOOLEAN
    BY <1>1, Zenon
  <1>3. TypeOK'
    <2>1. pc' \in {"loop", "flush", "release", "take", "load", "check", "swap", "wait", "ended"}
      BY <1>2, Zenon
    <2> QED
      BY <1>1, <1>2, <2>1, ZenonT(30) DEF TypeOK, submitVars, drainVars
  <1>4. Phases'
    BY <1>1, <1>2, Zenon DEF Phases, drainVars
  <1>5. Idle'
    BY <1>1, <1>2, Zenon DEF Idle, submitVars
  <1>6. Underway' = Underway /\ Holders' = Holders /\ LogHolders' = LogHolders
    BY <1>1, Zenon DEF Underway, Holders, LogHolders, submitVars
  <1>7. Given' /\ Counts'
    BY <1>1, <1>6, GivenStays, Zenon DEF Counts, submitVars
  <1>8. Budget'
    BY <1>1, <1>2, <1>6, Zenon DEF Budget, submitVars, drainVars
  <1> QED
    BY <1>3, <1>4, <1>5, <1>7, <1>8, Zenon

LEMMA FlushKeeps == ASSUME FinInv, NEW held \in SUBSET Holdable, Flush(held) PROVE FinInv'
  <1> USE DEF FinInv
  <1>1. /\ pc = "flush" /\ chunk' = FirstFlush(batch) /\ held \subseteq Holdable \cap Range(chunk')
        /\ batch' = SubSeq(batch, Len(chunk') + 1, Len(batch))
        /\ at' = [r \in Results |->
                     IF r \in held THEN IF closed THEN "dropped" ELSE "delayed"
                     ELSE IF r \in Range(chunk') THEN "settled" ELSE at[r]]
        /\ Starts(IF closed THEN 0 ELSE Cardinality(held))
        /\ pc' = "release" /\ left' = (left \/ (closed /\ held # {}))
        /\ UNCHANGED <<late, in, leaving, used, closed, refused, drainVars>>
    BY Zenon DEF Flush
  <1>2. batch # <<>> /\ batch \in Seq(Results) /\ chunk = <<>>
    BY <1>1, Zenon DEF Phases, TypeOK
  <1>3. /\ chunk' \in Seq(Results) /\ batch' \in Seq(Results) /\ chunk' # <<>>
        /\ Range(batch) = Range(chunk') \cup Range(batch')
        /\ Distinct(chunk') /\ Distinct(batch') /\ Range(chunk') \cap Range(batch') = {}
    <2>1. PICK n \in 1..Len(batch) : chunk' = SubSeq(batch, 1, n)
      BY <1>1, <1>2, FlushCuts, Zenon
    <2> DEFINE d == SubSeq(batch, n + 1, Len(batch))
    <2>2. /\ chunk' \in Seq(Results) /\ d \in Seq(Results) /\ chunk' # <<>> /\ Len(chunk') = n
          /\ Range(batch) = Range(chunk') \cup Range(d)
          /\ Distinct(chunk') /\ Distinct(d) /\ Range(chunk') \cap Range(d) = {}
      BY <1>2, <2>1, Cut, Zenon DEF Given
    <2>3. batch' = d
      BY <1>1, <2>2, Zenon
    <2> QED
      BY <2>2, <2>3, Zenon
  <1>4. /\ held \in SUBSET Range(chunk') /\ Range(chunk') \in SUBSET Results
        /\ \A r \in Range(chunk') : at[r] = "given"
    BY <1>1, <1>3, HoldersAre, Zenon DEF Given
  <1>5. /\ \A r \in held : at'[r] = IF closed THEN "dropped" ELSE "delayed"
        /\ \A r \in Range(chunk') \ held : at'[r] = "settled"
        /\ \A r \in Results \ Range(chunk') : at'[r] = at[r]
    BY <1>1, <1>4, Zenon
  <1>6. held \in SUBSET Results /\ Cardinality(held) \in Nat /\ IsFiniteSet(held)
    BY <1>4, Sizes, Zenon
  <1>7. open' = open + (IF closed THEN 0 ELSE Cardinality(held)) /\ seen' = seen
    BY <1>1, Zenon DEF Starts
  <1>8. TypeOK'
    <2>1. at' \in [Results -> Places]
      <3>1. \A r \in Results : at'[r] \in Places
        BY <1>5, Zenon DEF Places, InHand, TypeOK
      <3> QED
        BY <1>1, <3>1, Zenon
    <2>2. open' \in Nat
      BY <1>6, <1>7 DEF TypeOK
    <2>3. left' \in BOOLEAN
      BY <1>1, Zenon
    <2>4. pc' \in {"loop", "flush", "release", "take", "load", "check", "swap", "wait", "ended"}
      BY <1>1, Zenon
    <2> QED
      BY <1>1, <1>3, <1>7, <2>1, <2>2, <2>3, <2>4, ZenonT(30) DEF TypeOK, drainVars
  <1>9. Given'
    <2>1. Range(in') \cap Range(batch') = {}
      BY <1>1, <1>3, Zenon DEF Given
    <2>2. \A r \in Range(chunk') : at'[r] # "given" /\ r \notin Range(in') \cup Range(batch')
      <3> SUFFICES ASSUME NEW r \in Range(chunk') PROVE at'[r] # "given" /\ r \notin Range(in') \cup Range(batch')
        BY Zenon
      <3>1. at'[r] # "given"
        BY <1>5, Zenon
      <3>2. r \notin Range(in') \cup Range(batch')
        BY <1>1, <1>3, Zenon DEF Given
      <3> QED
        BY <3>1, <3>2, Zenon
    <2>3. \A r \in Results \ Range(chunk') : at'[r] = "given" <=> r \in Range(in') \cup Range(batch')
      BY <1>1, <1>3, <1>5, Zenon DEF Given
    <2> QED
      BY <1>1, <1>3, <2>1, <2>2, <2>3, Zenon DEF Given
  <1>10. Counts'
    <2>1. closed => Underway' = Underway
      BY <1>4, <1>5, Zenon DEF Underway, Under
    <2>2. ~closed => Underway' = Underway \cup held /\ Underway \cap held = {}
      BY <1>4, <1>5, <1>6, Zenon DEF Underway, Under
    <2>3. Cardinality(Underway) \in Nat /\ IsFiniteSet(Underway)
      BY HoldersAre, Sizes, Zenon
    <2>4. CASE closed
      BY <1>1, <1>7, <2>1, <2>3, <2>4 DEF Counts, TypeOK
    <2>5. CASE ~closed
      <3>1. Cardinality(Underway') = Cardinality(Underway) + Cardinality(held) - 0
        <4>1. Cardinality(Underway \cup held) = Cardinality(Underway) + Cardinality(held) - Cardinality(Underway \cap held)
          BY <1>6, <2>3, FS_Union, Zenon
        <4>2. Cardinality(Underway \cap held) = 0
          BY <2>2, <2>5, FS_EmptySet, Zenon
        <4> QED
          BY <2>2, <2>5, <4>1, <4>2, Zenon
      <3> QED
        BY <1>1, <1>6, <1>7, <2>3, <2>5, <3>1 DEF Counts, TypeOK
    <2> QED
      BY <2>4, <2>5, Zenon
  <1>11. Phases' /\ Idle'
    BY <1>1, Zenon DEF Phases, Idle, drainVars
  <1>12. Budget'
    <2>1. Holders' = Holders \ Range(chunk') /\ Range(chunk') \in SUBSET Holders
      BY <1>4, <1>5, Zenon DEF Holders, Holding
    <2>2. Logs(Holders) = Logs(Range(chunk')) + Logs(Holders')
      BY <2>1, HoldersAre, LogsLess, Zenon
    <2>3. Logs(Holders') \in Nat /\ Logs(Range(chunk')) \in Nat /\ Range(chunk) = {}
      <3>1. Range(chunk) = {}
        BY <1>2 DEF Range
      <3> QED
        BY <1>4, <2>1, <3>1, HoldersAre, LogsNat, Zenon
    <2>4. used' = Logs(Holders') + Logs(Range(chunk'))
      <3>1. used = Logs(Holders) + 0
        BY <1>1, <2>3, LogsNone, Zenon DEF Budget
      <3> QED
        BY <1>1, <2>2, <2>3, <3>1
    <2>5. LogHolders' = LogHolders
      <3>1. \A r \in Results : r \in Range(chunk') => at[r] = "given"
        BY <1>4, Zenon
      <3>2. \A r \in Results : (at'[r] \in {"ready", "given"} \/ r \in Range(chunk')) <=> (at[r] \in {"ready", "given"} \/ r \in Range(chunk))
        BY <1>4, <1>5, <2>3, Zenon
      <3> QED
        BY <3>2, Zenon DEF LogHolders
    <2> QED
      BY <1>1, <2>4, <2>5, Zenon DEF Budget, drainVars
  <1> QED
    BY <1>8, <1>9, <1>10, <1>11, <1>12, Zenon

LEMMA ReleaseKeeps == ASSUME FinInv, Release PROVE FinInv'
  <1> USE DEF FinInv
  <1>1. /\ pc = "release" /\ used' = used - Logs(Range(chunk)) /\ chunk' = <<>>
        /\ pc' = IF ~draining THEN "loop" ELSE IF batch # <<>> THEN "flush" ELSE "load"
        /\ UNCHANGED <<at, late, in, leaving, countVars, left, stopping, draining, force, idle, batch>>
    BY Zenon DEF Release, ReleaseChunk
  <1>2. deadline' \in {"unset", "set", "passed"} /\ expiry' \in BOOLEAN
    BY Zenon DEF Release, TypeOK
  <1>3. Underway' = Underway /\ Holders' = Holders
    BY <1>1, Zenon DEF Underway, Holders
  <1>4. Logs(Holders) \in Nat /\ Logs(Range(chunk)) \in Nat
    BY HoldersAre, LogsNat, Zenon
  <1>5. used = Logs(Holders) + Logs(Range(chunk))
    BY <1>1, Zenon DEF Budget
  <1>6. used' = Logs(Holders) /\ used' <= used
    BY <1>1, <1>4, <1>5
  <1>7. Range(chunk') = {} /\ <<>> \in Seq(Results) /\ Distinct(chunk')
    BY <1>1 DEF Range, Distinct
  <1>8. TypeOK'
    <2>1. pc' \in {"loop", "flush", "release", "take", "load", "check", "swap", "wait", "ended"}
      BY <1>1, Zenon
    <2> QED
      BY <1>1, <1>2, <1>4, <1>6, <1>7, <2>1, ZenonT(30) DEF TypeOK, countVars
  <1>9. Given'
    BY <1>1, <1>7, Zenon DEF Given
  <1>10. Counts'
    BY <1>1, <1>3, Zenon DEF Counts, countVars
  <1>11. Phases' /\ Idle'
    BY <1>1, Zenon DEF Phases, Idle, countVars
  <1>12. Budget'
    <2>1. used' = Logs(Holders') + Logs(Range(chunk'))
      <3>1. Logs(Range(chunk')) = 0
        BY <1>7, LogsNone, Zenon
      <3> QED
        BY <1>3, <1>4, <1>6, <3>1
    <2>2. ASSUME ~draining, ~(used' <= BufferedLogBytes)
          PROVE  \E r \in Results : LogHolders' = {r} /\ used' = LogBytes[r]
      <3>0. used \in Nat /\ used' \in Nat /\ BufferedLogBytes \in Nat
        BY <1>4, <1>6, FinalizerAssumption, Zenon DEF TypeOK
      <3>1. ~(used <= BufferedLogBytes) /\ used' # 0
        BY <1>6, <2>2, <3>0
      <3>2. PICK r \in Results : LogHolders = {r} /\ used = LogBytes[r]
        BY <2>2, <3>1, Zenon DEF Budget
      <3> DEFINE P == {s \in Holders : LogBytes[s] > 0}
      <3>3. P \subseteq {r} /\ LogHolders' = P
        BY <1>3, <1>7, <3>2, HoldersAre, Zenon DEF LogHolders, Holders, Holding
      <3>4. Logs(P) = used'
        BY <1>6, HoldersAre, LogsOfHolders, Zenon
      <3>5. P # {}
        BY <3>1, <3>4, LogsNone, Zenon
      <3>6. P = {r}
        BY <3>3, <3>5, Zenon
      <3>7. used' = LogBytes[r]
        BY <3>4, <3>6, LogsOne, ZenonT(30)
      <3> QED
        BY <3>3, <3>6, <3>7, Zenon
    <2> QED
      BY <1>1, <2>1, <2>2, Zenon DEF Budget
  <1> QED
    BY <1>8, <1>9, <1>10, <1>11, <1>12, Zenon

LEMMA DrainBatchKeeps == ASSUME FinInv, DrainBatch PROVE FinInv'
  <1> USE DEF FinInv
  <1>1. /\ pc = "take" /\ in = <<>> /\ force' = (deadline = "passed")
        /\ at' = [r \in Results |-> IF r \in TooLate THEN "dropped" ELSE at[r]]
        /\ batch' = Without(batch, TooLate) /\ used' = used - Logs(TooLate)
        /\ pc' = IF batch' # <<>> THEN "flush" ELSE "load"
        /\ UNCHANGED <<late, in, leaving, countVars, left, stopping, draining, idle, chunk>>
    BY Zenon DEF DrainBatch
  <1>2. deadline' \in {"unset", "set", "passed"} /\ expiry' \in BOOLEAN
    BY Zenon DEF DrainBatch, TypeOK
  <1>3. TooLate \in SUBSET Range(batch) /\ Range(batch) \in SUBSET Results /\ batch \in Seq(Results) /\ Distinct(batch)
    BY HoldersAre, Zenon DEF TooLate, Given, TypeOK
  <1>4. batch' \in Seq(Results) /\ Distinct(batch') /\ Range(batch') = Range(batch) \ TooLate
    BY <1>1, <1>3, WithoutIs, Zenon
  <1>5. /\ \A r \in TooLate : at'[r] = "dropped" /\ at[r] = "given" /\ r \in Results
        /\ \A r \in Results \ TooLate : at'[r] = at[r]
    BY <1>1, <1>3, Zenon DEF Given
  <1>6. Underway' = Underway /\ Holders' = Holders \ TooLate /\ TooLate \in SUBSET Holders
    BY <1>5, Zenon DEF Underway, Under, Holders, Holding
  <1>7. Logs(Holders) = Logs(TooLate) + Logs(Holders')
    BY <1>6, HoldersAre, LogsLess, Zenon
  <1>8. Logs(TooLate) \in Nat /\ Logs(Holders') \in Nat /\ Logs(Range(chunk)) \in Nat
    BY <1>3, <1>6, HoldersAre, LogsNat, Zenon
  <1>9. used = Logs(Holders) + Logs(Range(chunk)) /\ draining
    BY <1>1, Zenon DEF Budget, Phases
  <1>10. used' = Logs(Holders') + Logs(Range(chunk)) /\ used' \in Nat
    BY <1>1, <1>7, <1>8, <1>9
  <1>11. TypeOK'
    <2>1. at' \in [Results -> Places]
      <3>1. \A r \in Results : at'[r] \in Places
        BY <1>5, Zenon DEF Places, TypeOK
      <3> QED
        BY <1>1, <3>1, Zenon
    <2>2. force' \in BOOLEAN
      BY <1>1, Zenon
    <2>3. pc' \in {"loop", "flush", "release", "take", "load", "check", "swap", "wait", "ended"}
      BY <1>1, Zenon
    <2> QED
      BY <1>1, <1>2, <1>4, <1>10, <2>1, <2>2, <2>3, ZenonT(30) DEF TypeOK, countVars
  <1>12. Given'
    <2>1. Range(in') \cap Range(batch') = {}
      BY <1>1, <1>4, Zenon DEF Given
    <2>2. \A r \in Results : at'[r] = "given" <=> r \in Range(in') \cup Range(batch')
      <3>1. ASSUME NEW r \in TooLate PROVE at'[r] # "given" /\ r \notin Range(in') \cup Range(batch')
        BY <1>1, <1>3, <1>4, <1>5, Zenon DEF Given
      <3>2. ASSUME NEW r \in Results \ TooLate PROVE at'[r] = "given" <=> r \in Range(in') \cup Range(batch')
        BY <1>1, <1>4, <1>5, Zenon DEF Given
      <3> QED
        BY <3>1, <3>2, Zenon
    <2> QED
      BY <1>1, <1>4, <2>1, <2>2, Zenon DEF Given
  <1>13. Counts'
    BY <1>1, <1>6, Zenon DEF Counts, countVars
  <1>14. Phases' /\ Idle'
    BY <1>1, <1>9, Zenon DEF Phases, Idle, countVars
  <1>15. Budget'
    BY <1>1, <1>9, <1>10, Zenon DEF Budget
  <1> QED
    BY <1>11, <1>12, <1>13, <1>14, <1>15, Zenon

-----------------------------------------------------------------------------
LEMMA FinInit == Init => FinInv
  <1> SUFFICES ASSUME Init PROVE FinInv
    BY Zenon
  <1>1. in = <<>> /\ batch = <<>> /\ chunk = <<>> /\ Range(<<>>) = {} /\ Distinct(<<>>) /\ <<>> \in Seq(Results) /\ Len(<<>>) = 0
    BY DEF Init, Range, Distinct
  <1>2. \A r \in Results : at[r] = "worker"
    BY Zenon DEF Init
  <1>3. TypeOK
    <2>1. Len(in) <= Capacity
      BY <1>1, FinalizerAssumption
    <2>2. at \in [Results -> Places] /\ pc \in {"loop", "flush", "release", "take", "load", "check", "swap", "wait", "ended"}
      BY Zenon DEF Init, Places
    <2>3. seen \in [open : Int, changed : BOOLEAN] /\ 0 \in Nat
      BY DEF Init
    <2> QED
      BY <1>1, <2>1, <2>2, <2>3, Zenon DEF Init, TypeOK
  <1>4. Given
    BY <1>1, <1>2, Zenon DEF Given
  <1>5. Underway = {} /\ Holders = {}
    BY <1>2, Zenon DEF Underway, Holders, Under, Holding
  <1>6. Counts
    BY <1>5, FS_EmptySet DEF Counts, Init
  <1>7. Phases /\ Idle
    BY <1>1, Zenon DEF Phases, Idle, Init
  <1>8. Budget
    <2>1. used = Logs(Holders) + Logs(Range(chunk)) /\ used <= BufferedLogBytes
      <3>1. Logs(Holders) = 0 /\ Logs(Range(chunk)) = 0 /\ used = 0
        BY <1>1, <1>5, LogsNone, Zenon DEF Init
      <3> QED
        BY <3>1, FinalizerAssumption
    <2> QED
      BY <2>1, Zenon DEF Budget
  <1> QED
    BY <1>3, <1>4, <1>6, <1>7, <1>8, Zenon DEF FinInv

LEMMA FinStep == FinInv /\ [Next]_vars => FinInv'
  <1> SUFFICES ASSUME FinInv, [Next]_vars PROVE FinInv'
    BY Zenon
  <1>1. CASE UNCHANGED vars
    <2>1. TypeOK'
      BY <1>1 DEF FinInv, TypeOK, vars
    <2>2. Phases'
      BY <1>1, Zenon DEF FinInv, Phases, vars
    <2>3. Idle'
      BY <1>1, Zenon DEF FinInv, Idle, vars
    <2> QED
      BY <1>1, <2>1, <2>2, <2>3, LoopKeeps, Zenon DEF vars
  <1>2. CASE Next
    BY <1>2, SubmitKeeps, AcquireKeeps, HandKeeps, SubmitDoneKeeps, QuietStepsKeep, TakeKeeps, FlushKeeps, ReleaseKeeps,
       DrainTakeKeeps, DrainBatchKeeps, StopCheckKeeps, StopSwapKeeps, DrainWaitKeeps, ZenonT(30) DEF Next, RunStep
  <1> QED
    BY <1>1, <1>2, Zenon

LEMMA FinSound == FinInv => FinalizerSound
  <1> SUFFICES ASSUME FinInv PROVE FinalizerSound
    BY Zenon
  <1> USE DEF FinInv
  <1>1. ASSUME pc = "ended", ~refused, NEW r \in Results PROVE at[r] \notin InHand
    <2>1. open = 0 /\ in = <<>> /\ batch = <<>>
      BY <1>1, Zenon DEF Idle, Phases
    <2>2. Range(in) = {} /\ Range(batch) = {}
      BY <2>1 DEF Range
    <2>3. at[r] # "given"
      BY <2>2, Zenon DEF Given
    <2>4. Cardinality(Underway) \in Nat /\ (Cardinality(Underway) = 0 => Underway = {})
      BY HoldersAre, Sizes, Zenon
    <2>5. Cardinality(Underway) = 0
      BY <2>1, <2>4 DEF Counts, TypeOK
    <2>6. r \notin Underway
      BY <2>4, <2>5, Zenon
    <2> QED
      BY <2>3, <2>6, Zenon DEF Underway, Under, InHand
  <1>2. ASSUME ~draining PROVE Logs(LogHolders) <= BufferedLogBytes \/ Cardinality(LogHolders) = 1
    <2>1. pc # "ended"
      BY <1>2, Zenon DEF Phases
    <2>2. CASE used <= BufferedLogBytes
      <3> DEFINE H == Holders
                 K == Range(chunk) \ Holders
      <3>1. H \in SUBSET Results /\ K \in SUBSET Results /\ H \cap K = {} /\ H \cup K = Holders \cup Range(chunk) /\ K \in SUBSET Range(chunk)
        BY HoldersAre, Zenon
      <3>2. Logs(H \cup K) = Logs(H) + Logs(K) /\ Logs(K) <= Logs(Range(chunk))
        BY <3>1, HoldersAre, LogsApart, LogsLess, Zenon
      <3>3. Logs(LogHolders) = Logs(H \cup K)
        BY <3>1, HoldersAre, LogsOfHolders, Zenon
      <3>4. Logs(H) \in Nat /\ Logs(K) \in Nat /\ Logs(Range(chunk)) \in Nat
        BY <3>1, HoldersAre, LogsNat, Zenon
      <3>5. used = Logs(H) + Logs(Range(chunk))
        BY <2>1, Zenon DEF Budget
      <3> HIDE DEF H, K
      <3> QED
        BY <2>2, <3>2, <3>3, <3>4, <3>5, FinalizerAssumption
    <2>3. CASE ~(used <= BufferedLogBytes)
      <3>1. PICK r \in Results : LogHolders = {r}
        BY <1>2, <2>3, Zenon DEF Budget
      <3> QED
        BY <3>1, FS_Singleton, Zenon
    <2> QED
      BY <2>2, <2>3, Zenon
  <1> QED
    BY <1>1, <1>2, Zenon DEF FinalizerSound, NoneStranded, BudgetKept

\* For any results, sizes of logs, batches and buffers: when run has returned
\* no submit is in flight and no result is left in the buffer or with a timer,
\* but for submits that come once the drain has ended; and until a stop the
\* results in hand keep to the log budget (finalizer.go).
THEOREM FinalizerKept == Spec => []FinalizerSound
  <1>1. Spec => []FinInv
    BY FinInit, FinStep, PTL DEF Spec
  <1> QED
    BY <1>1, FinSound, PTL
=============================================================================
