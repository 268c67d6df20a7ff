----------------------------- MODULE LogProofs -----------------------------
(***************************************************************************)
(* Proofs about what is read by position on SQLite: a listener hears each   *)
(* notification once and in order (SqliteListen), and a consumer is given   *)
(* each event of its stream once and in order (Streams), for any            *)
(* transactions, leaders, seeks, patterns, batches and pages.               *)
(***************************************************************************)
EXTENDS SqliteListen, Streams, FiniteSetTheorems, TLAPS

\* The time a prover may take on a leaf that names none, on a loaded machine too.
USE SMTT(30), ZenonT(30)

\* A set of numbers has a least one, and a greatest if it is bounded.
LEMMA LeastOf ==
    ASSUME NEW S, S \subseteq Nat, S # {}
    PROVE  \E s \in S : \A t \in S : s <= t
  <1>1. \E s \in S : \A t \in S : ~(<<t, s>> \in OpToRel(<, Nat))
    BY NatLessThanWellFounded, WFMin, Zenon
  <1>2. \E s \in S : \A t \in S : ~(t < s)
    BY <1>1, Zenon DEF OpToRel
  <1> QED
    BY <1>2

LEMMA GreatestOf ==
    ASSUME NEW S \in SUBSET Nat, S # {}, NEW N \in Nat, \A m \in S : m <= N
    PROVE  \E n \in S : \A m \in S : m <= n
  <1> DEFINE D == {d \in Nat : N - d \in S}
  <1>1. PICK m \in S : TRUE
    BY Zenon
  <1>2. N - m \in D
    OBVIOUS
  <1>3. PICK d \in D : \A k \in D : d <= k
    BY Zenon, <1>2, LeastOf
  <1>4. N - d \in S
    BY <1>3
  <1>5. \A k \in S : k <= N - d
    <2> SUFFICES ASSUME NEW k \in S PROVE k <= N - d
      OBVIOUS
    <2>1. N - k \in D
      OBVIOUS
    <2>2. d \in Nat /\ d <= N - k
      BY Zenon, <2>1, <1>3
    <2> HIDE DEF D
    <2> QED
      BY <2>2
  <1> QED
    BY <1>4, <1>5

LEMMA MaxIs ==
    ASSUME NEW S \in SUBSET Nat, S # {}, NEW N \in Nat, \A m \in S : m <= N
    PROVE  Max(S) \in S /\ \A m \in S : m <= Max(S)
  <1>1. PICK n \in S : \A m \in S : n >= m
    BY Zenon, GreatestOf
  <1> QED
    BY <1>1, Zenon DEF Max

LEMMA MinIs ==
    ASSUME NEW S \in SUBSET Nat, S # {}
    PROVE  Min(S) \in S /\ \A m \in S : Min(S) <= m
  <1>1. PICK n \in S : \A m \in S : n <= m
    BY Zenon, LeastOf
  <1> QED
    BY <1>1, Zenon DEF Min

-----------------------------------------------------------------------------
(***************************************************************************)
(* SqliteListen.  What is heard is behind what is pending, which is there   *)
(* only between a page and the last of it returned, and the seq up to which *)
(* the listener has read has not passed what is to hear.                    *)
(***************************************************************************)
ListenerPlaces == {"closed", "starts", "version", "rows", "waits", "next"}
ListenTypes ==
    /\ noteSeq \in Nat /\ IsFiniteSet(notes)
    /\ \A n \in notes : n.seq \in Nat /\ n.seq <= noteSeq
    /\ lstn \in [at : ListenerPlaces, last : Nat, version : Int, poked : BOOLEAN, pending : SUBSET Nat, since : Nat]
    /\ dataVersion \in Int
    /\ heard \in Seq(Nat)
ListenOrder ==
    /\ lstn.last <= noteSeq
    /\ lstn.at = "next" <=> lstn.pending # {}
    /\ lstn.at = "starts" => heard = <<>>
    /\ \A s \in lstn.pending : s <= lstn.last
    /\ lstn.at \notin {"closed", "starts"} => \A i \in 1..Len(heard) : heard[i] <= lstn.last
ListenInv == ListenTypes /\ ListenOrder /\ HeardInOrder

LEMMA ListenBegins == ListenInit => ListenInv
  <1> SUFFICES ASSUME ListenInit PROVE ListenInv
    OBVIOUS
  <1>1. lstn = [at |-> "closed", last |-> 0, version |-> -1, poked |-> FALSE, pending |-> {}, since |-> 0]
    BY DEF ListenInit, Closed
  <1>2. IsFiniteSet(notes) /\ notes = {} /\ noteSeq = 0 /\ heard = <<>> /\ dataVersion = 0
    BY FS_EmptySet DEF ListenInit
  <1>3. ListenTypes
    BY <1>1, <1>2 DEF ListenTypes, ListenerPlaces
  <1>4. ListenOrder /\ HeardInOrder
    BY <1>1, <1>2 DEF ListenOrder, HeardInOrder
  <1> QED
    BY <1>3, <1>4 DEF ListenInv

\* The fields of the listener that a step changes.
LEMMA ListenerIs ==
    ASSUME ListenTypes
    PROVE  /\ lstn.at \in ListenerPlaces /\ lstn.last \in Nat /\ lstn.version \in Int /\ lstn.poked \in BOOLEAN
           /\ lstn.pending \in SUBSET Nat /\ lstn.since \in Nat
           /\ DOMAIN heard = 1..Len(heard) /\ Len(heard) \in Nat
  BY DEF ListenTypes

\* The listener goes on with what it has.
LEMMA ListenerGoes ==
    ASSUME ListenInv, UNCHANGED <<notes, noteSeq, dataVersion, heard>>,
           lstn' \in [at : ListenerPlaces, last : Nat, version : Int, poked : BOOLEAN, pending : SUBSET Nat, since : Nat],
           lstn'.last = lstn.last, lstn'.pending = lstn.pending, lstn'.since = lstn.since,
           lstn.at \in {"version", "rows", "waits"}, lstn'.at \in {"version", "rows", "waits"}
    PROVE  ListenInv'
  <1>0. notes' = notes /\ noteSeq' = noteSeq /\ dataVersion' = dataVersion /\ heard' = heard
    OBVIOUS
  <1>1. ListenTypes'
    BY <1>0 DEF ListenInv, ListenTypes
  <1>2. ListenOrder'
    BY <1>0 DEF ListenInv, ListenOrder
  <1>3. HeardInOrder'
    BY <1>0 DEF ListenInv, HeardInOrder
  <1> QED
    BY <1>1, <1>2, <1>3 DEF ListenInv

LEMMA NotifyKeeps ==
    ASSUME ListenInv, NEW c \in Channels, NEW ours \in BOOLEAN, NotifyCommits(c, ours)
    PROVE  ListenInv'
  <1> DEFINE m == [seq |-> noteSeq + 1, channel |-> c, at |-> noteNow]
             kept == {n \in notes : n.at >= noteNow - NoteRetention}
  <1>0. /\ notes' = kept \cup {m} /\ noteSeq' = noteSeq + 1 /\ lstn' = lstn /\ heard' = heard
        /\ dataVersion' = dataVersion + 1
    BY DEF NotifyCommits
  <1>1. kept \subseteq notes /\ m.seq = noteSeq + 1
    OBVIOUS
  <1> HIDE DEF m, kept
  <1>2. IsFiniteSet(notes')
    <2>1. IsFiniteSet(kept)
      BY <1>1, FS_Subset DEF ListenInv, ListenTypes
    <2> QED
      BY <2>1, <1>0, FS_AddElement
  <1>3. ListenTypes'
    BY <1>0, <1>1, <1>2 DEF ListenInv, ListenTypes
  <1>4. ListenOrder'
    BY <1>0, <1>3, ListenerIs DEF ListenInv, ListenOrder, ListenTypes
  <1>5. HeardInOrder'
    <2>1. \A n \in notes' : n.seq <= lstn.last => n \in notes
      BY <1>0, <1>1, ListenerIs DEF ListenInv, ListenOrder, ListenTypes
    <2> QED
      BY <2>1, <1>0 DEF ListenInv, HeardInOrder
  <1> QED
    BY <1>3, <1>4, <1>5 DEF ListenInv

LEMMA StartKeeps ==
    ASSUME ListenInv, NewListener \/ ListenerCloses \/ ReadsStart
    PROVE  ListenInv'
  <1>0. notes' = notes /\ noteSeq' = noteSeq /\ dataVersion' = dataVersion
    BY DEF NewListener, ListenerCloses, ReadsStart
  <1>c. Closed \in [at : ListenerPlaces, last : Nat, version : Int, poked : BOOLEAN, pending : SUBSET Nat, since : Nat]
        /\ Closed.at = "closed" /\ Closed.last = 0 /\ Closed.pending = {} /\ Closed.since = 0
    BY DEF Closed, ListenerPlaces
  <1>1. CASE ListenerCloses
    <2>1. lstn' = Closed /\ heard' = heard
      BY <1>1 DEF ListenerCloses
    <2>2. ListenTypes'
      BY <1>0, <1>c, <2>1 DEF ListenInv, ListenTypes
    <2>3. ListenOrder' /\ HeardInOrder'
      BY <1>0, <1>c, <2>1 DEF ListenInv, ListenTypes, ListenOrder, HeardInOrder
    <2> QED
      BY <2>2, <2>3 DEF ListenInv
  <1>2. CASE NewListener
    <2> DEFINE r == [Closed EXCEPT !.at = "starts"]
    <2>1. lstn' = r /\ heard' = <<>>
      BY <1>2 DEF NewListener
    <2>2. r \in [at : ListenerPlaces, last : Nat, version : Int, poked : BOOLEAN, pending : SUBSET Nat, since : Nat]
          /\ r.at = "starts" /\ r.last = 0 /\ r.pending = {} /\ r.since = 0
      BY <1>c DEF ListenerPlaces
    <2> HIDE DEF r
    <2>3. ListenTypes'
      BY <1>0, <2>1, <2>2 DEF ListenInv, ListenTypes
    <2>4. ListenOrder' /\ HeardInOrder'
      BY <1>0, <2>1, <2>2 DEF ListenInv, ListenTypes, ListenOrder, HeardInOrder
    <2> QED
      BY <2>3, <2>4 DEF ListenInv
  <1>3. CASE ReadsStart
    <2> DEFINE S == {0} \cup NoteSeqs(notes)
               x == Max(S)
    <2>1. x \in Nat /\ x <= noteSeq
      <3>1. noteSeq \in Nat /\ S \in SUBSET Nat /\ S # {} /\ \A s \in S : s <= noteSeq
        BY DEF ListenInv, ListenTypes, NoteSeqs
      <3> HIDE DEF S
      <3>2. x \in S
        BY <3>1, MaxIs, Zenon
      <3> QED
        BY Zenon, <3>1, <3>2
    <2>2. lstn' = [lstn EXCEPT !.at = "version", !.poked = TRUE, !.last = x, !.since = x] /\ heard' = heard /\ lstn.at = "starts"
      BY <1>3 DEF ReadsStart
    <2> HIDE DEF x
    <2>3. lstn' \in [at : ListenerPlaces, last : Nat, version : Int, poked : BOOLEAN, pending : SUBSET Nat, since : Nat]
          /\ lstn'.at = "version" /\ lstn'.last = x /\ lstn'.since = x /\ lstn'.pending = lstn.pending
      BY <2>1, <2>2, Zenon DEF ListenInv, ListenTypes, ListenerPlaces
    <2>4. ListenTypes'
      BY <1>0, <2>2, <2>3 DEF ListenInv, ListenTypes
    <2>5. heard = <<>> /\ lstn.pending = {}
      BY <2>2 DEF ListenInv, ListenOrder
    <2>6. ListenOrder'
      BY <1>0, <2>1, <2>2, <2>3, <2>5 DEF ListenOrder
    <2>7. HeardInOrder'
      BY <1>0, <2>1, <2>2, <2>3, <2>5 DEF HeardInOrder, ListenInv, ListenTypes
    <2> QED
      BY <2>4, <2>6, <2>7 DEF ListenInv
  <1> QED
    BY <1>1, <1>2, <1>3

\* A page leaves out nothing before the last of it.
LEMMA PageIs ==
    ASSUME ListenInv, NEW low \in Nat
    PROVE  /\ Page(low) \subseteq notes
           /\ \A n \in Page(low) : n.seq > low
           /\ \A m \in Page(low), n \in notes : low < n.seq /\ n.seq <= m.seq => n \in Page(low)
  <1> DEFINE Pre(n) == {m \in notes : low < m.seq /\ m.seq < n.seq}
  <1>1. Page(low) = {n \in notes : n.seq > low /\ Cardinality(Pre(n)) < ListenPage}
    BY DEF Page
  <1>2. \A n \in notes : IsFiniteSet(Pre(n)) /\ Cardinality(Pre(n)) \in Nat
    BY FS_Subset, FS_CardinalityType DEF ListenInv, ListenTypes
  <1>3. ASSUME NEW m \in Page(low), NEW n \in notes, low < n.seq, n.seq <= m.seq
        PROVE  n \in Page(low)
    <2>1. m \in notes /\ Cardinality(Pre(m)) < ListenPage
      BY <1>1
    <2>2. Pre(n) \subseteq Pre(m)
      BY <1>3, <2>1 DEF ListenInv, ListenTypes
    <2>3. Cardinality(Pre(n)) <= Cardinality(Pre(m))
      BY <1>2, <2>1, <2>2, FS_Subset
    <2> HIDE DEF Pre
    <2>4. Cardinality(Pre(n)) < ListenPage
      BY <1>2, <2>1, <2>3, ListenAssumption
    <2> QED
      BY <1>1, <1>3, <2>4
  <1> QED
    BY <1>1, <1>3

LEMMA RowsKeeps ==
    ASSUME ListenInv, ReadsRows
    PROVE  ListenInv'
  <1> DEFINE page == Page(lstn.last)
             found == NoteSeqs({n \in page : n.channel \in Listened})
             S == {lstn.last} \cup NoteSeqs(page)
             x == Max(S)
             at == IF \E n \in page : n.channel \in Listened THEN "next" ELSE "waits"
  <1>0. notes' = notes /\ noteSeq' = noteSeq /\ dataVersion' = dataVersion /\ heard' = heard /\ lstn.at = "rows"
    BY DEF ReadsRows
  <1>t. noteSeq \in Nat /\ lstn.last \in Nat /\ lstn.last <= noteSeq /\ lstn.pending = {}
        /\ \A n \in notes : n.seq \in Nat /\ n.seq <= noteSeq
    BY <1>0, ListenerIs DEF ListenInv, ListenTypes, ListenOrder
  <1>1. /\ page \subseteq notes
        /\ \A n \in page : n.seq > lstn.last
        /\ \A m \in page, n \in notes : lstn.last < n.seq /\ n.seq <= m.seq => n \in page
    BY <1>t, PageIs, Zenon
  <1> HIDE DEF page
  <1>2. S \in SUBSET Nat /\ S # {} /\ \A s \in S : s <= noteSeq
    BY <1>t, <1>1 DEF NoteSeqs
  <1>3. x \in S /\ \A s \in S : s <= x
    <2> HIDE DEF S
    <2> QED
      BY <1>2, <1>t, MaxIs, Zenon
  <1>4. x \in Nat /\ x <= noteSeq /\ lstn.last <= x /\ \A n \in page : n.seq <= x
    <2>1. \A n \in page : n.seq \in S
      BY DEF NoteSeqs
    <2>2. lstn.last \in S
      OBVIOUS
    <2> HIDE DEF S, x
    <2> QED
      BY Zenon, <1>2, <1>3, <2>1, <2>2
  <1>5. \A n \in notes : lstn.last < n.seq /\ n.seq <= x => n \in page
    <2> SUFFICES ASSUME NEW n \in notes, lstn.last < n.seq, n.seq <= x PROVE n \in page
      OBVIOUS
    <2>1. x # lstn.last
      BY <1>4, <1>t
    <2>2. PICK m \in page : x = m.seq
      <3> HIDE DEF x
      <3> QED
        BY <1>3, <2>1 DEF NoteSeqs
    <2> QED
      BY <1>1, <2>2
  <1>6. found \in SUBSET Nat /\ \A s \in found : lstn.last < s /\ s <= x
    BY <1>1, <1>4, <1>t DEF NoteSeqs
  <1>7. (at = "next" <=> found # {}) /\ at \in {"next", "waits"}
    BY DEF NoteSeqs
  <1>8. \A n \in page : n.channel \in Listened => n.seq \in found
    BY DEF NoteSeqs
  <1>9. lstn' = [lstn EXCEPT !.at = at, !.last = x, !.pending = @ \cup found]
    BY DEF ReadsRows, page
  <1> HIDE DEF found, S, x, at
  <1>10. lstn' \in [at : ListenerPlaces, last : Nat, version : Int, poked : BOOLEAN, pending : SUBSET Nat, since : Nat]
         /\ lstn'.at = at /\ lstn'.last = x /\ lstn'.since = lstn.since /\ lstn'.pending = found
    BY <1>4, <1>6, <1>7, <1>9, <1>t, Zenon DEF ListenInv, ListenTypes, ListenerPlaces
  <1>11. ListenTypes'
    BY <1>0, <1>10 DEF ListenInv, ListenTypes
  <1>12. \A i \in 1..Len(heard) : heard[i] \in Nat /\ heard[i] <= lstn.last
    BY <1>0 DEF ListenInv, ListenTypes, ListenOrder
  <1>13. ListenOrder'
    <2>1. \A i \in 1..Len(heard) : heard[i] <= x
      BY <1>12, <1>4, <1>t
    <2> QED
      BY <2>1, <1>0, <1>4, <1>6, <1>7, <1>10 DEF ListenOrder
  <1>14. HeardInOrder'
    <2>0. DOMAIN heard = 1..Len(heard)
      BY ListenerIs DEF ListenInv
    <2>1. \A i, j \in DOMAIN heard : i < j => heard[i] < heard[j]
      BY <1>0 DEF ListenInv, HeardInOrder
    <2>2. \A i \in DOMAIN heard, s \in found : heard[i] < s
      <3> SUFFICES ASSUME NEW i \in 1..Len(heard), NEW s \in found PROVE heard[i] < s
        BY <2>0
      <3>1. heard[i] \in Nat /\ heard[i] <= lstn.last /\ lstn.last < s /\ s \in Nat /\ lstn.last \in Nat
        BY <1>6, <1>12, <1>t
      <3> QED
        BY <3>1
    <2>3. \A n \in notes : (lstn.since < n.seq /\ n.seq <= x /\ n.channel \in Listened) => n.seq \in Range(heard) \cup found
      <3> SUFFICES ASSUME NEW n \in notes, lstn.since < n.seq, n.seq <= x, n.channel \in Listened
                   PROVE  n.seq \in Range(heard) \cup found
        OBVIOUS
      <3>1. CASE n.seq <= lstn.last
        BY <3>1, <1>0, <1>t DEF ListenInv, HeardInOrder
      <3>2. CASE lstn.last < n.seq
        BY <3>2, <1>5, <1>8
      <3> QED
        BY <3>1, <3>2, <1>t
    <2> QED
      BY <2>1, <2>2, <2>3, <1>0, <1>10 DEF HeardInOrder
  <1> QED
    BY <1>11, <1>13, <1>14 DEF ListenInv

LEMMA ReturnKeeps ==
    ASSUME ListenInv, NextReturns
    PROVE  ListenInv'
  <1> DEFINE x == Min(lstn.pending)
             at == IF lstn.pending = {x} THEN "version" ELSE "next"
  <1>0. notes' = notes /\ noteSeq' = noteSeq /\ dataVersion' = dataVersion /\ heard' = Append(heard, x) /\ lstn.at = "next"
    BY DEF NextReturns
  <1>1. lstn.pending \in SUBSET Nat /\ lstn.pending # {} /\ lstn.last \in Nat /\ heard \in Seq(Nat)
        /\ DOMAIN heard = 1..Len(heard) /\ Len(heard) \in Nat
    BY <1>0, ListenerIs DEF ListenInv, ListenOrder, ListenTypes
  <1>2. x \in lstn.pending /\ \A s \in lstn.pending : x <= s
    BY <1>1, MinIs, Zenon
  <1>3. lstn' = [lstn EXCEPT !.pending = lstn.pending \ {x}, !.poked = TRUE, !.at = at]
    BY DEF NextReturns, ListenInv, ListenTypes
  <1>4. (at = "next" <=> lstn.pending \ {x} # {}) /\ at \in {"next", "version"}
    BY <1>2
  <1> HIDE DEF x, at
  <1>5. lstn' \in [at : ListenerPlaces, last : Nat, version : Int, poked : BOOLEAN, pending : SUBSET Nat, since : Nat]
        /\ lstn'.at = at /\ lstn'.last = lstn.last /\ lstn'.since = lstn.since /\ lstn'.pending = lstn.pending \ {x}
    BY <1>1, <1>3, <1>4, Zenon DEF ListenInv, ListenTypes, ListenerPlaces
  <1>6. x \in Nat /\ x <= lstn.last /\ \A s \in lstn.pending \ {x} : x < s /\ s \in Nat
    BY <1>0, <1>1, <1>2 DEF ListenInv, ListenOrder
  <1>7. /\ heard' \in Seq(Nat) /\ DOMAIN heard' = 1..Len(heard) + 1 /\ Len(heard') = Len(heard) + 1
        /\ heard'[Len(heard) + 1] = x /\ \A i \in 1..Len(heard) : heard'[i] = heard[i]
    BY <1>0, <1>1, <1>6
  <1>8. \A i \in 1..Len(heard) : heard[i] \in Nat /\ heard[i] <= lstn.last /\ heard[i] < x
    <2>1. \A i \in 1..Len(heard) : heard[i] \in Nat
      BY <1>1
    <2>2. \A i \in 1..Len(heard) : heard[i] <= lstn.last
      BY <1>0 DEF ListenInv, ListenOrder
    <2>3. \A i \in 1..Len(heard) : heard[i] < x
      BY <1>0, <1>1, <1>2 DEF ListenInv, HeardInOrder
    <2> QED
      BY <2>1, <2>2, <2>3
  <1>9. \A i \in 1..Len(heard) + 1 : i \in 1..Len(heard) \/ i = Len(heard) + 1
    BY <1>1
  <1>10. ListenTypes'
    BY <1>0, <1>5, <1>7 DEF ListenInv, ListenTypes
  <1>11. ListenOrder'
    <2>1. \A i \in 1..Len(heard') : heard'[i] <= lstn.last
      BY <1>6, <1>7, <1>8, <1>9
    <2>2. \A s \in lstn.pending \ {x} : s <= lstn.last
      BY DEF ListenInv, ListenOrder
    <2> QED
      BY <2>1, <2>2, <1>0, <1>4, <1>5 DEF ListenInv, ListenOrder
  <1>12. HeardInOrder'
    <2>1. \A i, j \in DOMAIN heard' : i < j => heard'[i] < heard'[j]
      <3> SUFFICES ASSUME NEW i \in DOMAIN heard', NEW j \in DOMAIN heard', i < j PROVE heard'[i] < heard'[j]
        OBVIOUS
      <3>1. i \in 1..Len(heard)
        BY <1>1, <1>7
      <3>2. CASE j \in 1..Len(heard)
        <4>1. heard[i] < heard[j]
          BY <3>1, <3>2, <1>0, <1>1 DEF ListenInv, HeardInOrder
        <4> QED
          BY <4>1, <3>1, <3>2, <1>7
      <3>3. CASE j = Len(heard) + 1
        BY <3>1, <3>3, <1>7, <1>8
      <3> QED
        BY <3>2, <3>3, <1>7, <1>9
    <2>2. \A i \in DOMAIN heard', s \in lstn.pending \ {x} : heard'[i] < s
      BY <1>6, <1>7, <1>8, <1>9
    <2>3. Range(heard') = Range(heard) \cup {x}
      <3>1. Range(heard') = {heard'[i] : i \in 1..Len(heard) + 1} /\ Range(heard) = {heard[i] : i \in 1..Len(heard)}
        BY <1>1, <1>7 DEF Range
      <3>2. \A i \in 1..Len(heard) + 1 : heard'[i] \in Range(heard) \cup {x}
        BY <3>1, <1>7, <1>9
      <3>3. \A i \in 1..Len(heard) : i \in 1..Len(heard) + 1 /\ heard[i] = heard'[i]
        BY <1>1, <1>7
      <3>4. Len(heard) + 1 \in 1..Len(heard) + 1 /\ heard'[Len(heard) + 1] = x
        BY <1>1, <1>7
      <3>5. Range(heard) \subseteq Range(heard')
        BY <3>1, <3>3
      <3>6. x \in Range(heard')
        BY <3>1, <3>4
      <3> QED
        BY <3>1, <3>2, <3>5, <3>6
    <2>4. \A n \in notes : (lstn.since < n.seq /\ n.seq <= lstn.last /\ n.channel \in Listened) =>
                n.seq \in Range(heard') \cup (lstn.pending \ {x})
      BY <2>3, <1>0 DEF ListenInv, HeardInOrder
    <2> QED
      BY <2>1, <2>2, <2>4, <1>0, <1>5 DEF HeardInOrder
  <1> QED
    BY <1>10, <1>11, <1>12 DEF ListenInv

LEMMA ListenStep == ListenInv /\ [ListenNext]_listenVars => ListenInv'
  <1> SUFFICES ASSUME ListenInv, [ListenNext]_listenVars PROVE ListenInv'
    OBVIOUS
  <1>1. CASE UNCHANGED <<notes, noteSeq, dataVersion, lstn, heard>>
    <2>1. notes' = notes /\ noteSeq' = noteSeq /\ dataVersion' = dataVersion /\ lstn' = lstn /\ heard' = heard
      BY <1>1
    <2> QED
      BY <2>1 DEF ListenInv, ListenTypes, ListenOrder, HeardInOrder
  <1>2. CASE NoteTimePasses \/ (\E s \in BOOLEAN : Pokes(s)) \/ UNCHANGED listenVars
    BY <1>1, <1>2 DEF NoteTimePasses, Pokes, listenVars
  <1>3. CASE \E c \in Channels, ours \in BOOLEAN : NotifyCommits(c, ours)
    BY <1>3, NotifyKeeps
  <1>4. CASE NewListener \/ ListenerCloses \/ ReadsStart
    BY <1>4, StartKeeps
  <1>5. CASE ReadsRows
    BY <1>5, RowsKeeps
  <1>6. CASE NextReturns
    BY <1>6, ReturnKeeps
  <1>7. CASE ReadsVersion \/ Poked \/ ListenTimer
    <2>0. /\ UNCHANGED <<notes, noteSeq, dataVersion, heard>>
          /\ lstn.at \in {"version", "rows", "waits"}
      BY <1>7 DEF ReadsVersion, Poked, ListenTimer
    <2>1. lstn \in [at : ListenerPlaces, last : Nat, version : Int, poked : BOOLEAN, pending : SUBSET Nat, since : Nat]
          /\ dataVersion \in Int
      BY DEF ListenInv, ListenTypes
    <2>2. /\ lstn' \in [at : ListenerPlaces, last : Nat, version : Int, poked : BOOLEAN, pending : SUBSET Nat, since : Nat]
          /\ lstn'.last = lstn.last /\ lstn'.pending = lstn.pending /\ lstn'.since = lstn.since
          /\ lstn'.at \in {"version", "rows", "waits"}
      <3>1. CASE ReadsVersion
        BY <2>1, <3>1, Zenon DEF ReadsVersion, ListenerPlaces
      <3>2. CASE Poked
        BY <2>1, <3>2, Zenon DEF Poked, ListenerPlaces
      <3>3. CASE ListenTimer
        BY <2>1, <3>3, Zenon DEF ListenTimer, ListenerPlaces
      <3> QED
        BY <1>7, <3>1, <3>2, <3>3
    <2> QED
      BY <2>0, <2>2, ListenerGoes, Zenon
  <1> QED
    BY <1>2, <1>3, <1>4, <1>5, <1>6, <1>7 DEF ListenNext

\* A SQLite listener hears each notification at most once, in order, and
\* passes none that is still there: for any number of notifications, any page
\* size, any retention and however the reads interleave with the commits
\* (listener.go, read and Next).
THEOREM ListenKept == ListenSpec => []HeardInOrder
  <1>1. ListenInit => ListenInv
    BY ListenBegins
  <1>2. ListenInv /\ [ListenNext]_listenVars => ListenInv'
    BY ListenStep
  <1>3. ListenInv => HeardInOrder
    BY DEF ListenInv
  <1> QED
    BY <1>1, <1>2, <1>3, PTL DEF ListenSpec

-----------------------------------------------------------------------------
(***************************************************************************)
(* SQLite's stream.  Seqs are given out in the order of the commits: those  *)
(* of an open transaction are past every event, and past what the consumer  *)
(* and the reader have seen, so that a rollback may give them out again.    *)
(***************************************************************************)
ConsumerRows == [pattern : Patterns, seen : Nat, position : Nat]
EventTypes ==
    /\ sequence \in Nat /\ IsFiniteSet(events) /\ IsFiniteSet(caller)
    /\ \A e \in events \cup caller : e.seq \in Nat /\ e.seq <= sequence
    /\ consumer \in ConsumerRows
    /\ reader \in [pos : Nat, got : SUBSET Nat]
    /\ from \in Nat /\ given \in Seq(SUBSET Nat)
EventOrder ==
    /\ consumer.seen <= sequence /\ reader.pos <= sequence
    /\ \A c \in caller : consumer.seen < c.seq /\ reader.pos < c.seq /\ \A e \in events : e.seq < c.seq
    /\ \A i \in 1..Len(given) : \A s \in given[i] : s <= consumer.seen
    /\ consumer.pattern \in everPatterns
EventInv == EventTypes /\ EventOrder /\ SqliteStreamInOrder

LEMMA FirstNIs ==
    ASSUME NEW es, IsFiniteSet(es), \A e \in es : e.seq \in Nat, NEW n \in Nat
    PROVE  /\ FirstN(es, n) \subseteq es
           /\ \A e \in FirstN(es, n), d \in es : d.seq <= e.seq => d \in FirstN(es, n)
           /\ Cardinality(FirstN(es, n)) < n => FirstN(es, n) = es
  <1> DEFINE Pre(e) == {d \in es : d.seq < e.seq}
  <1>1. FirstN(es, n) = {e \in es : Cardinality(Pre(e)) < n}
    BY DEF FirstN
  <1>2. \A e \in es : IsFiniteSet(Pre(e)) /\ Cardinality(Pre(e)) \in Nat
    BY FS_Subset, FS_CardinalityType
  <1>3. ASSUME NEW e \in FirstN(es, n), NEW d \in es, d.seq <= e.seq
        PROVE  d \in FirstN(es, n)
    <2>1. e \in es /\ Cardinality(Pre(e)) < n
      BY <1>1
    <2>2. Pre(d) \subseteq Pre(e)
      BY <1>3, <2>1
    <2>3. Cardinality(Pre(d)) <= Cardinality(Pre(e))
      BY <2>1, <2>2, <1>2, FS_Subset
    <2> HIDE DEF Pre
    <2>4. Cardinality(Pre(d)) < n
      BY <2>1, <2>3, <1>2
    <2> QED
      BY <2>4, <1>1
  <1>4. ASSUME Cardinality(FirstN(es, n)) < n PROVE FirstN(es, n) = es
    <2> DEFINE R == {e.seq : e \in es \ FirstN(es, n)}
    <2> SUFFICES ASSUME FirstN(es, n) # es PROVE FALSE
      OBVIOUS
    <2>1. R \in SUBSET Nat /\ R # {}
      BY Zenon, <1>1
    <2>2. PICK p \in R : \A q \in R : p <= q
      BY <2>1, LeastOf, Zenon
    <2>3. PICK e \in es \ FirstN(es, n) : p = e.seq
      BY <2>2
    <2>4. Pre(e) \subseteq FirstN(es, n)
      BY <2>2, <2>3
    <2>5. IsFiniteSet(FirstN(es, n)) /\ Cardinality(FirstN(es, n)) \in Nat
      BY Zenon, <1>1, FS_Subset, FS_CardinalityType
    <2>6. Cardinality(Pre(e)) <= Cardinality(FirstN(es, n))
      BY <2>4, <2>5, FS_Subset
    <2> HIDE DEF Pre, R
    <2>7. Cardinality(Pre(e)) < n
      BY <2>6, <2>5, <1>2, <1>4
    <2> QED
      BY <2>7, <2>3, <1>1
  <1> QED
    BY <1>1, <1>3, <1>4, Zenon

LEMMA EventBegins == SqliteStreamInit => EventInv
  <1> SUFFICES ASSUME SqliteStreamInit PROVE EventInv
    OBVIOUS
  <1>1. PICK p \in Patterns : consumer = [pattern |-> p, seen |-> 0, position |-> 0]
    BY DEF SqliteStreamInit
  <1>2. /\ events = {} /\ sequence = 0 /\ caller = {} /\ reader = [pos |-> 0, got |-> {}] /\ given = <<>> /\ from = 0
        /\ everPatterns = {consumer.pattern}
    BY DEF SqliteStreamInit
  <1>3. EventTypes
    BY <1>1, <1>2, FS_EmptySet DEF EventTypes, ConsumerRows
  <1>4. EventOrder /\ SqliteStreamInOrder
    BY <1>1, <1>2 DEF EventOrder, SqliteStreamInOrder
  <1> QED
    BY <1>3, <1>4 DEF EventInv

LEMMA EventsAre ==
    ASSUME EventInv
    PROVE  /\ sequence \in Nat /\ consumer \in ConsumerRows /\ consumer.seen \in Nat /\ consumer.seen <= sequence
           /\ reader.pos \in Nat /\ reader.pos <= sequence /\ reader.got \in SUBSET Nat /\ from \in Nat
           /\ \A e \in events : e.seq \in Nat /\ e.seq <= sequence
           /\ DOMAIN given = 1..Len(given) /\ Len(given) \in Nat
  BY DEF EventInv, EventTypes, EventOrder, ConsumerRows

\* What is appended is past what the consumer and the reader have seen.
LEMMA EventAppends ==
    ASSUME EventInv, UNCHANGED <<consumer, reader, given, from, everPatterns>>,
           sequence' \in Nat, IsFiniteSet(events'), IsFiniteSet(caller'),
           \A e \in events' \cup caller' : e.seq \in Nat /\ e.seq <= sequence',
           consumer.seen <= sequence', reader.pos <= sequence',
           \A c \in caller' : consumer.seen < c.seq /\ reader.pos < c.seq /\ \A e \in events' : e.seq < c.seq,
           \A e \in events' : e \in events \/ (consumer.seen < e.seq /\ reader.pos < e.seq)
    PROVE  EventInv'
  <1>0. consumer' = consumer /\ reader' = reader /\ given' = given /\ from' = from /\ everPatterns' = everPatterns
    OBVIOUS
  <1>1. EventTypes'
    BY <1>0 DEF EventInv, EventTypes
  <1>2. EventOrder'
    BY <1>0 DEF EventInv, EventOrder
  <1>3. SqliteStreamInOrder'
    <2>1. \A e \in events' : e \in events \/ (~(e.seq <= consumer.seen) /\ ~(e.seq <= reader.pos))
      BY EventsAre
    <2> QED
      BY <1>0, <2>1 DEF EventInv, SqliteStreamInOrder
  <1> QED
    BY <1>1, <1>2, <1>3 DEF EventInv

LEMMA AppendKeeps ==
    ASSUME EventInv, NEW t \in Topics, StreamAppend(t) \/ AppendTx(t)
    PROVE  EventInv'
  <1> DEFINE m == [seq |-> sequence + 1, topic |-> t]
  <1>0. sequence' = sequence + 1 /\ UNCHANGED <<consumer, reader, given, from, everPatterns>>
    BY DEF StreamAppend, AppendTx
  <1>1. m.seq = sequence + 1
    OBVIOUS
  <1>2. \/ events' = events \cup {m} /\ caller' = {} /\ caller = {}
        \/ events' = events /\ caller' = caller \cup {m}
    BY DEF StreamAppend, AppendTx, EventWrites
  <1> HIDE DEF m
  <1>3. IsFiniteSet(events') /\ IsFiniteSet(caller')
    <2>1. IsFiniteSet(events) /\ IsFiniteSet(caller)
      BY DEF EventInv, EventTypes
    <2>2. IsFiniteSet(events \cup {m}) /\ IsFiniteSet(caller \cup {m})
      BY <2>1, FS_AddElement
    <2> QED
      BY <1>2, <2>1, <2>2, FS_EmptySet
  <1>4. \A e \in events \cup caller : e.seq \in Nat /\ e.seq <= sequence /\ e.seq < sequence + 1
    BY DEF EventInv, EventTypes
  <1>5. /\ sequence \in Nat /\ consumer.seen \in Nat /\ reader.pos \in Nat
        /\ consumer.seen < sequence + 1 /\ reader.pos < sequence + 1
        /\ consumer.seen <= sequence + 1 /\ reader.pos <= sequence + 1 /\ sequence + 1 \in Nat
    BY EventsAre
  <1>6. \A c \in caller : consumer.seen < c.seq /\ reader.pos < c.seq /\ \A e \in events : e.seq < c.seq
    BY DEF EventInv, EventOrder
  <1>7. \A e \in events' \cup caller' : e.seq \in Nat /\ e.seq <= sequence'
    BY <1>0, <1>1, <1>2, <1>4, <1>5
  <1>8. \A c \in caller' : consumer.seen < c.seq /\ reader.pos < c.seq /\ \A e \in events' : e.seq < c.seq
    BY <1>1, <1>2, <1>4, <1>5, <1>6
  <1>9. \A e \in events' : e \in events \/ (consumer.seen < e.seq /\ reader.pos < e.seq)
    BY <1>1, <1>2, <1>5
  <1> QED
    BY <1>0, <1>3, <1>5, <1>7, <1>8, <1>9, EventAppends

LEMMA CallerKeeps ==
    ASSUME EventInv, CallerEnds \/ StreamRetention
    PROVE  EventInv'
  <1>0. UNCHANGED <<consumer, reader, given, from, everPatterns>> /\ caller' = {}
    BY DEF CallerEnds, StreamRetention, EventWrites
  <1>1. /\ sequence \in Nat /\ consumer.seen \in Nat /\ reader.pos \in Nat
        /\ consumer.seen <= sequence /\ reader.pos <= sequence
        /\ \A e \in events \cup caller : e.seq \in Nat /\ e.seq <= sequence
        /\ IsFiniteSet(events) /\ IsFiniteSet(caller)
    BY EventsAre DEF EventInv, EventTypes
  <1>2. \A c \in caller : consumer.seen < c.seq /\ reader.pos < c.seq /\ \A e \in events : e.seq < c.seq
    BY DEF EventInv, EventOrder
  <1>3. \/ events' = events \cup caller /\ sequence' = sequence
        \/ events' \subseteq events /\ sequence' = sequence
        \/ events' = events /\ caller # {} /\ sequence' = Min(Seqs(caller)) - 1
    BY DEF CallerEnds, StreamRetention
  <1>4. IsFiniteSet(events') /\ IsFiniteSet(caller')
    BY Zenon, <1>0, <1>1, <1>3, FS_EmptySet, FS_Subset, FS_Union
  <1>5. CASE events' = events /\ caller # {} /\ sequence' = Min(Seqs(caller)) - 1
    <2>1. Seqs(caller) \in SUBSET Nat /\ Seqs(caller) # {}
      BY <1>1, <1>5 DEF Seqs
    <2>2. PICK c \in caller : Min(Seqs(caller)) = c.seq
      <3>1. Min(Seqs(caller)) \in Seqs(caller)
        BY <2>1, MinIs, Zenon
      <3> QED
        BY <3>1 DEF Seqs
    <2>3. c.seq \in Nat /\ consumer.seen < c.seq /\ reader.pos < c.seq /\ \A e \in events : e.seq \in Nat /\ e.seq < c.seq
      BY <1>1, <1>2
    <2>4. /\ sequence' = c.seq - 1 /\ sequence' \in Nat /\ consumer.seen <= sequence' /\ reader.pos <= sequence'
          /\ \A e \in events : e.seq <= sequence'
      BY <1>1, <1>5, <2>2, <2>3
    <2> QED
      BY <1>0, <1>1, <1>4, <1>5, <2>4, EventAppends
  <1>6. CASE events' \subseteq events \cup caller /\ sequence' = sequence
    BY <1>0, <1>1, <1>2, <1>4, <1>6, EventAppends
  <1> QED
    BY <1>3, <1>5, <1>6

LEMMA MovesKeeps ==
    ASSUME EventInv, (\E p \in Patterns : StreamConsumerUpsert(p)) \/ (\E s \in 0..MaxEvents : StreamConsumerSeek(s))
    PROVE  EventInv'
  <1>0. UNCHANGED <<events, sequence, caller, reader>> /\ caller = {}
    BY Zenon DEF StreamConsumerUpsert, StreamConsumerSeek, EventWrites
  <1>t. events' = events /\ sequence' = sequence /\ caller' = {} /\ reader' = reader /\ caller = {}
    BY <1>0
  <1>1. CASE \E p \in Patterns : StreamConsumerUpsert(p)
    <2>1. PICK p \in Patterns : StreamConsumerUpsert(p)
      BY <1>1
    <2>2. consumer' = [consumer EXCEPT !.pattern = p] /\ everPatterns' = everPatterns \cup {p} /\ given' = given /\ from' = from
      BY <2>1 DEF StreamConsumerUpsert
    <2>3. consumer' \in ConsumerRows /\ consumer'.pattern = p /\ consumer'.seen = consumer.seen
      BY <2>2, EventsAre DEF ConsumerRows
    <2>4. EventTypes'
      BY <1>t, <2>2, <2>3 DEF EventInv, EventTypes
    <2>5. EventOrder'
      BY <1>t, <2>2, <2>3 DEF EventInv, EventOrder
    <2>6. SqliteStreamInOrder'
      BY <1>t, <2>2, <2>3 DEF EventInv, SqliteStreamInOrder
    <2> QED
      BY <2>4, <2>5, <2>6 DEF EventInv
  <1>2. CASE \E s \in 0..MaxEvents : StreamConsumerSeek(s)
    <2>1. PICK s \in 0..MaxEvents : StreamConsumerSeek(s)
      BY <1>2
    <2>2. /\ consumer' = [consumer EXCEPT !.seen = s, !.position = s] /\ everPatterns' = everPatterns /\ given' = <<>> /\ from' = s
          /\ s \in Seqs(events) \cup {e.seq - 1 : e \in events} \cup {0, LatestSeq}
      BY <2>1, Zenon DEF StreamConsumerSeek
    <2>3. s \in Nat
      BY SqliteStreamAssumption
    <2>4. consumer' \in ConsumerRows /\ consumer'.pattern = consumer.pattern /\ consumer'.seen = s
      BY <2>2, <2>3, EventsAre, Zenon DEF ConsumerRows
    <2>5. s <= sequence
      <3>1. LatestSeq <= sequence
        <4>1. CASE events = {}
          BY <4>1, EventsAre DEF LatestSeq
        <4>2. CASE events # {}
          <5>1. Seqs(events) \in SUBSET Nat /\ Seqs(events) # {} /\ sequence \in Nat /\ \A m \in Seqs(events) : m <= sequence
            BY <4>2, EventsAre DEF Seqs
          <5>2. Max(Seqs(events)) \in Seqs(events)
            BY <5>1, MaxIs, Zenon
          <5> QED
            BY <4>2, <5>1, <5>2 DEF LatestSeq
        <4> QED
          BY <4>1, <4>2
      <3> QED
        BY <2>2, <2>3, <3>1, EventsAre DEF Seqs
    <2>6. EventTypes'
      BY <1>t, <2>2, <2>3, <2>4 DEF EventInv, EventTypes
    <2>7. EventOrder'
      BY <1>t, <2>2, <2>4, <2>5 DEF EventInv, EventOrder
    <2>8. SqliteStreamInOrder'
      BY <1>t, <2>2, <2>3, <2>4, EventsAre DEF EventInv, SqliteStreamInOrder
    <2> QED
      BY <2>6, <2>7, <2>8 DEF EventInv
  <1> QED
    BY <1>1, <1>2

LEMMA ReadKeeps ==
    ASSUME EventInv, StreamRead
    PROVE  EventInv'
  <1> DEFINE es == {e \in events : e.seq > reader.pos}
             page == FirstN(es, ReadPage)
             x == Max(Seqs(page))
  <1>0. /\ UNCHANGED <<events, sequence, caller, consumer, given, from, everPatterns>>
        /\ page # {} /\ reader' = [pos |-> x, got |-> reader.got \cup Seqs(page)]
    BY Zenon DEF StreamRead
  <1>1. IsFiniteSet(es) /\ es \subseteq events /\ \A e \in es : e.seq \in Nat
    BY FS_Subset DEF EventInv, EventTypes
  <1>2. /\ page \subseteq es
        /\ \A e \in page, d \in es : d.seq <= e.seq => d \in page
    <2> HIDE DEF es
    <2> QED
      BY <1>1, FirstNIs, SqliteStreamAssumption
  <1> HIDE DEF page
  <1>3. Seqs(page) \in SUBSET Nat /\ Seqs(page) # {} /\ \A s \in Seqs(page) : s <= sequence
    BY <1>0, <1>1, <1>2, EventsAre DEF Seqs
  <1>4. x \in Seqs(page) /\ \A s \in Seqs(page) : s <= x
    BY <1>3, EventsAre, MaxIs, Zenon
  <1>5. PICK m \in page : x = m.seq
    BY <1>4, ZenonT(30) DEF Seqs
  <1> HIDE DEF x
  <1>6. x \in Nat /\ x <= sequence /\ \A c \in caller : x < c.seq
    <2>1. m \in events
      BY <1>1, <1>2
    <2> QED
      BY <2>1, <1>5, EventsAre DEF EventInv, EventOrder
  <1>7. /\ events' = events /\ sequence' = sequence /\ caller' = caller /\ consumer' = consumer /\ given' = given
        /\ from' = from /\ everPatterns' = everPatterns
    BY <1>0
  <1>8. reader' \in [pos : Nat, got : SUBSET Nat] /\ reader'.pos = x /\ reader'.got = reader.got \cup Seqs(page)
    BY <1>0, <1>3, <1>6, EventsAre
  <1>9. EventTypes'
    BY <1>7, <1>8 DEF EventInv, EventTypes
  <1>10. EventOrder'
    BY <1>6, <1>7, <1>8, ZenonT(30) DEF EventInv, EventOrder
  <1>11. \A e \in events : e.seq <= x => e.seq \in reader.got \cup Seqs(page)
    <2> SUFFICES ASSUME NEW e \in events, e.seq <= x PROVE e.seq \in reader.got \cup Seqs(page)
      OBVIOUS
    <2>1. CASE e.seq <= reader.pos
      BY <2>1 DEF EventInv, SqliteStreamInOrder
    <2>2. CASE e.seq > reader.pos
      <3>1. e \in page
        BY <2>2, <1>2, <1>5
      <3> QED
        BY <3>1 DEF Seqs
    <2> QED
      BY <2>1, <2>2, EventsAre
  <1>12. SqliteStreamInOrder'
    BY <1>7, <1>8, <1>11 DEF EventInv, SqliteStreamInOrder
  <1> QED
    BY <1>9, <1>10, <1>12 DEF EventInv

LEMMA PumpKeeps ==
    ASSUME EventInv, NEW l \in StreamLeaders, StreamPump(l)
    PROVE  EventInv'
  <1> DEFINE es == {e \in Matching(events, consumer.pattern) : e.seq > consumer.seen}
             batch == Batch
             S == Seqs(batch) \cup {consumer.seen} \cup (IF Cardinality(batch) < BatchLimit THEN {LatestSeq} ELSE {})
             x == SeenAfter(batch)
             q == IF batch = {} THEN consumer.position ELSE Max(Seqs(batch))
  <1>0. /\ UNCHANGED <<events, sequence, caller, reader, from, everPatterns>> /\ caller = {}
        /\ given' = IF batch = {} THEN given ELSE Append(given, Seqs(batch))
        /\ consumer' = [consumer EXCEPT !.seen = x, !.position = q]
    BY DEF StreamPump, EventWrites
  <1>t. /\ events' = events /\ sequence' = sequence /\ caller' = caller /\ reader' = reader
        /\ from' = from /\ everPatterns' = everPatterns
    BY <1>0
  <1>1. IsFiniteSet(es) /\ es \subseteq events /\ \A e \in es : e.seq \in Nat /\ e.seq > consumer.seen
    <2>1. es \subseteq events /\ IsFiniteSet(events)
      BY DEF EventInv, EventTypes, Matching
    <2>2. IsFiniteSet(es)
      BY <2>1, FS_Subset
    <2> QED
      BY ZenonT(30), <2>1, <2>2, EventsAre
  <1>2. /\ batch \subseteq es
        /\ \A e \in batch, d \in es : d.seq <= e.seq => d \in batch
        /\ Cardinality(batch) < BatchLimit => batch = es
    <2>1. batch = FirstN(es, BatchLimit)
      BY DEF Batch
    <2> HIDE DEF es, batch
    <2> QED
      BY <1>1, <2>1, FirstNIs, SqliteStreamAssumption
  <1> HIDE DEF batch
  <1>3. \A s \in Seqs(batch) : s \in Nat /\ s <= sequence /\ consumer.seen < s
    BY <1>1, <1>2, EventsAre DEF Seqs
  <1>4. LatestSeq \in Nat /\ LatestSeq <= sequence
    <2>1. CASE events = {}
      <3>1. LatestSeq = 0
        BY <2>1, Zenon DEF LatestSeq
      <3>2. sequence \in Nat
        BY EventsAre, Zenon
      <3> QED
        BY <3>1, <3>2
    <2>2. CASE events # {}
      <3>1. Seqs(events) \in SUBSET Nat /\ Seqs(events) # {} /\ sequence \in Nat /\ \A m \in Seqs(events) : m <= sequence
        BY <2>2, EventsAre DEF Seqs
      <3>2. Max(Seqs(events)) \in Seqs(events)
        BY <3>1, MaxIs, Zenon
      <3> QED
        BY <2>2, <3>1, <3>2 DEF LatestSeq
    <2> QED
      BY <2>1, <2>2
  <1>5. S \in SUBSET Nat /\ S # {} /\ consumer.seen \in S /\ Seqs(batch) \subseteq S /\ \A s \in S : s <= sequence
    BY <1>3, <1>4, EventsAre
  <1>6. x \in S /\ \A s \in S : s <= x
    <2>1. x = Max(S)
      BY DEF SeenAfter
    <2> HIDE DEF S, x
    <2> QED
      BY Zenon, <1>5, <2>1, EventsAre, MaxIs
  <1>7. Cardinality(batch) < BatchLimit \/ x = consumer.seen \/ x \in Seqs(batch)
    <2> HIDE DEF x
    <2> QED
      BY <1>6
  <1> HIDE DEF S, x
  <1>8. x \in Nat /\ x <= sequence /\ consumer.seen <= x /\ \A s \in Seqs(batch) : s <= x
    BY Zenon, <1>5, <1>6
  <1>9. q \in Nat
    <2>1. CASE batch = {}
      BY <2>1, EventsAre DEF ConsumerRows
    <2>2. CASE batch # {}
      <3>1. Seqs(batch) \in SUBSET Nat /\ Seqs(batch) # {} /\ sequence \in Nat /\ \A m \in Seqs(batch) : m <= sequence
        BY <2>2, <1>3, EventsAre DEF Seqs
      <3>2. Max(Seqs(batch)) \in Seqs(batch)
        BY <3>1, MaxIs, Zenon
      <3> QED
        BY <2>2, <3>1, <3>2
    <2> QED
      BY <2>1, <2>2
  <1> HIDE DEF q
  <1>10. consumer' \in ConsumerRows /\ consumer'.seen = x /\ consumer'.pattern = consumer.pattern
    BY <1>0, <1>8, <1>9, EventsAre, Zenon DEF ConsumerRows
  <1>11. given \in Seq(SUBSET Nat) /\ Len(given) \in Nat /\ DOMAIN given = 1..Len(given)
    BY DEF EventInv, EventTypes
  <1>12. Seqs(batch) \in SUBSET Nat
    BY <1>3
  <1>13. /\ given' \in Seq(SUBSET Nat) /\ DOMAIN given' = 1..Len(given')
         /\ \/ Len(given') = Len(given) /\ given' = given
            \/ Len(given') = Len(given) + 1 /\ given'[Len(given) + 1] = Seqs(batch)
         /\ \A i \in 1..Len(given) : given'[i] = given[i] /\ i \in 1..Len(given')
         /\ \A i \in 1..Len(given') : i \in 1..Len(given) \/ (i = Len(given) + 1 /\ given'[i] = Seqs(batch))
    <2>1. CASE batch = {}
      BY <2>1, <1>0, <1>11
    <2>2. CASE batch # {}
      <3> DEFINE B == Seqs(batch)
      <3>1. given' = Append(given, B) /\ B \in SUBSET Nat
        BY <2>2, <1>0, <1>12
      <3> HIDE DEF B
      <3>2. /\ Append(given, B) \in Seq(SUBSET Nat) /\ DOMAIN Append(given, B) = 1..Len(given) + 1
            /\ Len(Append(given, B)) = Len(given) + 1 /\ Append(given, B)[Len(given) + 1] = B
            /\ \A k \in 1..Len(given) : Append(given, B)[k] = given[k]
        BY <3>1, <1>11
      <3>3. \A k \in 1..Len(given) + 1 : k \in 1..Len(given) \/ k = Len(given) + 1
        BY <1>11
      <3>4. \A k \in 1..Len(given) : k \in 1..Len(given) + 1
        BY <1>11
      <3>5. B = Seqs(batch)
        BY DEF B
      <3> QED
        BY <3>1, <3>2, <3>3, <3>4, <3>5
    <2> QED
      BY <2>1, <2>2
  <1>14. \A i \in 1..Len(given) : \A s \in given[i] : s \in Nat /\ s <= consumer.seen
    BY <1>11 DEF EventInv, EventOrder
  <1>15. EventTypes'
    BY <1>t, <1>10, <1>13, Zenon DEF EventInv, EventTypes
  <1>16. EventOrder'
    <2>1. \A i \in 1..Len(given') : \A s \in given'[i] : s <= x
      <3> SUFFICES ASSUME NEW i \in 1..Len(given'), NEW s \in given'[i] PROVE s <= x
        OBVIOUS
      <3>1. CASE i \in 1..Len(given)
        <4>1. s \in Nat /\ s <= consumer.seen
          BY Zenon, <3>1, <1>13, <1>14
        <4> QED
          BY <4>1, <1>8, EventsAre
      <3>2. CASE given'[i] = Seqs(batch)
        BY <3>2, <1>8
      <3> QED
        BY Zenon, <3>1, <3>2, <1>13
    <2> QED
      BY <2>1, <1>0, <1>t, <1>8, <1>10 DEF EventInv, EventOrder
  <1>17. \A i, j \in DOMAIN given' : i < j => \A s \in given'[i], u \in given'[j] : s < u
    <2> SUFFICES ASSUME NEW i \in 1..Len(given'), NEW j \in 1..Len(given'), i < j, NEW s \in given'[i], NEW u \in given'[j]
                 PROVE  s < u
      BY Zenon, <1>13
    <2>1. i \in 1..Len(given)
      <3>1. Len(given') \in {Len(given), Len(given) + 1}
        BY Zenon, <1>13
      <3> QED
        BY <3>1, <1>11
    <2>2. CASE j \in 1..Len(given)
      <3>1. given'[i] = given[i] /\ given'[j] = given[j]
        BY Zenon, <2>1, <2>2, <1>13
      <3> QED
        BY <2>1, <2>2, <3>1, <1>11 DEF EventInv, SqliteStreamInOrder
    <2>3. CASE given'[j] = Seqs(batch)
      <3>1. s \in Nat /\ s <= consumer.seen
        BY Zenon, <2>1, <1>13, <1>14
      <3>2. u \in Nat /\ consumer.seen < u
        BY <2>3, <1>3
      <3> QED
        BY <3>1, <3>2, EventsAre
    <2> QED
      BY Zenon, <2>2, <2>3, <1>13
  <1>18. (\A s \in UNION Range(given) : s \in UNION Range(given')) /\ (\A s \in Seqs(batch) : s \in UNION Range(given'))
    <2>1. \A s \in UNION Range(given) : s \in UNION Range(given')
      <3> SUFFICES ASSUME NEW s \in UNION Range(given) PROVE s \in UNION Range(given')
        OBVIOUS
      <3>1. PICK i \in 1..Len(given) : s \in given[i]
        BY <1>11 DEF Range
      <3>2. given'[i] = given[i] /\ i \in DOMAIN given'
        BY Zenon, <3>1, <1>13
      <3> QED
        BY <3>1, <3>2 DEF Range
    <2>2. \A s \in Seqs(batch) : s \in UNION Range(given')
      <3> SUFFICES ASSUME NEW s \in Seqs(batch) PROVE s \in UNION Range(given')
        OBVIOUS
      <3>1. batch # {}
        BY DEF Seqs
      <3>2. Len(given) + 1 \in DOMAIN given' /\ given'[Len(given) + 1] = Seqs(batch)
        BY <3>1, <1>0, <1>11, <1>12
      <3> QED
        BY <3>2 DEF Range
    <2> QED
      BY <2>1, <2>2
  <1>19. ASSUME NEW e \in events, from < e.seq, e.seq <= x, \A p \in everPatterns : e.topic \in p
         PROVE  e.seq \in UNION Range(given')
    <2>0. e.seq \in Nat /\ consumer.seen \in Nat
      BY EventsAre
    <2>1. CASE e.seq <= consumer.seen
      <3>1. e.seq \in UNION Range(given)
        BY <2>1, <1>19 DEF EventInv, SqliteStreamInOrder
      <3> QED
        BY <3>1, <1>18
    <2>2. CASE consumer.seen < e.seq
      <3>1. e \in es
        BY <2>0, <2>2, <1>19 DEF EventInv, EventOrder, Matching
      <3>2. e \in batch
        <4>1. CASE Cardinality(batch) < BatchLimit
          BY <4>1, <3>1, <1>2
        <4>2. CASE x \in Seqs(batch)
          <5>1. PICK m \in batch : x = m.seq
            BY <4>2 DEF Seqs
          <5> QED
            BY <5>1, <3>1, <1>2, <1>19
        <4>3. CASE x = consumer.seen
          BY <4>3, <2>0, <2>2, <1>19
        <4> QED
          BY <4>1, <4>2, <4>3, <1>7
      <3>3. e.seq \in Seqs(batch)
        BY <3>2 DEF Seqs
      <3> QED
        BY <3>3, <1>18
    <2> QED
      BY <2>0, <2>1, <2>2
  <1>20. SqliteStreamInOrder'
    <2>1. \A e \in events : e.seq <= reader.pos => e.seq \in reader.got
      BY Zenon DEF EventInv, SqliteStreamInOrder
    <2> QED
      BY <2>1, <1>t, <1>10, <1>17, <1>19 DEF SqliteStreamInOrder
  <1> QED
    BY <1>15, <1>16, <1>20 DEF EventInv

LEMMA EventStep == EventInv /\ [SqliteStreamNext]_sqliteStreamVars => EventInv'
  <1> SUFFICES ASSUME EventInv, [SqliteStreamNext]_sqliteStreamVars PROVE EventInv'
    OBVIOUS
  <1>1. CASE UNCHANGED <<events, sequence, caller, consumer, reader, given, from, everPatterns>>
    <2>1. /\ events' = events /\ sequence' = sequence /\ caller' = caller /\ consumer' = consumer /\ reader' = reader
          /\ given' = given /\ from' = from /\ everPatterns' = everPatterns
      BY <1>1
    <2> QED
      BY <2>1, Zenon DEF EventInv, EventTypes, EventOrder, SqliteStreamInOrder
  <1>2. CASE (\E l \in StreamLeaders : RoundStarts(l) \/ PumpFails(l)) \/ UNCHANGED sqliteStreamVars
    BY <1>1, <1>2 DEF RoundStarts, PumpFails, sqliteStreamVars
  <1>3. CASE \E t \in Topics : StreamAppend(t) \/ AppendTx(t)
    BY <1>3, AppendKeeps
  <1>4. CASE CallerEnds \/ StreamRetention
    BY <1>4, CallerKeeps
  <1>5. CASE StreamRead
    BY <1>5, ReadKeeps
  <1>6. CASE (\E p \in Patterns : StreamConsumerUpsert(p)) \/ (\E s \in 0..MaxEvents : StreamConsumerSeek(s))
    BY <1>6, MovesKeeps
  <1>7. CASE \E l \in StreamLeaders : StreamPump(l)
    BY <1>7, PumpKeeps
  <1> QED
    BY <1>2, <1>3, <1>4, <1>5, <1>6, <1>7, Zenon DEF SqliteStreamNext

\* A consumer of a SQLite stream is given each event at most once and in
\* order, and none that its pattern always matched is left out; and pages read
\* by position skip none: for any number of events, transactions, leaders,
\* seeks and patterns and any batch (messaging.go, StreamPump and StreamRead).
THEOREM SqliteStreamKept == SqliteStreamSpec => []SqliteStreamInOrder
  <1>1. SqliteStreamInit => EventInv
    BY EventBegins
  <1>2. EventInv /\ [SqliteStreamNext]_sqliteStreamVars => EventInv'
    BY EventStep
  <1>3. EventInv => SqliteStreamInOrder
    BY DEF EventInv
  <1> QED
    BY <1>1, <1>2, <1>3, PTL DEF SqliteStreamSpec
=============================================================================
