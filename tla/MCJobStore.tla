----------------------------- MODULE MCJobStore -----------------------------
(***************************************************************************)
(* Instances of JobStore for TLC.                                           *)
(***************************************************************************)
EXTENDS JobStore, TLC

CONSTANTS j1, j2, k1, u1

SoloJobs == {j1}
PairJobs == {j1, j2}

(* No job has a key. *)
NoKeys == [j \in Jobs |-> NoKey]
(* Every job has the ordering key k1; the unique key u1. *)
OneOrderingKey == [j \in Jobs |-> k1]
OneUniqueKey   == [j \in Jobs |-> u1]
(* Every job has a unique key of its own. *)
OwnUniqueKey   == [j \in Jobs |-> j]
SamePriority   == [j \in Jobs |-> 2]

(* Clients are interchangeable, and so are jobs with the same keys: no      *)
(* action or property tells them apart.                                     *)
ClientSymmetry    == Permutations(Clients)
JobClientSymmetry == Permutations(Clients) \cup Permutations(Jobs)
=============================================================================
