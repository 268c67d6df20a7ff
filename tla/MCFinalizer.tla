---------------------------- MODULE MCFinalizer ----------------------------
(* Three results, for TLC. *)
EXTENDS Finalizer, TLC

CONSTANTS r1, r2, r3

\* The log of r2 alone is more than the budget.
SomeLogs == r1 :> 1 @@ r2 :> 2 @@ r3 :> 0
=============================================================================
