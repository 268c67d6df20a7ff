---------------------------- MODULE FencedClaims ----------------------------
(***************************************************************************)
(* What the job store promises about claims, without saying how: a job is   *)
(* claimed by at most one holder at a time, each claim has a fence greater  *)
(* than every earlier claim's of the job, and a result applies only to the  *)
(* claim it is a result of, which it ends (JobFinalizeMany in               *)
(* driver/driver.go: "a result is applied only if its job is still running  *)
(* in the claim that produced it").                                         *)
(***************************************************************************)
EXTENDS Integers

CONSTANTS Jobs, MaxFence

VARIABLES
    held,     \* whether a job is in a claim
    fence,    \* the fence of a job's latest claim
    ended     \* how many results of each claim have been applied

ledger == <<held, fence, ended>>

Fences == 0..MaxFence

LedgerInit ==
    /\ held = [j \in Jobs |-> FALSE]
    /\ fence = [j \in Jobs |-> 0]
    /\ ended = [j \in Jobs |-> [f \in Fences |-> 0]]

(* One transaction may claim several jobs. *)
Take(S) ==
    /\ \A j \in S : ~held[j] /\ fence[j] < MaxFence
    /\ held' = [j \in Jobs |-> j \in S \/ held[j]]
    /\ fence' = [j \in Jobs |-> IF j \in S THEN fence[j] + 1 ELSE fence[j]]
    /\ ended' = ended

(* A result of the claim of j at f is applied. *)
End(j, f) ==
    /\ held[j]
    /\ fence[j] = f
    /\ held' = [held EXCEPT ![j] = FALSE]
    /\ ended' = [ended EXCEPT ![j][f] = @ + 1]
    /\ fence' = fence

LedgerNext ==
    \/ \E S \in SUBSET Jobs : Take(S)
    \/ \E j \in Jobs, f \in Fences : End(j, f)

LedgerSpec == LedgerInit /\ [][LedgerNext]_ledger
=============================================================================
