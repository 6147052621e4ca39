--------------------------- MODULE MC_Reconciler ---------------------------
(***************************************************************************)
(* Model-checking instance of Reconciler: two workload pods sharing one    *)
(* Mountpoint Pod selector (the fewest for which one pod's reconcile can   *)
(* race another's), and three Mountpoint Pod objects, enough for a first   *)
(* pod, a replacement after it exits, and one duplicate.                   *)
(***************************************************************************)
EXTENDS Reconciler, TLC

CONSTANTS w1, w2

MCWorkloads == {w1, w2}
MCWorkloads1 == {w1}

\* Workload pods are interchangeable.
WorkloadSymmetry == Permutations(MCWorkloads)
=============================================================================
