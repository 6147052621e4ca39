--------------------------- MODULE MC_PodMounter ---------------------------
(***************************************************************************)
(* Model-checking instance of PodMounter.  The safety run uses three       *)
(* targets (the fewest for which one lock holder, one waiter and a third   *)
(* caller can meet in the registry); the liveness run, which cannot use    *)
(* symmetry, uses two.  Two Mountpoint Pods are spawned one after the      *)
(* other, so a stale pod and its successor both occur.                     *)
(***************************************************************************)
EXTENDS PodMounter

CONSTANTS t1, t2, t3

MCTargets == {t1, t2, t3}
MCTargets2 == {t1, t2}

\* Targets are interchangeable: nothing in the model depends on their names.
TargetSymmetry == Permutations(MCTargets)
=============================================================================
