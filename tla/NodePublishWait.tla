--------------------------- MODULE NodePublishWait ---------------------------
(***************************************************************************)
(* The two waits of PodMounter.Mount (pkg/driver/node/mounter/            *)
(* pod_mounter.go) composed: waitForMountpointPod, which is Watcher.Wait, *)
(* and, once it has returned the Running Mountpoint Pod, mountSource with  *)
(* its waitForMount.  The lock, the credentials and the bind mount that    *)
(* come between and after are in PodMounter.                               *)
(*                                                                         *)
(* Each component keeps its own variables; a step of one leaves the other's *)
(* unchanged.  They interact in two places:                                *)
(*   - Mount reaches mountSource only with the pod Wait returned, and its  *)
(*     retries (kubelet calling NodePublish again) reuse that pod;        *)
(*   - the Mountpoint process that serves the options runs in that pod,  *)
(*     so it mounts only while the informer shows the pod Running.        *)
(***************************************************************************)
EXTENDS Naturals

CONSTANTS MaxUpdates, MaxAttempts

VARIABLES
  store, registered, pending, hpc, podChan, podFound, wpc, waitResult,
  updates,
  attempt, apc, gpc, sent, cancelled, mountResult, mp, errFile,
  sourceMounted

W == INSTANCE Watcher WITH result <- waitResult
M == INSTANCE WaitForMount WITH result <- mountResult

wvars == <<store, registered, pending, hpc, podChan, podFound, wpc,
           waitResult, updates>>
mvars == <<attempt, apc, gpc, sent, cancelled, mountResult, mp, errFile,
           sourceMounted>>
vars == <<wvars, mvars>>

\* waitForMountpointPod returned the pod: Mount goes on to mountSource.
PodReturned == wpc = "done" /\ waitResult = "pod"

\* Mount after waitForMountpointPod: the FUSE mount of the source and the
\* send of the options, for the pod Wait returned.
MountSource == PodReturned /\ M!MountSource

\* Mountpoint, in the Mountpoint Pod, serves the options while it runs.
MountpointMounts == store = "running" /\ M!MountpointMounts

MountNext ==
  \/ MountSource \/ M!SendOptions \/ M!Receive
  \/ \E p \in M!Pollers : M!ErrorPoll(p) \/ M!MountPoll(p)
  \/ M!Deadline \/ MountpointMounts \/ M!MountpointFails

Init == W!Init /\ M!Init

Next ==
  \/ W!Next /\ UNCHANGED mvars
  \/ MountNext /\ UNCHANGED wvars

Spec == Init /\ [][Next]_vars /\ W!Fairness /\ M!Fairness

-----------------------------------------------------------------------------
(* Properties: each component's, checked in the composition.               *)

\* No lost wake-up in Watcher.Wait (see Watcher): a Running pod ends the
\* wait of a Mount that goes on to mount from it.
WaitSeesRunningPod == W!WaitSeesRunningPod

\* waitForMount always returns (see WaitForMount), also when Mountpoint
\* mounts only while its pod runs.
WaitForMountReturns == M!WaitForMountReturns
=============================================================================
