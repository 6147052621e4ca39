----------------------------- MODULE Reconciler -----------------------------
(***************************************************************************)
(* The controller's Pod reconciler (cmd/aws-s3-csi-controller/             *)
(* csicontroller/reconciler.go) with its Expectations set, the            *)
(* controller-runtime work queue and informer cache it runs on, and the   *)
(* node side abstracted to "a workload is mounted on a Running            *)
(* Mountpoint Pod".                                                       *)
(*                                                                         *)
(* Every workload pod in the model uses the same PV on the same node with *)
(* the same authentication source and fsGroup, so all of them map to one  *)
(* label selector and one expectation key (deriveKeyFromFilters): the     *)
(* case in which the expectation set and the "exactly one Mountpoint Pod" *)
(* rule matter.  Workload pods with other selectors never meet these.     *)
(***************************************************************************)
EXTENDS Naturals, FiniteSets, FiniteSetsExt

CONSTANTS
  Workloads,    \* workload pods (model values)
  MaxMpPods,    \* Mountpoint Pods that may be created in a behaviour
  Workers,      \* the controller's MaxConcurrentReconciles
  MpPodMayFail, \* whether a Mountpoint Pod may end in phase Failed
  CreateMayTimeOut, \* whether r.Create may fail after the pod was persisted
  None

ASSUME /\ Workloads # {} /\ None \notin Workloads
       /\ MaxMpPods \in Nat \ {0} /\ Workers \in Nat \ {0}
       /\ MpPodMayFail \in BOOLEAN /\ CreateMayTimeOut \in BOOLEAN

MpPods == 1..MaxMpPods          \* Mountpoint Pod objects, in creation order
Requests == Workloads \cup MpPods \* reconcile.Request keys

\* Workload pod: not yet scheduled, active, not active (DeletionTimestamp set
\* or phase Succeeded/Failed: isPodActive is false), deleted.
WlStates == {"unscheduled", "active", "terminating", "gone"}
\* Mountpoint Pod object: not created, its phases, deleted.
MpStates == {"none", "pending", "running", "succeeded", "failed", "deleted"}
Exists == {"pending", "running", "succeeded", "failed"}

VARIABLES
  wl,          \* workload pod state (API server and cache agree)
  pvcBound,    \* the workloads' PVC is Bound to the PV, whose ClaimRef matches
  api,         \* Mountpoint Pod objects in the API server
  cache,       \* the informer cache's view of them, which lags behind
  queue,       \* requests waiting in the work queue
  rpc,         \* where each workload pod's reconcile is (idle: not running)
  expectationPending, \* the selector's key is in mountpointPodExpectations
  mounted,     \* the Mountpoint Pod the node mounted each workload's volume on
  served       \* Mountpoint Pods that have served a mount

vars == <<wl, pvcBound, api, cache, queue, rpc, expectationPending, mounted,
          served>>

\* Reconciles in flight take the controller's workers.
Busy == Cardinality({w \in Workloads : rpc[w] # "idle"})

\* The result of Reconcile for w: Result{Requeue: true} or an error both put
\* w back on the queue; Result{} with no error drops it.
Finish(w, requeue) ==
  /\ rpc' = [rpc EXCEPT ![w] = "idle"]
  /\ queue' = IF requeue THEN queue \cup {w} ELSE queue

-----------------------------------------------------------------------------
(* Reconcile of a workload pod                                             *)

\* isPodActive: neither Succeeded nor Failed, and no DeletionTimestamp.
isPodActive(w) == wl[w] = "active"

\* isMountpointPod: a pod in the Mountpoint Pod namespace.  Reconcile sends
\* those to reconcileMountpointPod and every other pod to
\* reconcileWorkloadPod.
isMountpointPod(r) == r \in MpPods

\* getBoundPVForPodClaim succeeds when the PVC is Bound with a volume name
\* and the PV's ClaimRef names it; before that it returns
\* errPVCIsNotBoundToAPV.  Every PV here is the S3 CSI driver's, so
\* extractCSISpecFromPV always finds its CSI source.
getBoundPVForPodClaim == pvcBound

\* Fault variant: a worker pool that takes a request whatever the number of
\* reconciles already in flight.
ReconcileWorkloadPodUnbounded(w) ==
  /\ w \in queue
  /\ rpc[w] = "idle"
  /\ isPodActive(w)
  /\ pvcBound
  /\ queue' = queue \ {w}
  /\ rpc' = [rpc EXCEPT ![w] = "list"]
  /\ UNCHANGED <<wl, pvcBound, api, cache, expectationPending, mounted, served>>

\* Reconcile: r.Get the pod (not found: done), isMountpointPod (no),
\* reconcileWorkloadPod: skip an unscheduled pod; getBoundPVForPodClaim
\* (PVC not bound: requeue; a failed Get or a PV whose ClaimRef names another
\* claim: error, which requeues too); spawnOrDeleteMountpointPodIfNeeded
\* does nothing for an inactive pod.
\* Fault variant: the doc comment of spawnOrDeleteMountpointPodIfNeeded
\* carried out: a workload pod scheduled for termination has the Mountpoint
\* Pods of its selector deleted.
ReconcileWorkloadPodDeleteOnTerminate(w) ==
  /\ w \in queue
  /\ rpc[w] = "idle"
  /\ Busy < Workers
  /\ \/ /\ wl[w] \in {"gone", "unscheduled"}
        /\ queue' = queue \ {w}
        /\ UNCHANGED <<rpc, api>>
     \/ /\ wl[w] = "terminating"
        /\ pvcBound
        /\ queue' = queue \ {w}
        /\ api' = [q \in MpPods |-> IF cache[q] \in Exists THEN "deleted"
                                                          ELSE api[q]]
        /\ UNCHANGED rpc
     \/ /\ isPodActive(w)
        /\ pvcBound
        /\ queue' = queue \ {w}
        /\ rpc' = [rpc EXCEPT ![w] = "list"]
        /\ UNCHANGED api
  /\ UNCHANGED <<wl, pvcBound, cache, expectationPending, mounted, served>>

ReconcileWorkloadPod(w) ==
  /\ w \in queue
  /\ ~isMountpointPod(w)
  /\ rpc[w] = "idle"
  /\ Busy < Workers
  /\ \/ /\ wl[w] \in {"gone", "unscheduled"}
        /\ queue' = queue \ {w}
        /\ UNCHANGED rpc
        \* errPVCIsNotBoundToAPV when the PVC is not bound, or an error
        \* reading the PVC or the PV requeues the request: a step that changes
        \* nothing, so it is the stuttering step and needs no disjunct
     \/ /\ wl[w] = "terminating"
        /\ getBoundPVForPodClaim
        /\ queue' = queue \ {w}
        /\ UNCHANGED rpc
     \/ /\ isPodActive(w)
        /\ getBoundPVForPodClaim
        /\ queue' = queue \ {w}
        /\ rpc' = [rpc EXCEPT ![w] = "list"]
  /\ UNCHANGED <<wl, pvcBound, api, cache, expectationPending, mounted, served>>

\* Mountpoint Pods on the node matching the selector, as r.List sees them:
\* the cache, whatever their phase.
Listed == {p \in MpPods : cache[p] \in Exists}

\* Fault variant: the IsPending check dropped, so an empty list always spawns.
ListMountpointPodsNoExpectation(w) ==
  /\ rpc[w] = "list"
  /\ Listed = {}
  /\ rpc' = [rpc EXCEPT ![w] = "spawn"]
  /\ UNCHANGED <<wl, pvcBound, api, cache, queue, expectationPending, mounted,
                 served>>

\* r.List, then: more than one pod is an error; exactly one clears the
\* expectation; none with the expectation pending requeues; none without
\* it goes on to spawn.  IsPending and the spawn are separate steps.
ListMountpointPods(w) ==
  /\ rpc[w] = "list"
  /\ \/ /\ Cardinality(Listed) > 1
        /\ Finish(w, TRUE)
        /\ UNCHANGED expectationPending
     \/ /\ Cardinality(Listed) = 1
        /\ expectationPending' = FALSE
        /\ Finish(w, FALSE)
     \/ /\ Listed = {}
        /\ expectationPending
        /\ Finish(w, TRUE)
        /\ UNCHANGED expectationPending
     \/ /\ Listed = {}
        /\ ~expectationPending
        /\ rpc' = [rpc EXCEPT ![w] = "spawn"]
        /\ UNCHANGED <<queue, expectationPending>>
  /\ UNCHANGED <<wl, pvcBound, api, cache, mounted, served>>

\* A failed r.List returns its error, which requeues the workload pod.
ListFailed(w) ==
  /\ rpc[w] = "list"
  /\ Finish(w, TRUE)
  /\ UNCHANGED <<wl, pvcBound, api, cache, expectationPending, mounted, served>>

\* spawnMountpointPod: r.Create of the pod built by Creator.Create (the API
\* server assigns the next object).
SpawnMountpointPod(w) ==
  LET p == Min({q \in MpPods : api[q] = "none"}) IN
  /\ rpc[w] = "spawn"
  /\ \E q \in MpPods : api[q] = "none"
  /\ api' = [api EXCEPT ![p] = "pending"]
  /\ rpc' = [rpc EXCEPT ![w] = "setpending"]
  /\ UNCHANGED <<wl, pvcBound, cache, queue, expectationPending, mounted, served>>

\* A failed Create returns the error, which requeues the workload pod.  The
\* error may be a timeout after the API server persisted the pod: with
\* GenerateName the retry is not refused as AlreadyExists.
CreateFailed(w) ==
  LET p == Min({q \in MpPods : api[q] = "none"}) IN
  /\ rpc[w] = "spawn"
  /\ \/ UNCHANGED api
     \/ /\ CreateMayTimeOut
        /\ \E q \in MpPods : api[q] = "none"
        /\ api' = [api EXCEPT ![p] = "pending"]
  /\ Finish(w, TRUE)
  /\ UNCHANGED <<wl, pvcBound, cache, expectationPending, mounted, served>>

\* mountpointPodExpectations.SetPending(expectKey); Result{Requeue: true}.
SetPending(w) ==
  /\ rpc[w] = "setpending"
  /\ expectationPending' = TRUE
  /\ Finish(w, TRUE)
  /\ UNCHANGED <<wl, pvcBound, api, cache, mounted, served>>

-----------------------------------------------------------------------------
(* Reconcile of a Mountpoint Pod                                           *)

\* deleteMountpointPod: r.Delete; NotFound counts as deleted.
deleteMountpointPod(p) == [api EXCEPT ![p] = "deleted"]

\* Fault variant: a Succeeded pod only logged, as the Failed phase is.
ReconcileMountpointPodNoDelete(p) ==
  /\ p \in queue
  /\ Busy < Workers
  /\ queue' = queue \ {p}
  /\ UNCHANGED <<wl, pvcBound, api, cache, rpc, expectationPending, mounted, served>>

\* r.Get from the cache (not found: done); reconcileMountpointPod deletes a
\* Succeeded pod (NotFound from Delete is success, another error requeues)
\* and only logs the other phases, Failed included.
ReconcileMountpointPod(p) ==
  /\ p \in queue
  /\ isMountpointPod(p)
  /\ Busy < Workers
  /\ \/ /\ cache[p] = "succeeded"
        /\ api' = deleteMountpointPod(p)
        /\ queue' = queue \ {p}
     \* a failed Delete requeues p and changes nothing: a stuttering step
     \/ /\ cache[p] # "succeeded"
        /\ queue' = queue \ {p}
        /\ UNCHANGED api
  /\ UNCHANGED <<wl, pvcBound, cache, rpc, expectationPending, mounted, served>>

-----------------------------------------------------------------------------
(* Environment: the informer, the workload pods, the node, the Mountpoint  *)
(* Pods.  Every change of a pod object is a watch event that enqueues it. *)

\* The informer applies the API server's current state of p and enqueues it.
InformerSync(p) ==
  /\ cache[p] # api[p]
  /\ cache' = [cache EXCEPT ![p] = api[p]]
  /\ queue' = queue \cup {p}
  /\ UNCHANGED <<wl, pvcBound, api, rpc, expectationPending, mounted, served>>

\* The informer's periodic resync (controller-runtime's SyncPeriod): an
\* Update for every cached pod, which the For(&corev1.Pod{}) watch turns
\* into a request for each workload pod and each Mountpoint Pod.
Resync ==
  LET cached == {w \in Workloads : wl[w] \in {"active", "terminating"}}
                \cup {p \in MpPods : cache[p] \in Exists}
  IN /\ ~(cached \subseteq queue)
     /\ queue' = queue \cup cached
     /\ UNCHANGED <<wl, pvcBound, api, cache, rpc, expectationPending, mounted,
                    served>>

WorkloadScheduled(w) ==
  /\ wl[w] = "unscheduled"
  /\ wl' = [wl EXCEPT ![w] = "active"]
  /\ queue' = queue \cup {w}
  /\ UNCHANGED <<pvcBound, api, cache, rpc, expectationPending, mounted, served>>

\* The PVC binding is a PVC event, which this controller does not watch.
PVCBound ==
  /\ ~pvcBound
  /\ pvcBound' = TRUE
  /\ UNCHANGED <<wl, api, cache, queue, rpc, expectationPending, mounted, served>>

WorkloadTerminating(w) ==
  /\ wl[w] = "active"
  /\ wl' = [wl EXCEPT ![w] = "terminating"]
  /\ queue' = queue \cup {w}
  /\ UNCHANGED <<pvcBound, api, cache, rpc, expectationPending, mounted, served>>

\* Kubelet removes the pod once its volume is unmounted.
WorkloadDeleted(w) ==
  /\ wl[w] = "terminating"
  /\ mounted[w] = None
  /\ wl' = [wl EXCEPT ![w] = "gone"]
  /\ queue' = queue \cup {w}
  /\ UNCHANGED <<pvcBound, api, cache, rpc, expectationPending, mounted, served>>

\* The node's PodMounter.Mount succeeds on a Running Mountpoint Pod; the
\* workload pod's containers then start, and the status update enqueues it.
NodeMount(w) ==
  /\ wl[w] = "active"
  /\ mounted[w] = None
  /\ \E p \in MpPods :
       /\ api[p] = "running"
       /\ mounted' = [mounted EXCEPT ![w] = p]
       /\ served' = served \cup {p}
  /\ queue' = queue \cup {w}
  /\ UNCHANGED <<wl, pvcBound, api, cache, rpc, expectationPending>>

\* PodMounter.Unmount for a workload that is going away.
NodeUnmount(w) ==
  /\ wl[w] = "terminating"
  /\ mounted[w] # None
  /\ mounted' = [mounted EXCEPT ![w] = None]
  /\ UNCHANGED <<wl, pvcBound, api, cache, queue, rpc, expectationPending, served>>

MpPodRunning(p) ==
  /\ api[p] = "pending"
  /\ api' = [api EXCEPT ![p] = "running"]
  /\ UNCHANGED <<wl, pvcBound, cache, queue, rpc, expectationPending, mounted, served>>

\* The last Unmount on the pod writes mount.exit; Mountpoint exits zero and
\* restartPolicy OnFailure leaves the pod Succeeded.
MpPodSucceeded(p) ==
  /\ api[p] = "running"
  /\ p \in served
  /\ \A w \in Workloads : mounted[w] # p
  /\ api' = [api EXCEPT ![p] = "succeeded"]
  /\ UNCHANGED <<wl, pvcBound, cache, queue, rpc, expectationPending, mounted, served>>

\* A pod the kubelet gives up on (eviction, node pressure) ends Failed.
MpPodFailed(p) ==
  /\ MpPodMayFail
  /\ api[p] = "running"
  /\ api' = [api EXCEPT ![p] = "failed"]
  /\ mounted' = [w \in Workloads |-> IF mounted[w] = p THEN None ELSE mounted[w]]
  /\ UNCHANGED <<wl, pvcBound, cache, queue, rpc, expectationPending, served>>

-----------------------------------------------------------------------------

Init ==
  /\ wl = [w \in Workloads |-> "unscheduled"]
  /\ pvcBound \in BOOLEAN
  /\ api = [p \in MpPods |-> "none"]
  /\ cache = [p \in MpPods |-> "none"]
  /\ queue = {}
  /\ rpc = [w \in Workloads |-> "idle"]
  /\ expectationPending = FALSE
  /\ mounted = [w \in Workloads |-> None]
  /\ served = {}

Controller ==
  \/ \E w \in Workloads :
       \/ ReconcileWorkloadPod(w) \/ ListMountpointPods(w) \/ ListFailed(w)
       \/ SpawnMountpointPod(w) \/ CreateFailed(w) \/ SetPending(w)
  \/ \E p \in MpPods : ReconcileMountpointPod(p)

Environment ==
  \/ PVCBound \/ Resync
  \/ \E p \in MpPods :
       InformerSync(p) \/ MpPodRunning(p) \/ MpPodSucceeded(p) \/ MpPodFailed(p)
  \/ \E w \in Workloads :
       \/ WorkloadScheduled(w) \/ WorkloadTerminating(w) \/ WorkloadDeleted(w)
       \/ NodeMount(w) \/ NodeUnmount(w)

Next == Controller \/ Environment

Spec == Init /\ [][Next]_vars

\* controller-runtime's workers keep taking queued requests (the work queue
\* is FIFO, so a request that waits while workers are busy is taken once
\* one is free often enough: strong fairness), the informer
\* keeps delivering watch events, kubelet starts a scheduled pod and keeps
\* retrying NodePublish while the workload pod wants its volume.  r.List and
\* r.Create return, and may fail, but not on every retry.  Nothing is assumed of when workload
\* pods terminate or Mountpoint Pods exit.  The resync timer keeps firing.
Fairness ==
  /\ \A w \in Workloads :
       /\ WF_vars(ReconcileWorkloadPod(w) \/ ListMountpointPods(w)
                  \/ ListFailed(w) \/ SpawnMountpointPod(w) \/ CreateFailed(w)
                  \/ SetPending(w))
       /\ SF_vars(ListMountpointPods(w)) /\ SF_vars(SpawnMountpointPod(w))
       /\ WF_vars(NodeMount(w))
  /\ \A p \in MpPods :
       /\ SF_vars(ReconcileMountpointPod(p))
       /\ WF_vars(InformerSync(p))
       /\ WF_vars(MpPodRunning(p))
  /\ WF_vars(Resync)

FairSpec == Spec /\ Fairness

-----------------------------------------------------------------------------
(* Properties                                                              *)

TypeOK ==
  /\ wl \in [Workloads -> WlStates]
  /\ pvcBound \in BOOLEAN
  /\ api \in [MpPods -> MpStates]
  /\ cache \in [MpPods -> MpStates]
  /\ queue \subseteq Requests
  /\ rpc \in [Workloads -> {"idle", "list", "spawn", "setpending"}]
  /\ expectationPending \in BOOLEAN
  /\ mounted \in [Workloads -> MpPods \cup {None}]
  /\ served \subseteq MpPods
  \* reconciles in flight never exceed MaxConcurrentReconciles
  /\ Busy <= Workers

\* At most one Mountpoint Pod exists for one selector on one node: the
\* expectation recorded after a Create keeps later reconciles, which still
\* list a stale cache, from spawning a second pod, and a pod is replaced
\* only after the cache has seen the old one deleted.
AtMostOneMountpointPod ==
  Cardinality({p \in MpPods : api[p] \in Exists}) <= 1

\* A Mountpoint Pod that a workload pod's volume is mounted on is Running
\* in the API server: the reconciler deletes only Succeeded pods, and a pod
\* succeeds only after the last Unmount on it.  Mountpoint Pods are shared
\* by every workload pod of a selector, so the deletion that the doc
\* comment of spawnOrDeleteMountpointPodIfNeeded promises for a workload
\* pod scheduled for termination would pull the pod from under the others.
MountedMountpointPodRunning ==
  \A w \in Workloads : mounted[w] # None => api[mounted[w]] = "running"

\* Every active workload pod whose PVC is bound is eventually mounted on a
\* Mountpoint Pod (or stops being active): the reconciler spawns a pod for
\* it whenever none exists.
WorkloadEventuallyMounted ==
  \A w \in Workloads :
    (wl[w] = "active" /\ pvcBound) ~> (mounted[w] # None \/ wl[w] # "active")

\* Every Mountpoint Pod that reaches phase Succeeded is eventually deleted
\* from the API server: its phase change is a watch event, and
\* reconcileMountpointPod deletes it (retrying a failed Delete), even while
\* workers are busy with workload pods and duplicates exist.
SucceededMountpointPodDeleted ==
  \A p \in MpPods : (api[p] = "succeeded") ~> (api[p] = "deleted")
=============================================================================
