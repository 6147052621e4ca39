# TLA+ models of the Mountpoint S3 CSI driver's Mountpoint Pod machinery

This directory holds TLA+ models of the parts of the driver that spawn, use and
tear down Mountpoint Pods. It also holds the TLC configurations that check
them. Every definition is translated from the Go source under `src/`, and
`PROJECT.json` maps each one to the lines it models.

## The system

| Part | Source | What it does |
|---|---|---|
| Reconciler | `cmd/aws-s3-csi-controller/csicontroller/reconciler.go` | controller-runtime reconciler for all Pods. For a workload pod whose PVC is bound to an S3 PV, it lists Mountpoint Pods with the pod's label selector on its node and creates one if none exists. An `Expectations` set (a `sync.Map` of selector keys) stops a second Create while the informer cache has not yet seen the first. For a Mountpoint Pod, it deletes the pod once it is Succeeded. |
| PodMounter | `pkg/driver/node/mounter/pod_mounter.go` | Node side of NodePublish/NodeUnpublish. **Mount** waits for the Mountpoint Pod and takes the pod's `MPPodLock`. It prepares `source` (`/…/<pod UID>`), writes the credentials, mounts FUSE on `source`, sends the fd over the pod's socket, waits for the mount (racing a `mount.error` poller and the deadline), then bind-mounts `source` on the target. **Unmount** unmounts the target. If no other bind mount of the source is left, it writes `mount.exit`, unmounts and removes the source, and cleans up the credentials. |
| MPPodLock registry | `pod_mounter.go:65-104` | A process-global map from pod UID to a mutex with a reference count, guarded by a global mutex. |
| Watcher | `pkg/podmounter/mppod/watcher/watcher.go` | `Wait` registers informer handlers, then lists the cache. It returns the single ready Mountpoint Pod for the selector, or `ErrPodNotFound`/`ErrPodNotReady` at the deadline. |
| Creator | `pkg/podmounter/mppod/creator.go`, `mppod.go` | Builds the Mountpoint Pod spec and its labels, which the Reconciler and the Watcher select on. |
| Controller server | `csicontroller/controller.go`, `mapper.go` | CreateVolume: validates StorageClass parameters, creates an ACK Bucket object and polls it until Synced, or uses an existing bucket. DeleteVolume returns success and deletes nothing. |
| Mountpoint Pod process | not under `src/` | Waits for mount options, serves FUSE, writes `mount.error` on failure, and exits on `mount.exit` or when unmounted. |

How they interact:
1. The Reconciler creates a Mountpoint Pod for a workload pod.
2. Kubelet calls NodePublish, which runs PodMounter.Mount.
3. Mount uses the Watcher to find the pod, then talks to it through files in its emptyDir.
4. The last Unmount writes `mount.exit`, and the pod exits Succeeded.
5. The Reconciler then deletes the Succeeded pod.

## Modules

### `PodMounter.tla` (node side)

**Constants**
- `Targets` are concurrent NodePublish/NodeUnpublish callers, one per target path.
- `MaxPods` is the number of Mountpoint Pod generations for one selector.
- `SourceUnmountMayFail` lets `unmountTarget(source)` fail: in Unmount, and in the deferred unmount of a Mount whose `Send` or wait failed (`DeferredUnmount`, 203-214), whose error the code only logs.

**State**

| Variable | Corresponds to |
|---|---|
| `pc`, `op`, `podOf` | each call's program point and the UID it resolved |
| `isTargetMP` | Mount's `isTargetMountPoint`, read before the lock |
| `mpPodLocks` | the registry map: UID to `[refCount, gen]`. `gen` names the `*MPPodLock` object, so a lock object deleted and re-created for the same UID is a different mutex. |
| `lockOf` | the object a call holds a pointer to |
| `holder` | the mutex owner of each object |
| `src` | the source path: absent, directory, FUSE mounted but not served, served, or server gone |
| `creds`, `exitFile`, `errFile` | the pod's credentials dir, `mount.exit` and `mount.error` |
| `mpPod` | the Mountpoint Pod process |
| `bind` | the source each target is bound to |

**Actions** (one per step of the Go code, in its order)

| Operation | Steps | Source lines |
|---|---|---|
| Mount | `MountBegin` (118-131) | 118-131 |
| | `waitForMountpointPod` | 347-356 |
| | `GetLock`, `Lock` | 142-143 |
| | `Provide` (source setup, credentials, the early return, `IsMountPoint(source)`; each of these may fail and return to the unlock, leaving what it had already done) | 149-179 |
| | `MountSource` (mount syscall, remove `mount.error`, `Send`; a failed `Send` runs `DeferredUnmount`) | 181-235 |
| | `waitForMount` (on error, `DeferredUnmount`) | 360-403 |
| | `BindMount` | 247-251 |
| | `Unlock`, `Release` (the deferred unlock and `releaseMPPodLock`) | |
| Unmount | `UnmountBegin` | 258-270 |
| | `UnmountTarget` (with `bindMountCount` and its error return) | 285-297 |
| | `WriteExit` | 300-305 |
| | `UnmountSource` | 307-311 |
| | `RemoveSource` | 313-317 |
| | `CleanupCredentials` | 319-323 |

Every error return the code takes is a disjunct that jumps to `Unlock`, as the deferred unlock does. `Provide` skips the mount when `IsMountPoint(source)` is true, which holds for a FUSE mount whether or not Mountpoint serves it. `PodCreate`, `PodStart`, `HelperMounted`, `HelperMountFailed` and `HelperExit` model the Mountpoint Pod process from the spec.

### `Reconciler.tla` (controller side)

The model covers two workload pods with the same selector on one node: the case in which the expectation set and the "exactly one Mountpoint Pod" rule matter.

**State**

| Variable | Corresponds to |
|---|---|
| `wl` | workload pod phase: unscheduled, active, terminating (`!isPodActive`), gone |
| `pvcBound` | the PVC is Bound to the PV: `getBoundPVForPodClaim` (a definition of the model) succeeds |
| `api` | Mountpoint Pod objects in the API server |
| `cache` | the informer cache, which lags `api` per object |
| `queue` | the work queue, a set, so requests are de-duplicated |
| `rpc` | where an in-flight reconcile of a workload pod is |
| `expectationPending` | the selector's key in `mountpointPodExpectations` |
| `mounted` | the pod each workload got its volume from |
| `served` | pods that have served a mount |

**Actions**

| Action | Models |
|---|---|
| `ReconcileWorkloadPod` | `Reconcile` (dispatch by `isMountpointPod`) and `reconcileWorkloadPod` up to the List; `getBoundPVForPodClaim` requeues while the PVC is unbound |
| `ListMountpointPods` / `ListFailed` | more than one, exactly one (Clear), none with IsPending (requeue), none (go on to spawn) / the List error |
| `SpawnMountpointPod` / `CreateFailed` | `spawnMountpointPod`; with `CreateMayTimeOut` a failed Create may still have persisted the pod (a client timeout) |
| `SetPending` | |
| `ReconcileMountpointPod` | `reconcileMountpointPod` with `deleteMountpointPod` |

The environment actions are:
- informer delivery (`InformerSync`, which updates the cache and enqueues the pod);
- the informer's periodic resync (`Resync`): an Update for every cached pod, which the `For(&corev1.Pod{})` watch of `SetupWithManager` turns into a request for each workload pod and each Mountpoint Pod;
- workload lifecycle;
- the node's mount and unmount, abstracted;
- Mountpoint Pod phases.

A Mountpoint Pod ends Succeeded only after it served a mount whose last user unmounted, because that is when `mount.exit` is written.

### `WaitForMount.tla` (node side, in detail)

`waitForMount` as its goroutines: the `mount.error` poller, the `IsMountPoint` poller, and the caller receiving once from the unbuffered `mountResultCh` and cancelling the child context. `MountSource` and `SendOptions` are the part of `mountSource` around it, so a failed call can be retried (`MaxAttempts` calls). `MountSource` is taken only when `IsMountPoint(source)` is false; its mount syscall may fail; it removes `mount.error` but leaves a Mountpoint still starting for an earlier attempt's options, which may write `mount.error` after the removal. A failed `Send` or wait runs `DeferredUnmount`, which may leave the FUSE mount in place; a retry then does not reach `mountSource`, and this module stops there (PodMounter follows that path). `gpc` is each poller's state (polling, blocked sending, exited), `sent` what it sends, `cancelled` each call's context. `Deadline` is NodePublish's context expiring; `MountpointMounts`/`MountpointFails` are the Mountpoint process (from the spec).

### `Watcher.tla`

One `Wait` against the shared Pod informer, for one Mountpoint Pod that matches its selector (the matching itself is in `MountpointPodLabels`). `AddEventHandler` registers the handler, and the informer queues a synthetic Add of the cached pod; on a stopped informer the registration fails and `Wait` returns at once; `ListPods` is the List with its three outcomes and its error; `ReceivePod` and `WaitTimeout` are the select; `RemoveEventHandler` is the deferred removal, which drops queued notifications. The handler goroutine (`HandleNotification`, `HandlerSend`) handles one notification at a time and blocks while `podChan` (capacity one) is full. The informer actions move the pod through its phases and add Update notifications (`MaxUpdates`): the resyncs `New` configures with `defaultResync`, and status changes.

### `NodePublishWait.tla` (composition)

Mount's two waits composed: `Watcher.Wait` (as `waitForMountpointPod`), then `mountSource` with its `waitForMount`. The module instances `Watcher` and `WaitForMount` with their own variables, and a step of one leaves the other's variables unchanged. They meet in two places. `MountSource` is enabled only once `Wait` returned the pod (`PodReturned`, `pod_mounter.go:135-140`; the source is that pod's, line 149), and kubelet's retries reuse that pod. `MountpointMounts` is enabled only while the informer shows the pod Running, because Mountpoint runs in that pod. Each component keeps its own fairness.

### `MountpointPodLabels.tla`

A pure-operator module. For a request (node, namespace, service account, fsGroup, PV with or without a CSI source and an `authenticationSource` attribute) it computes the labels `Creator.Create` writes, the reconciler's `labelFilters` and `deriveKeyFromFilters` key (over every order Go's map range may take, with `SetToSeqs`), and the node's List selector and `isAssignedMpPod`. `FormatInt` is `strconv.FormatInt` by digits. The state is one request; the invariants compare it with every request.

### `MPPodLock.tla` and the refinement

An abstract registry: each caller registers for a UID, waits, holds that UID's lock, releases it and deregisters; the registry holds an entry exactly for UIDs with registered callers; every waiting caller gets the lock. `PodMounter.tla` ends with `Abs == INSTANCE MPPodLock WITH ...`, mapping a call's `pc` to the abstract phase and `DOMAIN mpPodLocks` to the entries. `ImplementsMPPodLock == Abs!Spec` is checked in the failures run, so the reference counts and generations never break the lock, even when every step may fail.

### `CSIController.tla`

`CreateVolume` for several volumes. `InvalidRequest` is every error return before the Create, in the order the code checks (path isolation without PVC info, a missing or unparsable definition via `MapToBucketObjectFails`, a prefix with an explicit name, the Internal error of `SetNestedField` when a unique bucket's definition has a `spec` that is not a map, a shared or existing bucket without a name); `BucketName` and `PathPrefix` build the volume context. The action `CreateVolume` is the rest of the handler: an existing bucket returns at once; otherwise the ACK Bucket `Create` fails (already exists, or any API error) or creates the object. `PollBucket` is a tick of `waitForBucketCreation` that sees a Synced condition (ticks that see none, or whose Get fails, change nothing), and `WaitTimeout` the 5-minute timeout or the context ending. `DeleteVolume` takes a provisioned volume to deleted and leaves its Bucket object. The external provisioner's `Retry` and ACK's `AckSync` are the environment. `MC_CSIController` lets each of two volumes take any of five StorageClasses; the claims have one name in two namespaces. `MCClassesIsolation` adds an existing bucket that asks for path isolation with `uniqueBucketPerVolume` at its default.

### MC modules

`MC_PodMounter.tla`, `MC_Reconciler.tla` and `MC_CSIController.tla` declare the model values and the symmetry sets.

## Runs

| Run | Config | Expect | Shows |
|---|---|---|---|
| mounter_safety | `MC_PodMounter_safety.cfg` | pass (211,975 states) | `MutualExclusion`: no two calls for one pod UID are in their critical sections together, however the registry entry is created, shared and deleted. `BoundTargetServed`: a bound target always sees a served source with credentials, so Unmount never tears down a source still in use and Mount never binds one being torn down. |
| mounter_failures | `MC_PodMounter_failures.cfg` | pass (23,434 states) | Each error return the model has may be taken: the mount and bind syscalls, `Send`, the waits, both source unmounts, `bindMountCount`, `mount.exit`, `os.Remove`, the cleanup and each step of Provide. `OperationsComplete`: every call returns. `ImplementsMPPodLock`: PodMounter refines `MPPodLock`, fairness included, so the registry holds an entry exactly for the UIDs with callers. |
| mounter_exit_race | `MC_PodMounter_exit_race.cfg` | violation | `BoundTargetServed` breaks when a source unmount fails: Mount's deferred one after a failed wait (finding 6, TLC's shortest trace), or Unmount's after `mount.exit` was written (finding 1). |
| reconciler_single_worker | `MC_Reconciler_single_worker.cfg` | pass | `AtMostOneMountpointPod` holds with one worker (controller-runtime's default, which the controller keeps), a lagging cache, failing Lists and Creates and Failed pods. `MountedMountpointPodRunning`: a Mountpoint Pod a workload is mounted on is Running, so no reconciler step deletes a pod shared with a live mount; deleting the pod for a terminating workload pod, as the doc comment of `spawnOrDeleteMountpointPodIfNeeded` says, breaks it. |
| reconciler_cleanup | `MC_Reconciler_cleanup.cfg` | pass (63,049 states) | `SucceededMountpointPodDeleted` holds even with duplicates (from Creates that time out after persisting the pod), failed Deletes and the periodic resync. |
| reconciler_create_timeout | `MC_Reconciler_create_timeout.cfg` | violation | `AtMostOneMountpointPod` fails with one worker when a Create times out after persisting the pod (finding 2). |
| nodepublish_wait | `NodePublishWait.cfg` | pass (37,024 states) | The composition of the two waits. `WaitSeesRunningPod`: no lost wake-up, whether the pod became Running before the handler was registered, between registration and List, or during the select. `WaitForMountReturns`: the `waitForMount` that follows returns whatever Mountpoint does, including a stale `mount.error` from an earlier attempt and a failed mount syscall. |
| waitformount_leak | `WaitForMount_leak.cfg` | violation | `PollersExit` fails: the `IsMountPoint` poller blocks for ever after a `mount.error` result (finding 3). |
| reconciler_stuck_expectation | `MC_Reconciler_stuck_expectation.cfg` | violation | `WorkloadEventuallyMounted` fails with one worker, no pod failures, no Create timeouts and the periodic resync (finding 5). |
| watcher_leak | `Watcher_leak.cfg` | violation | `HandlerNotLeaked` fails: a second ready notification blocks the handler on the full `podChan` after `Wait` returned (finding 4). |
| controller_provision | `MC_CSIController.cfg` | pass (956 states) | `CreateVolumeReturns`: every wait for a bucket ends, whatever ACK does, across timeouts, failed syncs and retries. |
| labels | `MountpointPodLabels.cfg` | pass (288 states) | `LabelsAgree`: the created pod is listed by the reconciler and found by the node (List and event) exactly for requests of the same identity. `ExpectKeyFaithful`: one expectation key per request whatever the map order, and distinct identities get distinct keys. |

Each property of a passing run has a mutant in `PROJECT.json`, and TLC finds each mutant violates its property. The mutants are fault variants defined next to the operator they replace:
- a lock with refCount 0, or one whose refCount is not incremented (also breaks the refinement);
- an off-by-one `bindMountCount`;
- a `waitForMount` without the deadline;
- a worker pool without its limit;
- a dropped `IsPending` check;
- a Succeeded pod that is not deleted;
- an `IsMountPoint` poller that returns without sending on error;
- handlers that do not send;
- the fsGroup label omitted when empty;
- a key built in map order without `sort.Strings`;
- a bucket wait without its timeout.

### Findings

1. **`pod_mounter.go:301-311`.** `mount.exit` is created before the source is unmounted, and it is not removed when the unmount fails. The source is still served, so the next Mount of another target on that pod bind-mounts it. The Mountpoint Pod then exits on the stale marker, leaving the new target on a source without a FUSE server.
2. **`reconciler.go:288-293`.** A Create that returns an error after the API server persisted the pod skips `SetPending`. The requeued reconcile lists a cache without the pod and creates a second one, with one worker. `Creator.Create`'s doc comment says the name comes from `MountpointPodNameFor`, which would make the second Create fail; the code uses `GenerateName: "mp-"`.
3. **`pod_mounter.go:382-393`.** The `IsMountPoint` poller sends even when its context was cancelled. When the `mount.error` poller wins, nobody receives that send: one goroutine leaks per failed mount.
4. **`watcher.go:70,80`.** Every ready notification is sent on `podChan` (buffer one), which `Wait` reads at most once. A second one (a resync Update, or the synthetic Add after `Wait` already returned from its List) blocks the handler goroutine for ever; `RemoveEventHandler` cannot unblock it.

5. **`reconciler.go:241-255`.** The expectation is cleared only by a reconcile that lists exactly one Mountpoint Pod. In TLC's trace, one workload pod (the spawner) spawns a pod and sets the expectation. The pod runs and serves the other workload pod, which terminates, and the pod exits and is deleted, all before a reconcile of the spawner lists it; the requeue backoff and one worker make this possible. From then on the spawner lists zero pods, sees `IsPending` and is requeued for ever without a spawn. The periodic resync only requeues it again. The same happens to every later workload pod with that volume, auth source and fsGroup on that node, until the controller restarts. The spec says a leaked expectation "only ever suppresses a duplicate spawn".

6. **`pod_mounter.go:203-214`.** When `waitForMount` fails (its deadline, or `mount.error`), the deferred `unmountTarget(source)` runs; if it fails, the error is only logged. The FUSE mount stays at `source`. Kubelet's retry sees `IsMountPoint(source)` true, skips `mountSource` and bind-mounts the target on a source that Mountpoint may never serve. The comment at 203 says the default exists so that `source` is never left mounted when Mountpoint does not serve it.

Also seen while modelling, and not given a run:
- Path isolation (`controller.go:74`) is applied only when `uniqueBucketPerVolume` is `"false"`. A StorageClass for an existing bucket (`createBucket: "false"`) that sets `enablePVCPathIsolation: "true"` and leaves `uniqueBucketPerVolume` at its default puts every volume of the class on that bucket with no prefix. The comment at 67 says isolation is "for shared buckets". `MC_CSIController_isolation.cfg` shows this as a violation of `IsolationRequestedHonoured` two steps from the initial state (both volumes' CreateVolume succeed).
- When `os.Remove(source)` fails after the source unmount (`pod_mounter.go:313-317`), Unmount returns an error. Kubelet's retry finds no source mount for the target and takes the fallback at 258-266, so the directory `SourceMountDir/<UID>` is never removed. The spec says the source is "removed" when the count reaches zero. `MC_PodMounter_leftover.cfg` shows this as a violation of `SourceDirectoryRemoved`. It is not a kept run, because only an empty host directory leaks: the credentials are in the pod's emptyDir and go with the pod.
- A Failed Mountpoint Pod is only logged (`reconciler.go:114-118`; the spec lists it as an open question). It stays listed, so every reconcile of a workload pod with its selector sees exactly one pod and stops: that workload never mounts. `MC_Reconciler_failed_pod.cfg` shows it as a 6-step violation of `WorkloadEventuallyMounted`.
- A CreateVolume whose wait for the bucket timed out leaves the Bucket object; every retry of the same volume then fails its Create with AlreadyExists, returned as Internal (`controller.go:188-191`, with a TODO), so the volume is never provisioned. The same happens to the second volume of a created shared bucket. `CSIController` reaches both states.
- Listing exactly one Mountpoint Pod ends a reconcile without requeue, even when that pod is Succeeded. A workload pod waiting on it is reconciled again only at the informer's periodic resync (`reconciler.go:241-250`), which the model includes (`Resync`). It is a delay of up to the SyncPeriod (10 hours by default), not a loss.
- The doc comment at `reconciler.go:183-186` says the Mountpoint Pod of a workload pod terminated before running is deleted; the code returns at `!isPodActive` and deletes nothing. The code is the safe side: a Mountpoint Pod serves every workload pod of its selector on the node, and the mutant that does the deletion violates `MountedMountpointPodRunning` when another workload pod is mounted on it.

## Bounds

**PodMounter**
- Three targets make two binds to one source possible while a third call tears down or sets up.
- Two pod generations let a stale watcher cache hand out a pod that exited while a new one starts.
- The lock generations (`Gens`, one per target) are enough for every call to hold a distinct object.
- Symmetry over targets is used only in the safety runs.
- The liveness and refinement run uses two targets and one pod generation. With both source unmounts able to fail, a second generation takes it past five minutes; the registry's generations of lock objects still occur, because a UID's entry is deleted and re-created between calls.

**Reconciler**
- Two workload pods are the least that share a Mountpoint Pod and race on the expectation.
- Three pod objects allow one to be created, exited, deleted and respawned, plus a duplicate.
- The cleanup run has one workload pod, three pod objects and no pod failures: the duplicates come from that pod's own timed-out Creates, and the third object allows a replacement after a pod exits. A second workload pod adds only more reconciles competing for the worker, which the run already has, and takes the liveness check past five minutes. The stuck-expectation run uses two workload pods and two pod objects. Both use one worker, as deployed.

**NodePublishWait**: two attempts of `mountSource`, so a retry after each kind of failure is reached, and two Update notifications, enough for a second ready notification before and after the List. **Labels**: two of each identity field (see `MountpointPodLabels.cfg`).

## Fairness

**PodMounter**
- Go schedules runnable goroutines, so every step of a call is weakly fair.
- `sync.Mutex` switches to starvation mode, handing the lock to a long waiter, so acquiring an `MPPodLock` is strongly fair.
- Nothing is assumed of kubelet or of the Mountpoint Pod.

**Reconciler**
- The informer keeps delivering events, and kubelet starts a pending pod (weak fairness on each, separately).
- Workers keep taking queued requests. The work queue is FIFO, so a Mountpoint Pod request that waits while the one worker is busy with workload pods is taken once a worker is free often enough (strong fairness on `ReconcileMountpointPod`).
- `r.List` and `r.Create` always return (weak fairness on the success and failure actions together), and do not fail on every retry (strong fairness on `ListMountpointPods` and `SpawnMountpointPod`, which a failure disables by requeueing).
- Kubelet keeps retrying NodePublish (weak fairness on `NodeMount`).
- Workload termination and Mountpoint Pod exit are not forced.
- The informer's periodic resync keeps firing (weak fairness on `Resync`): controller-runtime's default SyncPeriod, since the controller's manager options are not under `src/`.

**CSIController**: the polling loop runs, and `time.After` fires (weak fairness on `PollBucket` and `WaitTimeout`); neither ACK nor the provisioner's retries are forced.

**WaitForMount**: every poller goroutine and the receive are weakly fair, and NodePublish's deadline eventually passes (weak fairness on `Deadline`). **Watcher**: `Wait` and the handler goroutine are weakly fair; the deadline is not forced. `NodePublishWait` assumes both, each of its own component: `Wait`'s select may outwait its deadline, so a wake-up is never credited to the timeout.

Deadlock checking is off where the system rightly stops: the Reconciler runs once every workload pod is gone, WaitForMount once a call succeeds or the retries run out, Watcher and NodePublishWait once `Wait` returned, the mount attempts ended and the pod's lifecycle ended, CSIController once every volume is provisioned.

## Not modelled yet

- **A composition** of Reconciler and PodMounter. Mount's two waits are composed in `NodePublishWait`.
- **Several volumes per workload pod** and several selectors in the Reconciler; the per-identity behaviour of keys and labels is checked in `MountpointPodLabels`.
- **The other controller RPCs** and the identity service return Unimplemented or constants and change no state. The Bucket object's labels and namespace are data no property reads.
- **`MountpointPodNameFor`** (`mppod.go`) is called nowhere: `Creator.Create` uses `GenerateName` (see finding 2).
- **`Watcher.Start`**: the node plugin waits for the informer's first sync before serving; the models start from a synced informer.
- **The Mountpoint Pod's container spec** in `Creator.Create`, which no property depends on.
