------------------------------ MODULE Watcher ------------------------------
(***************************************************************************)
(* Watcher.Wait (pkg/podmounter/mppod/watcher/watcher.go): one call       *)
(* waiting for the Mountpoint Pod of its volume, against the shared Pod    *)
(* informer.                                                               *)
(*                                                                         *)
(* Wait registers an event handler, lists the informer cache, and then     *)
(* selects on its podChan (capacity one) or on the context's deadline.  On *)
(* return the deferred RemoveEventHandler runs.  The handler runs on its  *)
(* own goroutine (client-go's processorListener), one notification at a  *)
(* time:                                                                   *)
(*   - registering it on a started informer queues a synthetic Add for    *)
(*     every cached object;                                               *)
(*   - removing it drops the notifications not yet handed to it, but the *)
(*     call in progress runs on.                                          *)
(*                                                                         *)
(* The model has one Mountpoint Pod, on this node and with the labels the *)
(* call selects (isAssignedMpPod holds); the label matching itself is in *)
(* MountpointPodLabels.                                                   *)
(***************************************************************************)
EXTENDS Naturals, Sequences

CONSTANTS
  MaxUpdates   \* Update notifications (resyncs, status changes) in a behaviour

ASSUME MaxUpdates \in Nat

\* The Mountpoint Pod in the informer cache: not yet created, its phase, or
\* deleted (a later Mountpoint Pod is another object, out of this model).
PodStates == {"none", "pending", "running", "succeeded", "deleted"}
Absent == {"none", "deleted"}

VARIABLES
  store,       \* the informer cache's copy of the Mountpoint Pod
  registered,  \* Wait's handler is registered with the informer
  pending,     \* notifications queued for the handler (pod snapshots)
  hpc,         \* the handler goroutine: idle, or blocked sending on podChan
  podChan,     \* values buffered in podChan (capacity 1)
  podFound,    \* Wait's podFound atomic.Bool
  wpc,         \* where Wait is
  result,      \* what Wait returned
  updates      \* Update notifications generated so far

vars == <<store, registered, pending, hpc, podChan, podFound, wpc, result,
          updates>>

\* isPodReady: phase Running.
isPodReady(s) == s = "running"

-----------------------------------------------------------------------------
(* Wait                                                                    *)

\* podChan := make(chan, 1); informer.AddEventHandler; the informer queues
\* an Add of the cached pod for the new handler.  On an informer that has
\* stopped the registration fails and Wait returns the error at once,
\* before the deferred RemoveEventHandler is set up.
AddEventHandler ==
  /\ wpc = "add"
  /\ \/ /\ registered' = TRUE
        /\ pending' = IF store \notin Absent THEN <<store>> ELSE <<>>
        /\ wpc' = "list"
        /\ UNCHANGED result
     \/ /\ result' = "error"
        /\ wpc' = "done"
        /\ UNCHANGED <<registered, pending>>
  /\ UNCHANGED <<store, hpc, podChan, podFound, updates>>

\* lister.List, filtered to this node: one ready pod is returned at once;
\* one pod that is not ready sets podFound; a failed List returns its error.
ListPods ==
  /\ wpc = "list"
  /\ \/ /\ isPodReady(store)
        /\ podFound' = TRUE
        /\ result' = "pod"
        /\ wpc' = "remove"
     \/ /\ store \notin Absent \cup {"running"}
        /\ podFound' = TRUE
        /\ wpc' = "select"
        /\ UNCHANGED result
     \/ /\ store \in Absent
        /\ wpc' = "select"
        /\ UNCHANGED <<podFound, result>>
     \/ /\ result' = "error"
        /\ wpc' = "remove"
        /\ UNCHANGED podFound
  /\ UNCHANGED <<store, registered, pending, hpc, podChan, updates>>

\* case pod := <-podChan.
ReceivePod ==
  /\ wpc = "select"
  /\ podChan > 0
  /\ podChan' = podChan - 1
  /\ result' = "pod"
  /\ wpc' = "remove"
  /\ UNCHANGED <<store, registered, pending, hpc, podFound, updates>>

\* case <-ctx.Done(): ErrPodNotReady if the pod was seen, else ErrPodNotFound.
WaitTimeout ==
  /\ wpc = "select"
  /\ result' = IF podFound THEN "notready" ELSE "notfound"
  /\ wpc' = "remove"
  /\ UNCHANGED <<store, registered, pending, hpc, podChan, podFound, updates>>

\* The deferred informer.RemoveEventHandler(handle).
RemoveEventHandler ==
  /\ wpc = "remove"
  /\ registered' = FALSE
  /\ pending' = <<>>
  /\ wpc' = "done"
  /\ UNCHANGED <<store, hpc, podChan, podFound, result, updates>>

-----------------------------------------------------------------------------
(* The handler goroutine                                                   *)

\* Fault variant: the handlers record the pod but the send on podChan is
\* missing.
HandleNotificationNoSend ==
  /\ hpc = "idle"
  /\ pending # <<>>
  /\ pending' = Tail(pending)
  /\ podFound' = TRUE
  /\ UNCHANGED <<store, registered, hpc, podChan, wpc, result, updates>>

\* AddFunc / UpdateFunc: the pod is assigned, so podFound is set, and a
\* ready pod is sent on podChan, blocking while the buffer is full.
HandleNotification ==
  /\ hpc = "idle"
  /\ pending # <<>>
  /\ pending' = Tail(pending)
  /\ podFound' = TRUE
  /\ \/ /\ isPodReady(Head(pending))
        /\ podChan < 1
        /\ podChan' = podChan + 1
        /\ UNCHANGED hpc
     \/ /\ isPodReady(Head(pending))
        /\ podChan = 1
        /\ hpc' = "blocked"
        /\ UNCHANGED podChan
     \/ /\ ~isPodReady(Head(pending))
        /\ UNCHANGED <<hpc, podChan>>
  /\ UNCHANGED <<store, registered, wpc, result, updates>>

\* The blocked podChan <- pod completes once the buffer has room.
HandlerSend ==
  /\ hpc = "blocked"
  /\ podChan < 1
  /\ podChan' = podChan + 1
  /\ hpc' = "idle"
  /\ UNCHANGED <<store, registered, pending, podFound, wpc, result, updates>>

-----------------------------------------------------------------------------
(* The informer (environment): the pod's lifecycle as the cache sees it.   *)

\* A notification for a registered handler.
Notify(s) == IF registered THEN Append(pending, s) ELSE pending

\* Add, then phase changes, each an event; a deletion has no DeleteFunc.
PodChanged ==
  /\ \/ store = "none" /\ store' = "pending"
     \/ store = "pending" /\ store' = "running"
     \/ store = "running" /\ store' = "succeeded"
  /\ pending' = Notify(store')
  /\ UNCHANGED <<registered, hpc, podChan, podFound, wpc, result, updates>>

PodDeleted ==
  /\ store = "succeeded"
  /\ store' = "deleted"
  /\ UNCHANGED <<registered, pending, hpc, podChan, podFound, wpc, result,
                 updates>>

\* A resync (every defaultResync, which New gives the informer factory) or a
\* status change that keeps the phase: an Update event.
PodUpdated ==
  /\ store \notin Absent
  /\ updates < MaxUpdates
  /\ updates' = updates + 1
  /\ pending' = Notify(store)
  /\ UNCHANGED <<store, registered, hpc, podChan, podFound, wpc, result>>

-----------------------------------------------------------------------------

Init ==
  /\ store \in PodStates
  /\ registered = FALSE
  /\ pending = <<>>
  /\ hpc = "idle"
  /\ podChan = 0
  /\ podFound = FALSE
  /\ wpc = "add"
  /\ result = "none"
  /\ updates = 0

Next ==
  \/ AddEventHandler \/ ListPods \/ ReceivePod \/ WaitTimeout
  \/ RemoveEventHandler
  \/ HandleNotification \/ HandlerSend
  \/ PodChanged \/ PodDeleted \/ PodUpdated

\* The Go scheduler runs Wait and the handler goroutine; client-go hands
\* every queued notification to the handler.  The deadline is not forced:
\* Wait may outwait it.  Nothing is assumed of the pod's lifecycle.
Fairness ==
  /\ WF_vars(AddEventHandler \/ ListPods \/ ReceivePod \/ RemoveEventHandler)
  /\ WF_vars(HandleNotification)
  /\ WF_vars(HandlerSend)

Spec == Init /\ [][Next]_vars /\ Fairness

-----------------------------------------------------------------------------
(* Properties                                                              *)

TypeOK ==
  /\ store \in PodStates
  /\ registered \in BOOLEAN
  /\ pending \in Seq(PodStates)
  /\ hpc \in {"idle", "blocked"}
  /\ podChan \in 0..1
  /\ podFound \in BOOLEAN
  /\ wpc \in {"add", "list", "select", "remove", "done"}
  /\ result \in {"none", "pod", "error", "notready", "notfound"}
  /\ updates \in 0..MaxUpdates

\* No lost wake-up: once the Mountpoint Pod is Running and stays so, Wait
\* returns (with the pod, unless its deadline came first), whether the pod
\* became ready before the handler was registered, between the
\* registration and the List, or while Wait selects on podChan.
WaitSeesRunningPod ==
  (wpc \in {"add", "list", "select"} /\ isPodReady(store))
    ~> (wpc \in {"remove", "done"} \/ ~isPodReady(store))

\* Every send of the handler completes: once Wait has returned and removed
\* its handler, the handler goroutine is not left blocked on podChan,
\* which nobody reads any more.
HandlerNotLeaked ==
  wpc = "done" => hpc # "blocked"
=============================================================================
