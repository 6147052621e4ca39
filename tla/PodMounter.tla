----------------------------- MODULE PodMounter -----------------------------
(***************************************************************************)
(* The node-local mount orchestrator (pkg/driver/node/mounter/            *)
(* pod_mounter.go): PodMounter.Mount and PodMounter.Unmount, the          *)
(* process-global Mountpoint Pod lock registry (getMPPodLock /            *)
(* releaseMPPodLock), the source mount shared by every target of one      *)
(* Mountpoint Pod, and the file-based protocol with the Mountpoint Pod    *)
(* (mount options over the socket, mount.error, mount.exit).              *)
(*                                                                         *)
(* Every target is served by one kubelet operation at a time, so each     *)
(* target is one thread that runs Mount or Unmount to completion.  All    *)
(* targets share one volume / credential identity, hence one Mountpoint   *)
(* Pod at a time; MaxPods pods (UIDs 1..MaxPods) may be spawned one after *)
(* another over a behaviour.  The Mountpoint Pod itself is the            *)
(* environment: its behaviour is modelled from the spec (the mounter      *)
(* binary is not under src/).                                             *)
(***************************************************************************)
EXTENDS Naturals, FiniteSets, FiniteSetsExt, Functions, TLC

CONSTANTS
  Targets,   \* target paths published by kubelet (model values)
  MaxPods,   \* number of Mountpoint Pods that may be spawned in a behaviour
  SourceUnmountMayFail, \* whether unmountTarget(source) may fail, in Unmount
                        \* and in Mount's deferred unmount
  None       \* no pod / no lock / no thread

ASSUME /\ Targets # {} /\ MaxPods \in Nat \ {0} /\ None \notin Targets
       /\ SourceUnmountMayFail \in BOOLEAN

UIDs == 1..MaxPods
\* An MPPodLock is identified by its UID and a generation; at most one
\* lock object per thread can be referenced, so |Targets| generations suffice.
Gens == 0..(Cardinality(Targets) - 1)
LockObjs == UIDs \X Gens

\* Mountpoint Pod states: not created, Pending, and while Running the state
\* of the mounter process (waiting for options, mounting, serving), exited.
Running == {"waiting", "mounting", "serving"}
PodStates == {"none", "pending", "exited"} \cup Running

\* State of the source path SourceMountDir + UID on the node: missing,
\* a plain directory, FUSE-mounted by the node but not yet served, served
\* by Mountpoint, or a FUSE mount whose server is gone (corrupted).
SrcStates == {"absent", "dir", "fuse", "live", "dead"}

VARIABLES
  pc,          \* program counter of the operation running on each target
  op,          \* "mount" or "unmount"
  podOf,       \* the Mountpoint Pod UID the operation works on
  isTargetMP,  \* Mount's isTargetMountPoint, read before waiting for the pod
  lockOf,      \* the MPPodLock object the operation obtained from the registry
  mpPodLocks,  \* the registry: UID -> [refCount, gen]
  holder,      \* holder of each MPPodLock's mutex
  src,         \* source path state per UID
  creds,       \* credentials written in the pod's credentials dir
  exitFile,    \* mount.exit exists in the pod's communication dir
  errFile,     \* mount.error exists in the pod's communication dir
  mpPod,       \* Mountpoint Pod state
  bind         \* the UID whose source is bind-mounted on the target

vars == <<pc, op, podOf, isTargetMP, lockOf, mpPodLocks, holder, src, creds,
          exitFile, errFile, mpPod, bind>>

PCs == {"idle", "wait", "getlock", "lock", "provide", "mount", "waitmount",
        "bind", "unmount_target", "exit", "unmount_source", "remove_source",
        "cleanup", "unlock", "release"}

\* Program points at which the operation holds its MPPodLock's mutex.
CriticalPCs == {"provide", "mount", "waitmount", "bind", "unmount_target",
                "exit", "unmount_source", "remove_source", "cleanup", "unlock"}

Goto(t, l) == pc' = [pc EXCEPT ![t] = l]

-----------------------------------------------------------------------------
(* The lock registry.                                                      *)

\* A generation no operation refers to, for a freshly created MPPodLock.
FreeGen(u) == CHOOSE g \in Gens : \A t \in Targets : lockOf[t] # <<u, g>>

\* Fault variants of the registry, each a plausible slip in the Go code:
\* the new MPPodLock left with a zero refCount (&MPPodLock{}), and the
\* lock.refCount++ for an existing entry dropped.
getMPPodLockZeroRef(u) ==
  IF u \in DOMAIN mpPodLocks
  THEN [mpPodLocks EXCEPT ![u].refCount = @ + 1]
  ELSE mpPodLocks @@ (u :> [refCount |-> 0, gen |-> FreeGen(u)])
getMPPodLockNoIncrement(u) ==
  IF u \in DOMAIN mpPodLocks
  THEN mpPodLocks
  ELSE mpPodLocks @@ (u :> [refCount |-> 1, gen |-> FreeGen(u)])

\* getMPPodLock: create the entry with refCount 1, or increment it.
getMPPodLock(u) ==
  IF u \in DOMAIN mpPodLocks
  THEN [mpPodLocks EXCEPT ![u].refCount = @ + 1]
  ELSE mpPodLocks @@ (u :> [refCount |-> 1, gen |-> FreeGen(u)])

\* releaseMPPodLock: decrement, deleting the entry once it reaches zero.
releaseMPPodLock(u) ==
  IF u \notin DOMAIN mpPodLocks THEN mpPodLocks
  ELSE IF mpPodLocks[u].refCount - 1 <= 0
       THEN Restrict(mpPodLocks, DOMAIN mpPodLocks \ {u})
       ELSE [mpPodLocks EXCEPT ![u].refCount = @ - 1]

\* Fault variant: the count is off by one.
bindMountCountOffByOne(u, t) ==
  Quantify(Targets \ {t}, LAMBDA x : bind[x] = u) - 1

\* bindMountCount(source, target): bind mounts of the source other than target.
bindMountCount(u, t) == Quantify(Targets \ {t}, LAMBDA x : bind[x] = u)

-----------------------------------------------------------------------------
(* Mount                                                                   *)

\* volumeNameFromTargetPath, verifyOrSetupMountTarget(target) (a corrupted
\* target, bound to a source whose server is gone, is unmounted) and
\* IsMountPoint(target).
MountBegin(t) ==
  LET b == IF bind[t] # None /\ src[bind[t]] = "dead" THEN None ELSE bind[t]
  IN /\ pc[t] = "idle"
     /\ bind' = [bind EXCEPT ![t] = b]
     /\ isTargetMP' = [isTargetMP EXCEPT ![t] = (b # None)]
     /\ op' = [op EXCEPT ![t] = "mount"]
     /\ Goto(t, "wait")
     /\ UNCHANGED <<podOf, lockOf, mpPodLocks, holder, src, creds, exitFile,
                    errFile, mpPod>>

\* waitForMountpointPod: the watcher's informer cache may still show a pod
\* as Running after it exited; on the ctx deadline it fails with
\* ErrPodNotFound / ErrPodNotReady.
waitForMountpointPod(t) ==
  /\ pc[t] = "wait"
  /\ \/ \E u \in UIDs :
          /\ mpPod[u] \in Running \cup {"exited"}
          /\ podOf' = [podOf EXCEPT ![t] = u]
          /\ Goto(t, "getlock")
     \/ /\ Goto(t, "idle")
        /\ UNCHANGED podOf
  /\ UNCHANGED <<op, isTargetMP, lockOf, mpPodLocks, holder, src, creds,
                 exitFile, errFile, mpPod, bind>>

\* mpPodLock := getMPPodLock(mpPodUID), under mpPodLocksMutex.
GetLock(t) ==
  LET u == podOf[t]
      l == getMPPodLock(u)
  IN /\ pc[t] = "getlock"
     /\ mpPodLocks' = l
     /\ lockOf' = [lockOf EXCEPT ![t] = <<u, l[u].gen>>]
     /\ Goto(t, "lock")
     /\ UNCHANGED <<op, podOf, isTargetMP, holder, src, creds, exitFile,
                    errFile, mpPod, bind>>

\* mpPodLock.mutex.Lock(): blocks until the mutex of that object is free.
Lock(t) ==
  /\ pc[t] = "lock"
  /\ holder[lockOf[t]] = None
  /\ holder' = [holder EXCEPT ![lockOf[t]] = t]
  /\ Goto(t, IF op[t] = "mount" THEN "provide" ELSE "unmount_target")
  /\ UNCHANGED <<op, podOf, isTargetMP, lockOf, mpPodLocks, src, creds,
                 exitFile, errFile, mpPod, bind>>

\* verifyOrSetupMountTarget: a missing directory is created, a corrupted
\* mount (its FUSE server gone) is unmounted, anything else is left as is.
verifyOrSetupMountTarget(s) == IF s \in {"absent", "dead"} THEN "dir" ELSE s

\* verifyOrSetupMountTarget(source), ensureCredentialsDirExists and
\* credProvider.Provide, the early return for an already mounted target,
\* then IsMountPoint(source).  Each of them may fail and return: before the
\* source is set up, after it (no credentials written), or after the
\* credentials were written (IsMountPoint of the source failing).
Provide(t) ==
  LET u == podOf[t]
      s == verifyOrSetupMountTarget(src[u])
  IN /\ pc[t] = "provide"
     /\ \/ /\ src' = [src EXCEPT ![u] = s]
           /\ creds' = [creds EXCEPT ![u] = TRUE]
           /\ Goto(t, IF isTargetMP[t] THEN "unlock"
                      ELSE IF s \in {"fuse", "live"} THEN "bind"
                      ELSE "mount")
        \/ /\ src' \in {src, [src EXCEPT ![u] = s]}
           /\ creds' \in {creds, [creds EXCEPT ![u] = TRUE]}
           /\ creds' # creds => src' = [src EXCEPT ![u] = s]
           /\ Goto(t, "unlock")
     /\ UNCHANGED <<op, podOf, isTargetMP, lockOf, mpPodLocks, holder,
                    exitFile, errFile, mpPod, bind>>

\* The deferred unmountTarget(source) of a Mount that failed after the mount
\* syscall: the source is unmounted, or the error is only logged and the
\* FUSE mount stays as it is (it runs after closeFUSEDevFD, so a mount no
\* Mountpoint received a descriptor for is left without a server).
DeferredUnmount(u, left) ==
  \/ src' = [src EXCEPT ![u] = "dir"]
  \/ SourceUnmountMayFail /\ src' = [src EXCEPT ![u] = left]

\* mountSyscallWithDefault(source), os.Remove(mount.error) and
\* mountoptions.Send.  A failed mount syscall returns at once; a failed
\* Send runs the deferred unmount of the source.  Only a mounter process
\* waiting for options accepts them.
MountSource(t) ==
  LET u == podOf[t] IN
  /\ pc[t] = "mount"
  /\ \/ /\ Goto(t, "unlock")
        /\ UNCHANGED <<src, errFile, mpPod>>
     \/ /\ mpPod[u] = "waiting"
        /\ src' = [src EXCEPT ![u] = "fuse"]
        /\ errFile' = [errFile EXCEPT ![u] = FALSE]
        /\ mpPod' = [mpPod EXCEPT ![u] = "mounting"]
        /\ Goto(t, "waitmount")
     \/ /\ errFile' = [errFile EXCEPT ![u] = FALSE]
        /\ DeferredUnmount(u, "dead")
        /\ Goto(t, "unlock")
        /\ UNCHANGED mpPod
  /\ UNCHANGED <<op, podOf, isTargetMP, lockOf, mpPodLocks, holder, creds,
                 exitFile, bind>>

\* Fault variant: the pollers run under a context without the caller's
\* deadline, so only the mount or a mount.error ends the wait.
waitForMountNoDeadline(t) ==
  LET u == podOf[t] IN
  /\ pc[t] = "waitmount"
  /\ \/ /\ src[u] = "live"
        /\ Goto(t, "bind")
        /\ UNCHANGED src
     \/ /\ errFile[u]
        /\ DeferredUnmount(u, src[u])
        /\ Goto(t, "unlock")
  /\ UNCHANGED <<op, podOf, isTargetMP, lockOf, mpPodLocks, holder, creds,
                 exitFile, errFile, mpPod, bind>>

\* waitForMount: the IsMountPoint poller, the mount.error poller and the
\* ctx deadline race; on error the deferred unmount of the source runs
\* (Mountpoint holds its own descriptor, so a mount left behind keeps its
\* state).
waitForMount(t) ==
  LET u == podOf[t] IN
  /\ pc[t] = "waitmount"
  /\ \/ /\ src[u] = "live"
        /\ Goto(t, "bind")
        /\ UNCHANGED src
     \/ /\ errFile[u]
        /\ DeferredUnmount(u, src[u])
        /\ Goto(t, "unlock")
     \/ /\ DeferredUnmount(u, src[u])   \* ctx deadline
        /\ Goto(t, "unlock")
  /\ UNCHANGED <<op, podOf, isTargetMP, lockOf, mpPodLocks, holder, creds,
                 exitFile, errFile, mpPod, bind>>

\* bindMountSyscallWithDefault(source, target), which may fail.
BindMount(t) ==
  /\ pc[t] = "bind"
  /\ \/ bind' = [bind EXCEPT ![t] = podOf[t]]
     \/ UNCHANGED bind
  /\ Goto(t, "unlock")
  /\ UNCHANGED <<op, podOf, isTargetMP, lockOf, mpPodLocks, holder, src,
                 creds, exitFile, errFile, mpPod>>

\* The deferred mpPodLock.mutex.Unlock() ...
Unlock(t) ==
  /\ pc[t] = "unlock"
  /\ holder' = [holder EXCEPT ![lockOf[t]] = None]
  /\ Goto(t, "release")
  /\ UNCHANGED <<op, podOf, isTargetMP, lockOf, mpPodLocks, src, creds,
                 exitFile, errFile, mpPod, bind>>

\* ... followed by releaseMPPodLock(mpPodUID); the operation returns.
Release(t) ==
  /\ pc[t] = "release"
  /\ mpPodLocks' = releaseMPPodLock(podOf[t])
  /\ lockOf' = [lockOf EXCEPT ![t] = None]
  /\ podOf' = [podOf EXCEPT ![t] = None]
  /\ Goto(t, "idle")
  /\ UNCHANGED <<op, isTargetMP, holder, src, creds, exitFile, errFile,
                 mpPod, bind>>

-----------------------------------------------------------------------------
(* Unmount                                                                 *)

\* findSourceMountPoint(target) and mpPodUID := filepath.Base(source).  When
\* the target has no source the fallback unmount of the target changes
\* nothing this model tracks, so that branch is a stuttering step.
UnmountBegin(t) ==
  /\ pc[t] = "idle"
  /\ bind[t] # None
  /\ podOf' = [podOf EXCEPT ![t] = bind[t]]
  /\ op' = [op EXCEPT ![t] = "unmount"]
  /\ Goto(t, "getlock")
  /\ UNCHANGED <<isTargetMP, lockOf, mpPodLocks, holder, src, creds, exitFile,
                 errFile, mpPod, bind>>

\* unmountTarget(target), then bindMountCount(source, target), which may
\* fail; with other bind mounts left the operation returns.
UnmountTarget(t) ==
  LET u == podOf[t] IN
  /\ pc[t] = "unmount_target"
  /\ \/ /\ bind' = [bind EXCEPT ![t] = None]
        /\ Goto(t, IF bindMountCount(u, t) = 0 THEN "exit" ELSE "unlock")
     \/ /\ bind' = [bind EXCEPT ![t] = None]
        /\ Goto(t, "unlock")
     \/ /\ Goto(t, "unlock")
        /\ UNCHANGED bind
  /\ UNCHANGED <<op, podOf, isTargetMP, lockOf, mpPodLocks, holder, src,
                 creds, exitFile, errFile, mpPod>>

\* Create mount.exit to make the Mountpoint Pod exit cleanly.
WriteExit(t) ==
  /\ pc[t] = "exit"
  /\ \/ /\ exitFile' = [exitFile EXCEPT ![podOf[t]] = TRUE]
        /\ Goto(t, "unmount_source")
     \/ /\ Goto(t, "unlock")
        /\ UNCHANGED exitFile
  /\ UNCHANGED <<op, podOf, isTargetMP, lockOf, mpPodLocks, holder, src,
                 creds, errFile, mpPod, bind>>

\* unmountTarget(source).
UnmountSource(t) ==
  /\ pc[t] = "unmount_source"
  /\ \/ /\ src' = [src EXCEPT ![podOf[t]] = "dir"]
        /\ Goto(t, "remove_source")
     \/ /\ SourceUnmountMayFail
        /\ Goto(t, "unlock")
        /\ UNCHANGED src
  /\ UNCHANGED <<op, podOf, isTargetMP, lockOf, mpPodLocks, holder, creds,
                 exitFile, errFile, mpPod, bind>>

\* os.Remove(source).
RemoveSource(t) ==
  /\ pc[t] = "remove_source"
  /\ \/ /\ src' = [src EXCEPT ![podOf[t]] = "absent"]
        /\ Goto(t, "cleanup")
     \/ /\ Goto(t, "unlock")
        /\ UNCHANGED src
  /\ UNCHANGED <<op, podOf, isTargetMP, lockOf, mpPodLocks, holder, creds,
                 exitFile, errFile, mpPod, bind>>

\* credProvider.Cleanup: remove the credentials written for the pod.
CleanupCredentials(t) ==
  /\ pc[t] = "cleanup"
  /\ \/ creds' = [creds EXCEPT ![podOf[t]] = FALSE]
     \/ UNCHANGED creds
  /\ Goto(t, "unlock")
  /\ UNCHANGED <<op, podOf, isTargetMP, lockOf, mpPodLocks, holder, src,
                 exitFile, errFile, mpPod, bind>>

-----------------------------------------------------------------------------
(* The Mountpoint Pod (environment, modelled from the spec).               *)

\* The reconciler spawns a new Mountpoint Pod for the identity once every
\* earlier one has exited (and been deleted).
PodCreate(u) ==
  /\ mpPod[u] = "none"
  /\ \A v \in 1..(u - 1) : mpPod[v] = "exited"
  /\ mpPod' = [mpPod EXCEPT ![u] = "pending"]
  /\ UNCHANGED <<pc, op, podOf, isTargetMP, lockOf, mpPodLocks, holder, src,
                 creds, exitFile, errFile, bind>>

PodStart(u) ==
  /\ mpPod[u] = "pending"
  /\ mpPod' = [mpPod EXCEPT ![u] = "waiting"]
  /\ UNCHANGED <<pc, op, podOf, isTargetMP, lockOf, mpPodLocks, holder, src,
                 creds, exitFile, errFile, bind>>

\* Mountpoint starts serving the FUSE device it received.
HelperMounted(u) ==
  /\ mpPod[u] = "mounting"
  /\ src[u] = "fuse"
  /\ mpPod' = [mpPod EXCEPT ![u] = "serving"]
  /\ src' = [src EXCEPT ![u] = "live"]
  /\ UNCHANGED <<pc, op, podOf, isTargetMP, lockOf, mpPodLocks, holder,
                 creds, exitFile, errFile, bind>>

\* Mountpoint fails to mount: it writes mount.error and exits non-zero;
\* restartPolicy OnFailure restarts the container, which again waits for
\* options.  The FUSE mount it left has no server.
HelperMountFailed(u) ==
  /\ mpPod[u] = "mounting"
  /\ mpPod' = [mpPod EXCEPT ![u] = "waiting"]
  /\ errFile' = [errFile EXCEPT ![u] = TRUE]
  /\ src' = [src EXCEPT ![u] = IF @ = "fuse" THEN "dead" ELSE @]
  /\ UNCHANGED <<pc, op, podOf, isTargetMP, lockOf, mpPodLocks, holder,
                 creds, exitFile, bind>>

\* The mounter exits with code zero when mount.exit is present or when its
\* filesystem has been unmounted; the pod becomes Succeeded.  A source it
\* still served is left without a server.
HelperExit(u) ==
  /\ \/ mpPod[u] = "serving" /\ (exitFile[u] \/ src[u] # "live")
     \/ mpPod[u] = "waiting" /\ exitFile[u]
  /\ mpPod' = [mpPod EXCEPT ![u] = "exited"]
  /\ src' = [src EXCEPT ![u] = IF @ = "live" THEN "dead" ELSE @]
  /\ UNCHANGED <<pc, op, podOf, isTargetMP, lockOf, mpPodLocks, holder,
                 creds, exitFile, errFile, bind>>

-----------------------------------------------------------------------------

Init ==
  /\ pc = [t \in Targets |-> "idle"]
  /\ op = [t \in Targets |-> "mount"]
  /\ podOf = [t \in Targets |-> None]
  /\ isTargetMP = [t \in Targets |-> FALSE]
  /\ lockOf = [t \in Targets |-> None]
  /\ mpPodLocks = <<>>
  /\ holder = [o \in LockObjs |-> None]
  /\ src = [u \in UIDs |-> "absent"]
  /\ creds = [u \in UIDs |-> FALSE]
  /\ exitFile = [u \in UIDs |-> FALSE]
  /\ errFile = [u \in UIDs |-> FALSE]
  /\ mpPod = [u \in UIDs |-> "none"]
  /\ bind = [t \in Targets |-> None]

Thread(t) ==
  \/ MountBegin(t) \/ waitForMountpointPod(t) \/ GetLock(t) \/ Lock(t)
  \/ Provide(t) \/ MountSource(t) \/ waitForMount(t) \/ BindMount(t)
  \/ UnmountBegin(t) \/ UnmountTarget(t) \/ WriteExit(t) \/ UnmountSource(t)
  \/ RemoveSource(t) \/ CleanupCredentials(t) \/ Unlock(t) \/ Release(t)

MountpointPod(u) ==
  \/ PodCreate(u) \/ PodStart(u) \/ HelperMounted(u)
  \/ HelperMountFailed(u) \/ HelperExit(u)

Next ==
  \/ \E t \in Targets : Thread(t)
  \/ \E u \in UIDs : MountpointPod(u)

\* Goroutines are scheduled fairly and sync.Mutex hands the lock to a
\* waiter eventually (starvation mode), so every step of an operation is
\* weakly fair and acquiring the mutex, enabled only intermittently, is
\* strongly fair.  Nothing is assumed of kubelet or the Mountpoint Pod.
Fairness ==
  \A t \in Targets :
    /\ WF_vars(waitForMountpointPod(t) \/ GetLock(t) \/ Provide(t)
               \/ MountSource(t) \/ waitForMount(t) \/ BindMount(t)
               \/ UnmountTarget(t) \/ WriteExit(t) \/ UnmountSource(t)
               \/ RemoveSource(t) \/ CleanupCredentials(t) \/ Unlock(t)
               \/ Release(t))
    /\ SF_vars(Lock(t))

Spec == Init /\ [][Next]_vars /\ Fairness

-----------------------------------------------------------------------------
(* Properties                                                              *)

TypeOK ==
  /\ pc \in [Targets -> PCs]
  /\ op \in [Targets -> {"mount", "unmount"}]
  /\ podOf \in [Targets -> UIDs \cup {None}]
  /\ isTargetMP \in [Targets -> BOOLEAN]
  /\ lockOf \in [Targets -> LockObjs \cup {None}]
  /\ DOMAIN mpPodLocks \subseteq UIDs
  /\ \A u \in DOMAIN mpPodLocks :
       mpPodLocks[u] \in [refCount : 1..Cardinality(Targets), gen : Gens]
  /\ holder \in [LockObjs -> Targets \cup {None}]
  /\ src \in [UIDs -> SrcStates]
  /\ creds \in [UIDs -> BOOLEAN]
  /\ exitFile \in [UIDs -> BOOLEAN]
  /\ errFile \in [UIDs -> BOOLEAN]
  /\ mpPod \in [UIDs -> PodStates]
  /\ bind \in [Targets -> UIDs \cup {None}]

\* Mount and Unmount calls that work on the same Mountpoint Pod never run
\* their critical sections (source setup, credential writes, bind mounts,
\* teardown) at the same time: the MPPodLock registry hands every caller
\* for one UID the same mutex.
MutualExclusion ==
  \A t1, t2 \in Targets :
    (t1 # t2 /\ pc[t1] \in CriticalPCs /\ pc[t2] \in CriticalPCs)
      => podOf[t1] # podOf[t2]

\* Every bind-mounted target sees a source that Mountpoint is serving, with
\* the pod's credentials in place: Unmount never tears down (mount.exit,
\* source unmount, credential cleanup) a source another target still uses,
\* and Mount never binds a source that is being torn down.
BoundTargetServed ==
  \A t \in Targets :
    bind[t] # None => src[bind[t]] = "live" /\ creds[bind[t]]

\* Every Mount and Unmount returns: no caller waits forever on an MPPodLock.
OperationsComplete ==
  \A t \in Targets : pc[t] # "idle" ~> pc[t] = "idle"
\* Once Unmount of the last target has written mount.exit for a Mountpoint
\* Pod, the pod's source directory (SourceMountDir + UID, on the node) is
\* eventually removed, as the teardown in Unmount (exit marker, source
\* unmount, os.Remove, credential cleanup) promises when the bind mount
\* count reaches zero, also when a step of it fails and kubelet retries.
SourceDirectoryRemoved ==
  \A u \in UIDs : exitFile[u] ~> src[u] = "absent"

-----------------------------------------------------------------------------
(* Refinement: the registry and mutexes implement MPPodLock.              *)

\* Where each operation is with respect to its MPPodLock: waiting in
\* mutex.Lock, holding it, past the Unlock before releaseMPPodLock, or
\* not registered.
LockPhase(t) ==
  CASE pc[t] = "lock"         -> "waiting"
    [] pc[t] \in CriticalPCs  -> "inside"
    [] pc[t] = "release"      -> "leaving"
    [] OTHER                  -> "out"

Abs == INSTANCE MPPodLock WITH
         Callers <- Targets,
         phase <- [t \in Targets |-> LockPhase(t)],
         at <- [t \in Targets |-> IF LockPhase(t) = "out" THEN None
                                                      ELSE podOf[t]],
         entries <- DOMAIN mpPodLocks

\* The registry, the reference counts and the per-object mutexes behave as
\* one lock per Mountpoint Pod UID: no caller enters a UID's critical
\* section while another is in it, the registry holds an entry exactly
\* for the UIDs with registered callers, and every waiting caller gets
\* the lock.
ImplementsMPPodLock == Abs!Spec
=============================================================================
