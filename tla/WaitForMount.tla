---------------------------- MODULE WaitForMount ----------------------------
(***************************************************************************)
(* PodMounter.waitForMount (pkg/driver/node/mounter/pod_mounter.go):       *)
(*   - two goroutines poll under a cancellable child context, one for the *)
(*     mount.error file and one for IsMountPoint(source);                 *)
(*   - each sends its outcome on the unbuffered mountResultCh;            *)
(*   - the caller receives once and returns, and the deferred cancel()    *)
(*     ends the polling.                                                   *)
(* The caller's context carries NodePublish's deadline.  Mountpoint either *)
(* mounts the source or writes mount.error.                               *)
(***************************************************************************)
EXTENDS Naturals, FiniteSets

CONSTANTS
  MaxAttempts   \* NodePublish calls that reach mountSource for the volume

ASSUME MaxAttempts \in Nat \ {0}

Attempts == 1..MaxAttempts
Kinds == {"errorPoller", "mountPoller"}
\* The two poller goroutines each waitForMount call starts.
Pollers == Attempts \X Kinds

\* What a poller sends: the mount.error contents, nil, an IsMountPoint
\* error, or the context's error; a call also fails in mountoptions.Send.
Outcomes == {"none", "mountError", "ok", "checkError", "ctxError", "sendError",
             "syscallError"}

VARIABLES
  attempt,        \* the latest mountSource call
  apc,            \* where that call is
  gpc,            \* each poller goroutine
  sent,           \* the value each poller is sending
  cancelled,      \* each call's child context is done
  result,         \* what each call returned
  mp,             \* Mountpoint for the latest options: idle, starting, serving, failed
  errFile,        \* mount.error exists
  sourceMounted   \* the FUSE mount at source exists

vars == <<attempt, apc, gpc, sent, cancelled, result, mp, errFile,
          sourceMounted>>

Send(p, v) ==
  /\ gpc' = [gpc EXCEPT ![p] = "sending"]
  /\ sent' = [sent EXCEPT ![p] = v]

Polling(p) ==
  /\ gpc[p] = "polling"
  /\ UNCHANGED <<attempt, apc, cancelled, result, mp, errFile, sourceMounted>>

-----------------------------------------------------------------------------
(* mountSource, from the FUSE mount on                                     *)

\* A retry reaches mountSource only when IsMountPoint(source) is false.
\* The mount syscall may fail, and the call returns with nothing to undo.
\* Otherwise the FUSE mount is made and the old mount.error removed.  A
\* Mountpoint still starting for an earlier call's options is left as it
\* is, and may yet write mount.error after the removal.
MountSource ==
  /\ apc = "returned"
  /\ \A a \in 1..attempt : result[a] # "ok"
  /\ attempt < MaxAttempts
  /\ ~sourceMounted
  /\ attempt' = attempt + 1
  /\ \/ /\ result' = [result EXCEPT ![attempt + 1] = "syscallError"]
        /\ UNCHANGED <<apc, errFile, sourceMounted>>
     \/ /\ apc' = "sendOptions"
        /\ sourceMounted' = TRUE
        /\ errFile' = FALSE
        /\ UNCHANGED result
  /\ UNCHANGED <<gpc, sent, cancelled, mp>>

\* The deferred unmountTarget(source) of a failed call: closeFUSEDevFD runs
\* first, then the unmount, whose error is only logged, so the FUSE mount
\* may be left behind.
DeferredUnmount == sourceMounted' \in BOOLEAN

\* mountoptions.Send: on failure the deferred unmountTarget(source) runs;
\* on success waitForMount starts its two pollers.
SendOptions ==
  /\ apc = "sendOptions"
  /\ \/ /\ mp' = "starting"
        /\ apc' = "waiting"
        /\ gpc' = [p \in Pollers |-> IF p[1] = attempt THEN "polling" ELSE gpc[p]]
        /\ UNCHANGED <<result, sourceMounted>>
     \/ /\ result' = [result EXCEPT ![attempt] = "sendError"]
        /\ apc' = "returned"
        /\ DeferredUnmount
        /\ UNCHANGED <<gpc, mp>>
  /\ UNCHANGED <<attempt, sent, cancelled, errFile>>

\* The mount.error poller: a poll that reads the file sends its contents;
\* once the context is done PollUntilContextCancel returns and the
\* goroutine ends without sending.
ErrorPoll(p) ==
  /\ p[2] = "errorPoller"
  /\ Polling(p)
  /\ \/ /\ ~cancelled[p[1]]
        /\ errFile
        /\ Send(p, "mountError")
     \/ /\ cancelled[p[1]]
        /\ gpc' = [gpc EXCEPT ![p] = "exited"]
        /\ UNCHANGED sent

\* Fault variant: the IsMountPoint poller returns without sending when
\* polling ends with an error.
MountPollSilentOnError(p) ==
  /\ p[2] = "mountPoller"
  /\ Polling(p)
  /\ \/ /\ ~cancelled[p[1]]
        /\ mp = "serving"
        /\ Send(p, "ok")
     \/ /\ gpc' = [gpc EXCEPT ![p] = "exited"]
        /\ UNCHANGED sent

\* The IsMountPoint poller: a served mount point sends nil; an IsMountPoint
\* error, or the context being done, ends PollUntilContextCancel with an
\* error, which is sent too.
MountPoll(p) ==
  /\ p[2] = "mountPoller"
  /\ Polling(p)
  /\ \/ /\ ~cancelled[p[1]]
        /\ mp = "serving"
        /\ Send(p, "ok")
     \/ /\ ~cancelled[p[1]]
        /\ Send(p, "checkError")
     \/ /\ cancelled[p[1]]
        /\ Send(p, "ctxError")

\* err := <-mountResultCh pairs with one sender of this call; waitForMount
\* returns it and its deferred cancel() runs; on an error mountSource's
\* deferred unmountTarget(source) runs.
Receive ==
  /\ apc = "waiting"
  /\ \E k \in Kinds :
       LET p == <<attempt, k>> IN
       /\ gpc[p] = "sending"
       /\ gpc' = [gpc EXCEPT ![p] = "exited"]
       /\ result' = [result EXCEPT ![attempt] = sent[p]]
       /\ IF sent[p] = "ok" THEN UNCHANGED sourceMounted ELSE DeferredUnmount
  /\ apc' = "returned"
  /\ cancelled' = [cancelled EXCEPT ![attempt] = TRUE]
  /\ UNCHANGED <<attempt, sent, mp, errFile>>

-----------------------------------------------------------------------------
(* Environment                                                             *)

\* NodePublish's deadline passes for the waiting call.
Deadline ==
  /\ apc = "waiting"
  /\ ~cancelled[attempt]
  /\ cancelled' = [cancelled EXCEPT ![attempt] = TRUE]
  /\ UNCHANGED <<attempt, apc, gpc, sent, result, mp, errFile, sourceMounted>>

\* Mountpoint starts serving the source, or fails and writes mount.error.
MountpointMounts ==
  /\ mp = "starting"
  /\ mp' = "serving"
  /\ UNCHANGED <<attempt, apc, gpc, sent, cancelled, result, errFile,
                 sourceMounted>>

MountpointFails ==
  /\ mp = "starting"
  /\ mp' = "failed"
  /\ errFile' = TRUE
  /\ UNCHANGED <<attempt, apc, gpc, sent, cancelled, result, sourceMounted>>

-----------------------------------------------------------------------------

Init ==
  /\ attempt = 0
  /\ apc = "returned"
  /\ gpc = [p \in Pollers |-> "notStarted"]
  /\ sent = [p \in Pollers |-> "none"]
  /\ cancelled = [a \in Attempts |-> FALSE]
  /\ result = [a \in Attempts |-> "none"]
  /\ mp = "idle"
  /\ errFile = FALSE
  /\ sourceMounted = FALSE

Next ==
  \/ MountSource \/ SendOptions \/ Receive
  \/ \E p \in Pollers : ErrorPoll(p) \/ MountPoll(p)
  \/ Deadline \/ MountpointMounts \/ MountpointFails

\* The Go scheduler runs every runnable goroutine, and the caller's
\* context has a deadline, which eventually passes unless it is cancelled
\* first.  Neither Mountpoint nor kubelet's retries are forced.
Fairness ==
  /\ \A p \in Pollers : WF_vars(ErrorPoll(p)) /\ WF_vars(MountPoll(p))
  /\ WF_vars(SendOptions)
  /\ WF_vars(Receive)
  /\ WF_vars(Deadline)

Spec == Init /\ [][Next]_vars /\ Fairness

-----------------------------------------------------------------------------
(* Properties                                                              *)

\* waitForMount always returns: whatever Mountpoint does, the deadline
\* included, some poller of the call sends and the caller receives it.
WaitForMountReturns == apc = "waiting" ~> apc = "returned"

\* Once its call has returned, every poller goroutine ends: none is left
\* blocked on a mountResultCh that nobody receives from any more.
PollersExit ==
  \A p \in Pollers : cancelled[p[1]] ~> gpc[p] \in {"exited"}
=============================================================================
