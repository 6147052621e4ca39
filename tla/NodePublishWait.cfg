\* Two Update notifications besides the phase changes: enough for a second
\* ready notification after the first, both before and after the List.
\* Two NodePublish calls reach mountSource: a failed one and its retry.
CONSTANTS
  MaxUpdates = 2
  MaxAttempts = 2

SPECIFICATION Spec

\* Wait returns, the mount succeeds or the retries run out, and the pod's
\* lifecycle ends: the system stops.
CHECK_DEADLOCK FALSE

PROPERTY WaitSeesRunningPod
PROPERTY WaitForMountReturns
