\* One worker, as deployed, and one workload pod: its own Creates that time
\* out after persisting the pod give duplicate Mountpoint Pods, so the "more
\* than one" branch of the list is taken; three Mountpoint Pod objects allow
\* a first pod, a duplicate and a replacement after one exits.
CONSTANTS
  w1 = w1
  w2 = w2
  None = None
  Workloads <- MCWorkloads1
  MaxMpPods = 3
  Workers = 1
  MpPodMayFail = FALSE
  CreateMayTimeOut = TRUE

SPECIFICATION FairSpec

\* The controller is quiescent once every workload pod is gone.
CHECK_DEADLOCK FALSE

PROPERTY SucceededMountpointPodDeleted
