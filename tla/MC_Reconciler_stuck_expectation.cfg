\* One worker, as deployed; no Mountpoint Pod fails and no Create times out,
\* so nothing but the expectation set can keep a workload pod unmounted.
CONSTANTS
  w1 = w1
  w2 = w2
  None = None
  Workloads <- MCWorkloads
  MaxMpPods = 2
  Workers = 1
  MpPodMayFail = FALSE
  CreateMayTimeOut = FALSE

SPECIFICATION FairSpec

\* The controller is quiescent once every workload pod is gone.
CHECK_DEADLOCK FALSE

PROPERTY WorkloadEventuallyMounted
