CONSTANTS
  w1 = w1
  w2 = w2
  None = None
  Workloads <- MCWorkloads1
  MaxMpPods = 3
  Workers = 1
  MpPodMayFail = TRUE
  CreateMayTimeOut = FALSE

SPECIFICATION FairSpec

\* The controller is quiescent once every workload pod is gone.
CHECK_DEADLOCK FALSE

PROPERTY WorkloadEventuallyMounted
