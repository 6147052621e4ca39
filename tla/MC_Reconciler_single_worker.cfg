CONSTANTS
  w1 = w1
  w2 = w2
  None = None
  Workloads <- MCWorkloads
  MaxMpPods = 3
  Workers = 1
  MpPodMayFail = TRUE
  CreateMayTimeOut = FALSE

SPECIFICATION Spec
SYMMETRY WorkloadSymmetry

\* The controller is quiescent once every workload pod is gone.
CHECK_DEADLOCK FALSE

INVARIANT TypeOK
INVARIANT AtMostOneMountpointPod
INVARIANT MountedMountpointPodRunning
