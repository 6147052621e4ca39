CONSTANTS
  t1 = t1
  t2 = t2
  t3 = t3
  None = None
  Targets <- MCTargets2
  MaxPods = 1
  SourceUnmountMayFail = TRUE

SPECIFICATION Spec

PROPERTY OperationsComplete
PROPERTY ImplementsMPPodLock
