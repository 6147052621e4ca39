CONSTANTS
  t1 = t1
  t2 = t2
  t3 = t3
  None = None
  Targets <- MCTargets
  MaxPods = 2
  SourceUnmountMayFail = TRUE

SPECIFICATION Spec
SYMMETRY TargetSymmetry

INVARIANT BoundTargetServed
