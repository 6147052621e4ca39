\* Two targets on one Mountpoint Pod at a time; the source unmount never
\* fails, so only os.Remove and the credential cleanup can.
CONSTANTS
  t1 = t1
  t2 = t2
  t3 = t3
  None = None
  Targets <- MCTargets2
  MaxPods = 2
  SourceUnmountMayFail = FALSE

SPECIFICATION Spec

PROPERTY SourceDirectoryRemoved
