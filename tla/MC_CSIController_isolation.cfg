\* The five StorageClasses and an existing bucket that asks for path
\* isolation with uniqueBucketPerVolume left at its default ("true"): two
\* of its volumes share the bucket with no prefix.
CONSTANTS
  Volumes <- MCVolumes
  Classes <- MCClassesIsolation
  PVCOf <- MCPVCOf

SPECIFICATION Spec
CHECK_DEADLOCK FALSE

INVARIANT IsolationRequestedHonoured
