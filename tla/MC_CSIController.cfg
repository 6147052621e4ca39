\* Two volumes, each with any of the five StorageClasses.
CONSTANTS
  Volumes <- MCVolumes
  Classes <- MCClasses
  PVCOf <- MCPVCOf

SPECIFICATION Spec

\* Provisioning stops once every volume is provisioned: no deadlock check.
CHECK_DEADLOCK FALSE

PROPERTY CreateVolumeReturns
