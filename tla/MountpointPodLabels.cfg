\* Two nodes, namespaces, service accounts and volumes, so that every
\* component of an identity can differ; fsGroup unset, 0 and a two-digit one.
CONSTANTS
  Nodes = {"a", "b"}
  Namespaces = {"ns1", "ns2"}
  ServiceAccounts = {"sa1", "sa2"}
  VolumeNames = {"pv1", "pv2"}
  FSGroups = {0, 10}
  NoFSGroup = NoFSGroup

SPECIFICATION Spec

INVARIANT LabelsAgree
INVARIANT ExpectKeyFaithful
