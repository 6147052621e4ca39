-------------------------- MODULE MC_CSIController --------------------------
(***************************************************************************)
(* Model-checking instance of CSIController: two volumes whose claims     *)
(* have the same name in two namespaces, and StorageClasses for each path *)
(* of CreateVolume: a bucket per volume with a prefix, a created shared   *)
(* bucket, an existing shared bucket (both with path isolation), a        *)
(* definition that breaks the prefix rule, and one whose spec is not a   *)
(* map.  MCClassesIsolation adds an existing bucket that asks for path    *)
(* isolation and leaves uniqueBucketPerVolume at its default.            *)
(***************************************************************************)
EXTENDS CSIController

MCVolumes == {"pvc-1", "pvc-2"}

MCPVCOf == [v \in MCVolumes |->
              [namespace |-> IF v = "pvc-1" THEN "ns1" ELSE "ns2", name |-> "data"]]

\* A bucketDefinition naming bucket n, or none.
Def(n) == [given |-> "yaml", unmarshals |-> TRUE, apiVersion |-> "",
           kind |-> ACKBucketKind, name |-> n, specName |-> "",
           specIsMap |-> TRUE]

\* A bucketDefinition whose spec is a scalar (spec: x).
DefScalarSpec == [Def("") EXCEPT !.specIsMap = FALSE]

Class(create, unique, isolation, prefix, def) ==
  [createBucket |-> create, uniqueBucketPerVolume |-> unique,
   enablePVCPathIsolation |-> isolation, bucketNamePrefix |-> prefix,
   hasPVCInfo |-> TRUE, bucketDefinition |-> def]

MCClasses ==
  { Class(Absent, Absent, Absent, "p", Def("")),           \* bucket per volume
    Class("true", "false", "true", Absent, Def("b")),      \* created, shared
    Class("false", "false", "true", Absent, Def("b")),     \* existing, shared
    Class(Absent, Absent, Absent, "p", Def("b")),          \* prefix and name
    Class(Absent, Absent, Absent, Absent, DefScalarSpec) } \* spec not a map

MCClassesIsolation ==
  MCClasses \cup {Class("false", Absent, "true", Absent, Def("b"))}
=============================================================================
