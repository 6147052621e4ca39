---------------------------- MODULE CSIController ----------------------------
(***************************************************************************)
(* The controller server's CreateVolume (cmd/aws-s3-csi-controller/       *)
(* csicontroller/controller.go) against the API server and the ACK S3     *)
(* controller:                                                             *)
(*   - it reads the StorageClass parameters and validates them;           *)
(*   - with createBucket it creates an ACK Bucket object and polls it     *)
(*     (waitForBucketCreation) until it is Synced, its sync fails, 5     *)
(*     minutes pass or the caller's context ends;                         *)
(*   - without createBucket it uses the bucket the definition names.      *)
(* The external provisioner calls CreateVolume once per volume and retries *)
(* it, with the same volume id, after every error.  DeleteVolume returns  *)
(* success and leaves the Bucket object and the bucket in place.          *)
(*                                                                         *)
(* The data is abstracted: the bucketDefinition parameter is a record of  *)
(* whether it is given, whether its YAML unmarshals, and the fields       *)
(* CreateVolume reads; every definition uses the default namespace.      *)
(***************************************************************************)
EXTENDS Naturals, Sequences

CONSTANTS
  Volumes,   \* volume ids (the PV names the provisioner generates), strings
  Classes,   \* StorageClass parameter sets, as records (see MC_CSIController)
  PVCOf      \* the namespace and name of each volume's claim

\* A StorageClass parameter is absent or a string; "true" is the only true.
Absent == "absent"

\* A boolean parameter: value == "true" when the key exists, else the
\* default.
ParamTrue(c, key, default) == IF c[key] = Absent THEN default ELSE c[key] = "true"

-----------------------------------------------------------------------------
(* MapToBucketObject and the checks of CreateVolume                        *)

ACKBucketAPIVersion == "s3.services.k8s.aws/v1alpha1"
ACKBucketKind == "Bucket"

\* MapToBucketObject: YAML that does not unmarshal, or an apiVersion or
\* kind other than the ACK Bucket's, is an error; empty ones are defaulted.
MapToBucketObjectFails(def) ==
  \/ ~def.unmarshals
  \/ def.apiVersion \notin {"", ACKBucketAPIVersion}
  \/ def.kind \notin {"", ACKBucketKind}

createBucket(c) == ParamTrue(c, "createBucket", TRUE)
uniqueBucketPerVolume(c) == ParamTrue(c, "uniqueBucketPerVolume", TRUE)
enablePVCPathIsolation(c) == ParamTrue(c, "enablePVCPathIsolation", FALSE)

\* bucketNamePrefix: "p" becomes "p-"; absent or empty adds nothing.
BucketPrefix(c) == IF c.bucketNamePrefix \in {Absent, ""} THEN ""
                   ELSE c.bucketNamePrefix \o "-"

\* Every error return of CreateVolume before the Create, in the order it
\* checks: the InvalidArgument ones, and the Internal one of SetNestedField
\* for a unique bucket when the definition's spec is not a map.
InvalidRequest(c) ==
  \/ /\ ~uniqueBucketPerVolume(c) /\ enablePVCPathIsolation(c)
     /\ ~c.hasPVCInfo
  \/ c.bucketDefinition.given \in {Absent, ""}
  \/ MapToBucketObjectFails(c.bucketDefinition)
  \/ /\ createBucket(c) /\ BucketPrefix(c) # ""
     /\ (c.bucketDefinition.name # "" \/ c.bucketDefinition.specName # "")
  \/ /\ createBucket(c) /\ uniqueBucketPerVolume(c)
     /\ ~c.bucketDefinition.specIsMap
  \/ /\ ~(createBucket(c) /\ uniqueBucketPerVolume(c))
     /\ c.bucketDefinition.name = ""

\* The bucket a valid request uses: prefix + volume id for a unique bucket
\* (SetName and spec.name), else the definition's metadata.name.
BucketName(c, v) ==
  IF createBucket(c) /\ uniqueBucketPerVolume(c) THEN BucketPrefix(c) \o v
  ELSE c.bucketDefinition.name

\* volContext[VolumePathPrefix]: "namespace/name/" of the claim for a
\* shared bucket with path isolation, else no prefix.
PathPrefix(c, v) ==
  IF ~uniqueBucketPerVolume(c) /\ enablePVCPathIsolation(c)
  THEN PVCOf[v].namespace \o "/" \o PVCOf[v].name \o "/" ELSE ""

\* The volume context of a successful response.
VolumeContext(c, v) == [bucket |-> BucketName(c, v), pathPrefix |-> PathPrefix(c, v)]

NoContext == [bucket |-> "", pathPrefix |-> ""]

\* The ACK Bucket objects CreateVolume may name.
Buckets == {BucketName(c, v) : c \in Classes, v \in Volumes} \ {""}

\* An ACK Bucket: not in the API server, created with no Synced condition
\* yet, ACK.ResourceSynced True, or False.
BucketStates == {"none", "pending", "synced", "failed"}

VARIABLES
  classOf,   \* the StorageClass of each volume's claim
  cpc,       \* each volume's CreateVolume call: idle, waiting, succeeded,
             \* failed; deleted once DeleteVolume returned
  crd,       \* each ACK Bucket object
  result     \* the volume context each successful call returned

vars == <<classOf, cpc, crd, result>>

-----------------------------------------------------------------------------
(* CreateVolume                                                            *)

\* CreateVolume up to the Create of the Bucket object: an invalid request
\* fails; without createBucket the named bucket is returned at once; with
\* it the Create fails if the object exists (AlreadyExists, which the code
\* does not tell apart) or for any other API error, or the object is
\* created and the call goes on to waitForBucketCreation.
CreateVolume(v) ==
  LET c == classOf[v]
      b == BucketName(c, v)
  IN
  /\ cpc[v] = "idle"
  /\ \/ /\ InvalidRequest(c)
        /\ cpc' = [cpc EXCEPT ![v] = "failed"]
        /\ UNCHANGED <<crd, result>>
     \/ /\ ~InvalidRequest(c) /\ ~createBucket(c)
        /\ cpc' = [cpc EXCEPT ![v] = "succeeded"]
        /\ result' = [result EXCEPT ![v] = VolumeContext(c, v)]
        /\ UNCHANGED crd
     \/ /\ ~InvalidRequest(c) /\ createBucket(c)
        /\ \/ crd[b] # "none"
           \/ crd[b] = "none"    \* another API error
        /\ cpc' = [cpc EXCEPT ![v] = "failed"]
        /\ UNCHANGED <<crd, result>>
     \/ /\ ~InvalidRequest(c) /\ createBucket(c)
        /\ crd[b] = "none"
        /\ crd' = [crd EXCEPT ![b] = "pending"]
        /\ cpc' = [cpc EXCEPT ![v] = "waiting"]
        /\ UNCHANGED result
  /\ UNCHANGED classOf

\* A tick of waitForBucketCreation whose Get sees ACK.ResourceSynced: True
\* returns the volume, False an error.  A failed Get, or no Synced
\* condition yet, continues the loop and changes nothing.
PollBucket(v) ==
  LET c == classOf[v] IN
  /\ cpc[v] = "waiting"
  /\ \/ /\ crd[BucketName(c, v)] = "synced"
        /\ cpc' = [cpc EXCEPT ![v] = "succeeded"]
        /\ result' = [result EXCEPT ![v] = VolumeContext(c, v)]
     \/ /\ crd[BucketName(c, v)] = "failed"
        /\ cpc' = [cpc EXCEPT ![v] = "failed"]
        /\ UNCHANGED result
  /\ UNCHANGED <<classOf, crd>>

\* Fault variant: the loop has no timeout case.
WaitTimeoutNever(v) == FALSE

\* The 5-minute timeout, or the provisioner's context ending first: an
\* error, with the Bucket object left in place.
WaitTimeout(v) ==
  /\ cpc[v] = "waiting"
  /\ cpc' = [cpc EXCEPT ![v] = "failed"]
  /\ UNCHANGED <<classOf, crd, result>>

-----------------------------------------------------------------------------
(* Environment                                                             *)

\* The external provisioner retries a failed CreateVolume with the same name.
Retry(v) ==
  /\ cpc[v] = "failed"
  /\ cpc' = [cpc EXCEPT ![v] = "idle"]
  /\ UNCHANGED <<classOf, crd, result>>

\* DeleteVolume, called by the provisioner once the PV of a provisioned
\* volume is released: it returns an empty response and deletes nothing.
DeleteVolume(v) ==
  /\ cpc[v] = "succeeded"
  /\ cpc' = [cpc EXCEPT ![v] = "deleted"]
  /\ UNCHANGED <<classOf, crd, result>>

\* The ACK controller creates the bucket in S3, or fails to.
AckSync(b) ==
  /\ crd[b] = "pending"
  /\ crd' \in {[crd EXCEPT ![b] = s] : s \in {"synced", "failed"}}
  /\ UNCHANGED <<classOf, cpc, result>>

-----------------------------------------------------------------------------

Init ==
  /\ classOf \in [Volumes -> Classes]
  /\ cpc = [v \in Volumes |-> "idle"]
  /\ crd = [b \in Buckets |-> "none"]
  /\ result = [v \in Volumes |-> NoContext]

Next ==
  \/ \E v \in Volumes :
       \/ CreateVolume(v) \/ PollBucket(v) \/ WaitTimeout(v) \/ Retry(v)
       \/ DeleteVolume(v)
  \/ \E b \in Buckets : AckSync(b)

\* The Go runtime runs the polling loop, and time.After fires after five
\* minutes unless the loop returned first.  Neither ACK nor the
\* provisioner's retries are forced.
Fairness ==
  \A v \in Volumes : WF_vars(PollBucket(v)) /\ WF_vars(WaitTimeout(v))

Spec == Init /\ [][Next]_vars /\ Fairness

-----------------------------------------------------------------------------
(* Properties                                                              *)

\* Two volumes provisioned on one bucket from StorageClasses that ask for
\* PVC path isolation get different path prefixes, so their claims never
\* see each other's objects.  The code applies the prefix only when
\* uniqueBucketPerVolume is "false"; the comment at controller.go:67 says
\* isolation is for shared buckets, and an existing bucket (createBucket
\* "false") is shared by every volume of its class.
IsolationRequestedHonoured ==
  \A v, w \in Volumes :
    /\ v # w
    /\ cpc[v] = "succeeded" /\ cpc[w] = "succeeded"
    /\ result[v].bucket = result[w].bucket
    /\ enablePVCPathIsolation(classOf[v]) /\ enablePVCPathIsolation(classOf[w])
    => result[v].pathPrefix # result[w].pathPrefix

\* Every CreateVolume call that waits for its bucket returns, whatever ACK
\* does.
CreateVolumeReturns ==
  \A v \in Volumes : cpc[v] = "waiting" ~> cpc[v] # "waiting"
=============================================================================
