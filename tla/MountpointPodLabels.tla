------------------------- MODULE MountpointPodLabels -------------------------
(***************************************************************************)
(* The label protocol by which three components agree on a Mountpoint Pod, *)
(* as pure operators over bounded inputs:                                  *)
(*   - Creator.Create writes the pod's labels (pkg/podmounter/mppod/       *)
(*     creator.go);                                                        *)
(*   - the reconciler lists with a label selector and keys its            *)
(*     expectations by deriveKeyFromFilters (cmd/aws-s3-csi-controller/    *)
(*     csicontroller/reconciler.go);                                       *)
(*   - the node's Watcher.Wait lists with its own selector and filters     *)
(*     events with isAssignedMpPod (pkg/podmounter/mppod/watcher/          *)
(*     watcher.go).                                                        *)
(* A request is one workload pod on one node using one PersistentVolume.  *)
(* Its node-side credential context is built by the credential provider,  *)
(* which is not under src/, from the same volume attributes and pod.       *)
(***************************************************************************)
EXTENDS Naturals, Sequences, SequencesExt, FiniteSets

CONSTANTS
  Nodes, Namespaces, ServiceAccounts, VolumeNames,
  FSGroups,     \* fsGroup values of workload pods (naturals)
  NoFSGroup     \* SecurityContext.FSGroup == nil

\* credentialprovider.AuthenticationSource{Unspecified,Driver,Pod}.
AuthenticationSourceUnspecified == ""
AuthenticationSourceDriver == "driver"
AuthenticationSourcePod == "pod"

\* mppod.Label* keys; the volume-context key of the authentication source.
LabelMountpointVersion == "s3.csi.aws.com/mountpoint-version"
LabelCSIDriverVersion == "s3.csi.aws.com/mounted-by-csi-driver-version"
LabelVolumeName == "s3.csi.aws.com/volume-name"
LabelAuthenticationSource == "s3.csi.aws.com/authentication-source"
LabelWorkloadPodFSGroup == "s3.csi.aws.com/workload-pod-fsgroup"
LabelWorkloadPodNamespace == "s3.csi.aws.com/workload-pod-namespace"
LabelWorkloadPodServiceAccountName ==
  "s3.csi.aws.com/workload-pod-service-account-name"
AuthenticationSource == "authenticationSource"

\* The selector keys in the byte order sort.Strings puts them in.
SortedKeys == <<LabelAuthenticationSource, LabelVolumeName,
                LabelWorkloadPodFSGroup, LabelWorkloadPodNamespace,
                LabelWorkloadPodServiceAccountName>>

\* A PV: no CSI source, a CSI source with nil VolumeAttributes, or one
\* with an attribute map (with or without an authenticationSource entry).
AttrMaps == {[k \in {} |-> ""]} \cup
            {AuthenticationSource :> a : a \in {"", "driver", "pod"}}
PVs == [name : VolumeNames, csi : {"nil", "nilAttributes"}, attrs : {[k \in {} |-> ""]}]
       \cup [name : VolumeNames, csi : {"attributes"}, attrs : AttrMaps]

Requests == [node : Nodes, namespace : Namespaces, sa : ServiceAccounts,
             fsGroup : FSGroups \cup {NoFSGroup}, pv : PVs]

-----------------------------------------------------------------------------
(* Conversions                                                             *)

Digit == <<"0", "1", "2", "3", "4", "5", "6", "7", "8", "9">>

\* strconv.FormatInt(n, 10) for n >= 0.
RECURSIVE FormatInt(_)
FormatInt(n) ==
  IF n < 10 THEN Digit[n + 1] ELSE FormatInt(n \div 10) \o Digit[(n % 10) + 1]

\* fsGroup as the controller writes it: "" when unset.
fsGroupString(r) == IF r.fsGroup = NoFSGroup THEN "" ELSE FormatInt(r.fsGroup)

\* ExtractVolumeAttributes: an empty map for a nil CSI source or nil map.
ExtractVolumeAttributes(pv) ==
  IF pv.csi \in {"nil", "nilAttributes"} THEN [k \in {} |-> ""] ELSE pv.attrs

\* volumeAttributes[key], "" for a missing key (Go map semantics).
Lookup(m, k) == IF k \in DOMAIN m THEN m[k] ELSE ""

\* The authentication source with the "driver" fallback of the controller.
resolvedAuthSource(r) ==
  LET a == Lookup(ExtractVolumeAttributes(r.pv), AuthenticationSource)
  IN IF a = "" THEN AuthenticationSourceDriver ELSE a

-----------------------------------------------------------------------------
(* Creator.Create                                                          *)

\* Fault variant: the fsGroup label left out when the pod has no fsGroup.
CreatorLabelsOmitEmptyFSGroup(r) ==
  LET base == (LabelMountpointVersion :> "mp") @@ (LabelCSIDriverVersion :> "csi")
              @@ (LabelVolumeName :> r.pv.name)
              @@ (LabelAuthenticationSource :> resolvedAuthSource(r))
      fs == IF r.fsGroup = NoFSGroup THEN [k \in {} |-> ""]
            ELSE LabelWorkloadPodFSGroup :> fsGroupString(r)
      pod == (LabelWorkloadPodNamespace :> r.namespace)
             @@ (LabelWorkloadPodServiceAccountName :> r.sa)
  IN IF resolvedAuthSource(r) = AuthenticationSourcePod
     THEN base @@ fs @@ pod ELSE base @@ fs

\* The labels of the spawned Mountpoint Pod; pod-scoped identities add the
\* workload's namespace and service account.
CreatorLabels(r) ==
  LET base == (LabelMountpointVersion :> "mp") @@ (LabelCSIDriverVersion :> "csi")
              @@ (LabelVolumeName :> r.pv.name)
              @@ (LabelAuthenticationSource :> resolvedAuthSource(r))
              @@ (LabelWorkloadPodFSGroup :> fsGroupString(r))
      pod == (LabelWorkloadPodNamespace :> r.namespace)
             @@ (LabelWorkloadPodServiceAccountName :> r.sa)
  IN IF resolvedAuthSource(r) = AuthenticationSourcePod THEN base @@ pod ELSE base

\* The pod Create returns: its labels and the node its affinity pins it to.
Create(r) == [labels |-> CreatorLabels(r), node |-> r.node]

-----------------------------------------------------------------------------
(* The reconciler                                                          *)

\* labelFilters of spawnOrDeleteMountpointPodIfNeeded.
ReconcilerSelector(r) ==
  LET base == (LabelVolumeName :> r.pv.name)
              @@ (LabelAuthenticationSource :> resolvedAuthSource(r))
              @@ (LabelWorkloadPodFSGroup :> fsGroupString(r))
  IN IF resolvedAuthSource(r) = "pod"
     THEN base @@ (LabelWorkloadPodNamespace :> r.namespace)
               @@ (LabelWorkloadPodServiceAccountName :> r.sa)
     ELSE base

\* client.MatchingLabels (and labels.Set.AsSelector): every key present
\* with an equal value; a missing label does not match "".
MatchingLabels(sel, labels) ==
  \A k \in DOMAIN sel : k \in DOMAIN labels /\ labels[k] = sel[k]

\* The orders in which `for k := range labelFilters` may visit the keys:
\* Go leaves map iteration order unspecified.
RangeOrders(f) == SetToSeqs(DOMAIN f)

\* Fault variant: the keys concatenated in range order, without sort.Strings.
deriveKeyFromFiltersUnsorted(f, node, order) ==
  node \o FoldLeft(LAMBDA acc, k : acc \o k \o "=" \o f[k] \o ";", "", order)

\* deriveKeyFromFilters: the node name, then key=value; for each key in
\* sorted order.
deriveKeyFromFilters(f, node, order) ==
  LET sorted == SelectSeq(SortedKeys, LAMBDA k : k \in Range(order))
  IN node \o FoldLeft(LAMBDA acc, k : acc \o k \o "=" \o f[k] \o ";", "", sorted)

ExpectKeys(r) ==
  {deriveKeyFromFilters(ReconcilerSelector(r), r.node, o) :
     o \in RangeOrders(ReconcilerSelector(r))}

-----------------------------------------------------------------------------
(* The node: Watcher.Wait                                                  *)

\* The credentialprovider.ProvideContext the node builds for the request
\* (modelled from the spec: raw attribute, "" meaning unspecified).
CredentialCtx(r) ==
  [AuthenticationSource |->
     Lookup(ExtractVolumeAttributes(r.pv), AuthenticationSource),
   FSGroup |-> fsGroupString(r), PodNamespace |-> r.namespace,
   ServiceAccountName |-> r.sa]

\* The labelSelector of Wait's lister.List, filtered to this node.
WatcherSelector(volumeName, ctx) ==
  IF ctx.AuthenticationSource = AuthenticationSourcePod
  THEN (LabelVolumeName :> volumeName)
       @@ (LabelAuthenticationSource :> AuthenticationSourcePod)
       @@ (LabelWorkloadPodFSGroup :> ctx.FSGroup)
       @@ (LabelWorkloadPodNamespace :> ctx.PodNamespace)
       @@ (LabelWorkloadPodServiceAccountName :> ctx.ServiceAccountName)
  ELSE (LabelVolumeName :> volumeName)
       @@ (LabelAuthenticationSource :> AuthenticationSourceDriver)
       @@ (LabelWorkloadPodFSGroup :> ctx.FSGroup)

WatcherLists(pod, volumeName, ctx, node) ==
  MatchingLabels(WatcherSelector(volumeName, ctx), pod.labels)
  /\ pod.node = node

\* isAssignedMpPod: the node, then exact label equality, a missing label
\* reading as "".
isAssignedMpPod(pod, volumeName, ctx, node) ==
  LET L(k) == Lookup(pod.labels, k) IN
  /\ pod.node = node
  /\ CASE ctx.AuthenticationSource \in {AuthenticationSourceUnspecified,
                                         AuthenticationSourceDriver} ->
            /\ L(LabelVolumeName) = volumeName
            /\ L(LabelWorkloadPodFSGroup) = ctx.FSGroup
            /\ L(LabelAuthenticationSource) = AuthenticationSourceDriver
       [] ctx.AuthenticationSource = AuthenticationSourcePod ->
            /\ L(LabelVolumeName) = volumeName
            /\ L(LabelWorkloadPodFSGroup) = ctx.FSGroup
            /\ L(LabelAuthenticationSource) = ctx.AuthenticationSource
            /\ L(LabelWorkloadPodNamespace) = ctx.PodNamespace
            /\ L(LabelWorkloadPodServiceAccountName) = ctx.ServiceAccountName
       [] OTHER -> FALSE

\* Whether the node side of request r recognises pod: by its List or by a
\* watch event.
NodeFinds(pod, r) ==
  LET ctx == CredentialCtx(r) IN
  /\ WatcherLists(pod, r.pv.name, ctx, r.node)
  /\ isAssignedMpPod(pod, r.pv.name, ctx, r.node)

-----------------------------------------------------------------------------
(* One request at a time; properties relate it to every other request.    *)

VARIABLE r

Init == r \in Requests

Next == r' \in Requests

Spec == Init /\ [][Next]_r

-----------------------------------------------------------------------------
(* Properties                                                              *)

\* The identity a Mountpoint Pod serves: volume, resolved authentication
\* source, fsGroup and, for pod-scoped identities, namespace and service
\* account, on one node.
Identity(q) ==
  [node |-> q.node, vol |-> q.pv.name, auth |-> resolvedAuthSource(q),
   fsGroup |-> fsGroupString(q),
   ns |-> IF resolvedAuthSource(q) = "pod" THEN q.namespace ELSE "",
   sa |-> IF resolvedAuthSource(q) = "pod" THEN q.sa ELSE ""]

\* The pod the reconciler creates for a request is the one that request's
\* reconciles list and the one its node's Watcher finds, by List and by
\* event, and it serves another request exactly when their identities are
\* the same: no workload waits on a pod nobody finds, and no pod-scoped
\* credentials are shared across service accounts or namespaces.
LabelsAgree ==
  \A q \in Requests :
    LET pod == Create(q) IN
    /\ (MatchingLabels(ReconcilerSelector(r), pod.labels) /\ pod.node = r.node)
         <=> Identity(r) = Identity(q)
    /\ NodeFinds(pod, r) <=> Identity(r) = Identity(q)

\* The expectation key is a function of the selector and node: whatever
\* order Go's map iteration visits the keys in, one key results; and
\* requests with different identities never share a key, so one
\* selector's pending expectation never blocks another's spawn.
ExpectKeyFaithful ==
  LET key(q) == deriveKeyFromFilters(ReconcilerSelector(q), q.node,
                                     SetToSeq(DOMAIN ReconcilerSelector(q)))
  IN /\ Cardinality(ExpectKeys(r)) = 1
     /\ \A q \in Requests : key(r) = key(q) <=> Identity(r) = Identity(q)
=============================================================================
