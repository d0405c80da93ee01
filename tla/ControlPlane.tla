----------------------------- MODULE ControlPlane -----------------------------
(***************************************************************************)
(* The control plane controller of one shoot: the generic actuator applies *)
(* the charts of the cloud controller manager (CCM) and of the CSI driver  *)
(* with values computed by the vSphere values provider. The cloud profile, *)
(* the shoot, its credentials and the tags of the IP pools change between  *)
(* any two steps, and a reconciliation can fail at each.                   *)
(*                                                                         *)
(* A process reads its configuration when its pod starts. What makes a pod *)
(* start again are the annotations of its template: the checksums of the   *)
(* secrets with credentials and configuration.                             *)
(***************************************************************************)
EXTENDS LoadBalancerClasses, PoolTags

CONSTANTS
  ProfileClasses,   \* the lists of classes that the cloud profile can have
  ShootConfigs,     \* the control plane configs a shoot can ask for
  MaxChanges,       \* bound on the changes by operators and users
  MaxFailures,      \* bound on the reconciliations that fail
  None

ASSUME ProfilesAssumption == ProfileClasses \subseteq Seq(Class)
ASSUME ConfigsAssumption ==
  \A c \in ShootConfigs : DOMAIN c = {"classes", "size"} /\ c.classes \in Seq(Class)
\* None is neither the contents of the CSI secret nor the annotations of a pod.
ASSUME NoneAssumption ==
  LET secrets == [settings : Nat, credentials : Nat]
  IN  None \notin secrets \union [credentials : Nat, config : secrets \union {None}]
ASSUME BoundsAssumption == MaxChanges \in Nat /\ MaxFailures \in Nat

VARIABLES
  profile,      \* the cloud profile: classes, and settings of the region
  config,       \* the shoot's control plane config
  credentials,  \* version of the secret cloudprovider
  tags,         \* the tags of the IP pools in NSX-T
  changes,      \* number of changes so far
  allowed,      \* history: pools ever shared or in the cloud profile
  pc,           \* next step of the reconciliation
  seen,         \* the profile and config it works with, of the Cluster resource
  sums,         \* the checksum of the credentials it has taken
  failures,     \* number of failed reconciliations so far
  ok, steady,   \* the last one succeeded; nothing has changed since it began
  configMap,    \* ConfigMap cloud-provider-config
  csiSecret,    \* Secret csi-vsphere-config in the seed
  ccm, csi,     \* Deployments: annotations, and what the pod has read
  node          \* the configuration of the CSI node driver

envVars == <<profile, config, credentials, tags, changes, allowed>>
deployed == <<configMap, csiSecret, ccm, csi, node>>
vars == <<envVars, pc, seen, sums, failures, ok, steady, deployed>>

Pools(classes) == {c.pool : c \in ToSet(classes)} \ {Unset}

\* The pools whose tags, as NSX-T returns them, authorize this shoot.
GetIPPoolTags(pool) == TagsToMap(tags[pool])

Authorized == {p \in Pool : CheckShootAuthorizationByTags(GetIPPoolTags(p))}

Shared == {p \in Pool : Shares(tags[p])}

\* What the two processes are configured with.
CSIConf(p, creds) == [settings |-> p.settings, credentials |-> creds]

CCMConf(p, c, creds) ==
  LET lb == Overwrite(p.classes, c.classes)
  IN  [settings |-> p.settings, credentials |-> creds, size |-> c.size,
       default |-> lb.default, classes |-> lb.classes]

NotDeployed == [annotations |-> None, reads |-> None]

TypeOK ==
  /\ profile \in [classes : ProfileClasses, settings : Nat]
  /\ config \in ShootConfigs /\ credentials \in Nat /\ changes \in 0..MaxChanges
  /\ tags \in [Pool -> TagLists] /\ allowed \subseteq Pool
  /\ pc \in {"idle", "config", "checksums", "chart", "shoot"}
  /\ sums \in Nat \union {None} /\ failures \in 0..MaxFailures
  /\ ok \in BOOLEAN /\ steady \in BOOLEAN
  /\ DOMAIN ccm = {"annotations", "reads"} /\ DOMAIN csi = {"annotations", "reads"}

Init ==
  /\ \E classes \in ProfileClasses : profile = [classes |-> classes, settings |-> 0]
  /\ config \in {c \in ShootConfigs : AcceptCreate(profile.classes, c)}
  /\ credentials = 0 /\ changes = 0
  /\ tags \in [Pool -> TagLists]
  /\ allowed = Shared \union Pools(profile.classes)
  /\ pc = "idle" /\ seen = None /\ sums = None /\ failures = 0
  /\ ok = FALSE /\ steady = FALSE
  /\ configMap = None /\ csiSecret = None /\ node = None
  /\ ccm = NotDeployed /\ csi = NotDeployed

-----------------------------------------------------------------------------
\* Operators and users.

Changed ==
  /\ changes < MaxChanges
  /\ changes' = changes + 1
  /\ steady' = FALSE
  /\ allowed' = allowed \union Shared' \union Pools(profile'.classes)
  /\ UNCHANGED <<pc, seen, sums, failures, ok, deployed>>

ChangeProfile ==
  /\ \/ \E classes \in ProfileClasses \ {profile.classes} :
          profile' = [profile EXCEPT !.classes = classes]
     \/ profile' = [profile EXCEPT !.settings = @ + 1]
  /\ UNCHANGED <<config, credentials, tags>>
  /\ Changed

UpdateShoot ==
  /\ \E new \in ShootConfigs \ {config} :
       AcceptUpdate(profile.classes, config, new) /\ config' = new
  /\ UNCHANGED <<profile, credentials, tags>>
  /\ Changed

Rotate ==
  /\ credentials' = credentials + 1
  /\ UNCHANGED <<profile, config, tags>>
  /\ Changed

Retag ==
  /\ \E p \in Pool, list \in TagLists : list # tags[p] /\ tags' = [tags EXCEPT ![p] = list]
  /\ UNCHANGED <<profile, config, credentials>>
  /\ Changed

-----------------------------------------------------------------------------
\* A reconciliation. Each step reads, computes and writes; nothing else
\* writes the objects it writes, so a step can be atomic.

Start ==
  /\ pc = "idle"
  /\ pc' = "config"
  /\ seen' = [profile |-> profile, config |-> config]
  /\ ok' = FALSE /\ steady' = TRUE
  /\ UNCHANGED <<envVars, sums, failures, deployed>>

\* The check of every pool that the shoot names itself.
\* Mutant: only the default class is checked.
IsAuthorized_Default(constraints, classes) ==
  Overwrite(constraints, classes).default.pool \in Authorized \union Pools(constraints)

IsAuthorized(constraints, classes) == Overwritten(classes) \subseteq Authorized

Renders ==
  LET constraints == seen.profile.classes
      classes     == seen.config.classes
  IN  Overwrite(constraints, classes).ok /\ IsAuthorized(constraints, classes)

ApplyConfigChart ==
  /\ pc = "config" /\ Renders
  /\ configMap' = CCMConf(seen.profile, seen.config, credentials)
  /\ pc' = "checksums"
  /\ UNCHANGED <<envVars, seen, sums, failures, ok, steady, csiSecret, ccm, csi, node>>

ComputeChecksums ==
  /\ pc = "checksums"
  /\ sums' = credentials
  /\ pc' = "chart"
  /\ UNCHANGED <<envVars, seen, failures, ok, steady, deployed>>

\* The Secret cloud-provider-config whose checksum the CCM is annotated with:
\* the configuration chart creates a ConfigMap of that name, nothing a Secret.
CloudProviderSecret == None

\* Mutant: the pods are not annotated with the checksum of the credentials.
Annotations_NoCredentials(secret) == [credentials |-> None, config |-> secret]

\* Mutant: the checksum of the configuration is never found.
Annotations_NoConfig(secret) == [credentials |-> sums, config |-> None]

Annotations(secret) == [credentials |-> sums, config |-> secret]

\* Mutant: the template of the pods has no annotations.
Deploy_Unannotated(deployment, annotations, current) == [reads |-> current]

\* A deployment is rolled when its template changes: the pod reads anew.
Deploy(deployment, annotations, current) ==
  IF deployment.annotations = annotations THEN deployment
  ELSE [annotations |-> annotations, reads |-> current]

\* The checksum of the CSI secret is taken before the chart writes it.
ApplyControlPlaneChart ==
  /\ pc = "chart"
  /\ csiSecret' = CSIConf(seen.profile, credentials)
  /\ ccm' = Deploy(ccm, Annotations(CloudProviderSecret), configMap)
  /\ csi' = Deploy(csi, Annotations(csiSecret), csiSecret')
  /\ pc' = "shoot"
  /\ UNCHANGED <<envVars, seen, sums, failures, ok, steady, configMap, node>>

\* The daemon set in the shoot is annotated by its own chart.
ApplyShootChart ==
  /\ pc = "shoot"
  /\ node' = CSIConf(seen.profile, credentials)
  /\ ok' = TRUE
  /\ pc' = "idle"
  /\ UNCHANGED <<envVars, seen, sums, failures, steady, configMap, csiSecret, ccm, csi>>

\* The chart's secrets are written before its deployments, and writing a
\* deployment fails.
FailInControlPlaneChart ==
  /\ pc = "chart" /\ failures < MaxFailures
  /\ csiSecret' = CSIConf(seen.profile, credentials)
  /\ ccm' \in {ccm, Deploy(ccm, Annotations(CloudProviderSecret), configMap)}
  /\ failures' = failures + 1
  /\ pc' = "idle"
  /\ UNCHANGED <<envVars, seen, sums, ok, steady, configMap, csi, node>>

\* The values cannot be computed.
Reject ==
  /\ pc = "config" /\ ~Renders
  /\ pc' = "idle"
  /\ UNCHANGED <<envVars, seen, sums, failures, ok, steady, deployed>>

\* A call fails, or the controller is restarted.
Fail ==
  /\ pc # "idle" /\ failures < MaxFailures
  /\ failures' = failures + 1
  /\ pc' = "idle"
  /\ UNCHANGED <<envVars, seen, sums, ok, steady, deployed>>

\* A pod is started again for a reason of its own.
RestartCCM ==
  /\ ccm # NotDeployed
  /\ ccm' = [ccm EXCEPT !.reads = configMap]
  /\ UNCHANGED <<envVars, pc, seen, sums, failures, ok, steady, configMap, csiSecret, csi, node>>

RestartCSI ==
  /\ csi # NotDeployed
  /\ csi' = [csi EXCEPT !.reads = csiSecret]
  /\ UNCHANGED <<envVars, pc, seen, sums, failures, ok, steady, configMap, csiSecret, ccm, node>>

Environment == ChangeProfile \/ UpdateShoot \/ Rotate \/ Retag

Reconcile ==
  \/ Start \/ ApplyConfigChart \/ ComputeChecksums
  \/ ApplyControlPlaneChart \/ ApplyShootChart \/ Reject

Next ==
  \/ Environment \/ Reconcile \/ FailInControlPlaneChart \/ Fail
  \/ RestartCCM \/ RestartCSI

Spec == Init /\ [][Next]_vars

\* Reconciliations are repeated, and each step is taken.
FairSpec == Spec /\ WF_vars(Reconcile)

-----------------------------------------------------------------------------
\* Properties.

\* The IP pools that the cloud controller manager hands out addresses from
\* are pools of the cloud profile or pools that this garden has tagged for this
\* shoot: no sequence of updates, profile changes and retagging between the
\* steps of a reconciliation brings in another
\* (checkAuthorizationOfOverwrittenIPPoolName, CheckShootAuthorizationByTags).
OnlyAllowedPools ==
  configMap # None =>
    /\ Pools(configMap.classes) \subseteq allowed
    /\ configMap.default.pool \in allowed

\* The pools of the profile's classes called "default": nothing keeps a profile
\* from listing several, of which the first and the last are used.
DefaultPools(classes) == {c.pool : c \in {d \in ToSet(classes) : d.name = DefaultName}}

\* If the cloud profile has a class called "default", and one pool for it, no
\* update of a shoot that is admitted changes the pool its default load balancer
\* uses, whatever update came before and whatever the profile offers for the
\* other classes.
NamedDefaultIsImmutable ==
  [][ /\ profile' = profile /\ config' # config
      /\ \E p \in Pool \union {Unset} : DefaultPools(profile.classes) = {p}
      =>
        LET before == Overwrite(profile.classes, config.classes)
            after  == Overwrite(profile.classes, config'.classes)
        IN  before.default.pool = after.default.pool ]_vars

\* After a reconciliation that succeeded and during which nothing changed, the
\* CSI controller runs with the current credentials, although its secret is
\* written after the checksum that annotates its pods was taken: the checksum
\* of the credentials starts the pods again.
RotationReachesCSI ==
  (ok /\ steady) => csi.reads # None /\ csi.reads.credentials = credentials

\* When nothing changes any more and the values can be computed, the CSI
\* controller ends up with the current settings: one reconciliation more than
\* the one that writes them is needed, because the annotation is one behind.
CSICatchesUp ==
  <>[](Overwrite(profile.classes, config.classes).ok
       /\ Overwritten(config.classes) \subseteq Authorized) =>
    <>[](csi.reads = CSIConf(profile, credentials))

-----------------------------------------------------------------------------
\* What the repository says and the code does not keep.

\* The pods of the CCM carry the checksum of cloud-provider-config, so after a
\* successful reconciliation the CCM runs with the configuration it was given.
CCMRunsItsConfig == ok => ccm.reads = configMap
=============================================================================
