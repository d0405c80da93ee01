------------------------- MODULE ControlPlane_proofs -------------------------
(***************************************************************************)
(* Proofs about the control plane controller, for every set of classes,    *)
(* pools, tags, profiles and configurations, and every number of changes   *)
(* and failures.                                                           *)
(*                                                                         *)
(* OnlyAllowedPools is not inductive: what is rendered comes from what the *)
(* reconciliation has seen, so one has to know that the profile it has     *)
(* seen only has pools that were allowed, and that allowed only grows.     *)
(* RotationReachesCSI needs CSIInv, an invariant of the secret, the        *)
(* annotations and what the pod has read; NamedDefaultIsImmutable follows  *)
(* from what Overwrite makes of any profile, the dummy one included.       *)
(***************************************************************************)
EXTENDS ControlPlane, WellFoundedInduction, TLAPS

\* What is shared or offered now was allowed at some time.
EnvironmentAllowed == Shared \union Pools(profile.classes) \subseteq allowed

\* So was what the reconciliation has seen.
SeenAllowed ==
  pc # "idle" =>
    /\ seen.profile \in [classes : ProfileClasses, settings : Nat]
    /\ seen.config \in ShootConfigs
    /\ Pools(seen.profile.classes) \subseteq allowed

IInv == TypeOK /\ EnvironmentAllowed /\ SeenAllowed /\ OnlyAllowedPools
-----------------------------------------------------------------------------
(* Sequences.                                                              *)

\* A set of natural numbers that is not empty has a smallest one.
LEMMA Smallest ==
  ASSUME NEW T \in SUBSET Nat, T # {}
  PROVE  \E m \in T : \A k \in T : m <= k
<1> DEFINE R == {ss \in Nat \X Nat : ss[1] < ss[2]}
<1>1. IsWellFoundedOn(R, Nat)
  BY NatLessThanWellFounded, Zenon DEF OpToRel
<1>2. \A k, m \in Nat : k < m => <<k, m>> \in R
  OBVIOUS
<1> HIDE DEF R
<1>3. PICK m \in T : \A k \in T : ~(<<k, m>> \in R)
  BY <1>1, WFMin
<1>4. ASSUME NEW k \in T PROVE m <= k
  <2>1. k \in Nat /\ m \in Nat
    OBVIOUS
  <2>2. ~(k < m)
    BY <1>2, <1>3, <2>1
  <2> QED BY <2>1, <2>2
<1> QED BY <1>4

\* A set of positions of a sequence that is not empty has a first and a last one.
LEMMA Positions ==
  ASSUME NEW S, NEW s \in Seq(S), NEW K \in SUBSET DOMAIN s, K # {}
  PROVE  Max(K) \in K /\ Min(K) \in K
<1>1. K \subseteq Nat /\ Len(s) \in Nat /\ \A k \in K : k <= Len(s)
  OBVIOUS
<1>2. PICK m \in K : \A k \in K : m <= k
  BY <1>1, Smallest
<1>3. Min(K) \in K
  BY <1>2 DEF Min
<1> DEFINE D == {Len(s) - k : k \in K}
<1>4. D \subseteq Nat /\ D # {}
  BY <1>1
<1>5. PICK d \in D : \A e \in D : d <= e
  BY <1>4, Smallest
<1>6. PICK x \in K : d = Len(s) - x
  BY <1>5
<1>7. ASSUME NEW k \in K PROVE x >= k
  <2>1. Len(s) - x <= Len(s) - k
    BY <1>5, <1>6
  <2> QED BY <1>1, <2>1
<1>8. Max(K) \in K
  BY <1>7 DEF Max
<1> QED BY <1>3, <1>8

-----------------------------------------------------------------------------
(* Tags and classes.                                                       *)

\* A shoot is only authorized by tags that share the pool with it: the last
\* tag of a scope is one of the tags.
LEMMA AuthorizedAreShared ==
  ASSUME TypeOK  PROVE Authorized \subseteq Shared
<1> SUFFICES ASSUME NEW p \in Pool, CheckShootAuthorizationByTags(GetIPPoolTags(p))
             PROVE  Shares(tags[p])
  BY DEF Authorized, Shared
<1> DEFINE list == tags[p]
           map  == TagsToMap(list)
<1>1. list \in TagLists
  BY DEF TypeOK
<1>2. list \in Seq(ToSet(list)) /\ \A t \in ToSet(list) : t = Tag(t.scope, t.value)
  BY <1>1, TagListsAssumption
<1>3. ASSUME NEW s \in DOMAIN map
      PROVE  \E t \in ToSet(list) : t.scope = s /\ t.value = map[s]
  <2> DEFINE K == {k \in DOMAIN list : list[k].scope = s}
  <2>1. K # {} /\ map[s] = list[Max(K)].value
    BY DEF TagsToMap, ToSet
  <2>2. Max(K) \in K
    BY <1>2, <2>1, Positions
  <2> QED BY <2>1, <2>2 DEF ToSet
<1>4. Value(map, ScopeGarden) = << {GardenID} >>
  BY DEF CheckShootAuthorizationByTags, GetIPPoolTags
<1>5. PICK part \in ToSet(Value(map, ScopeAuthorizedShoots)) : Shoot \in part
  BY DEF CheckShootAuthorizationByTags, GetIPPoolTags
<1>6. Tag(ScopeGarden, << {GardenID} >>) \in ToSet(list)
  <2>1. ScopeGarden \in DOMAIN map /\ map[ScopeGarden] = << {GardenID} >>
    BY <1>4 DEF Value
  <2>2. PICK t \in ToSet(list) : t.scope = ScopeGarden /\ t.value = << {GardenID} >>
    BY <1>3, <2>1
  <2> QED BY <1>2, <2>2
<1>7. \E t \in ToSet(list) : /\ t.scope = ScopeAuthorizedShoots
                             /\ Shoot \in UNION ToSet(t.value)
  <2>1. ScopeAuthorizedShoots \in DOMAIN map
    BY <1>5 DEF Value, ToSet
  <2>2. part \in ToSet(map[ScopeAuthorizedShoots])
    BY <1>5, <2>1 DEF Value
  <2>3. PICK t \in ToSet(list) : /\ t.scope = ScopeAuthorizedShoots
                                 /\ t.value = map[ScopeAuthorizedShoots]
    BY <1>3, <2>1
  <2> QED BY <1>5, <2>2, <2>3
<1> QED BY <1>6, <1>7 DEF Shares

\* The pools of the resulting classes come from the profile or from the shoot.
LEMMA PoolsOfOverwrite ==
  ASSUME NEW constraints \in Seq(Class), NEW classes \in Seq(Class),
         Overwrite(constraints, classes).ok
  PROVE  LET lb == Overwrite(constraints, classes)
         IN  /\ Pools(lb.classes) \subseteq Pools(constraints) \union Overwritten(classes)
             /\ lb.default.pool \in Pools(constraints) \union Overwritten(classes)
<1> DEFINE all      == Listed(classes)
           complete == [k \in DOMAIN all |-> Complete(constraints, all[k])]
           default  == ProfileDefault(constraints)
           chosen   == IF default.name \in Names(complete)
                       THEN LastWith(complete, default.name) ELSE default
           sources  == Pools(constraints) \union Overwritten(classes)
<1>1. /\ constraints # <<>> /\ chosen.pool # Unset
      /\ Overwrite(constraints, classes) =
           [ok |-> TRUE, default |-> chosen, classes |-> complete]
  BY DEF Overwrite, Failure
<1>2. all \in Seq(Class) /\ \A c \in ToSet(all) : c.pool \in Overwritten(classes) \union {Unset}
  <2>1. CASE classes = <<>>
    <3>1. all = <<NoClass>> /\ NoClass \in Class /\ NoClass.pool = Unset
      BY <2>1, NamesAssumption DEF Listed, NoClass, Class
    <3>2. all \in Seq(Class) /\ ToSet(all) = {NoClass}
      BY <3>1 DEF ToSet
    <3> QED BY <3>1, <3>2
  <2>2. CASE classes # <<>>
    BY <2>2 DEF Listed, Overwritten
  <2> QED BY <2>1, <2>2
<1>3. ASSUME NEW name \in Names(constraints)
      PROVE  /\ FirstWith(constraints, name) \in ToSet(constraints)
             /\ LastWith(constraints, name) \in ToSet(constraints)
  <2> DEFINE K == {k \in DOMAIN constraints : constraints[k].name = name}
  <2>1. K # {}
    BY DEF Names, ToSet
  <2>2. Max(K) \in K /\ Min(K) \in K
    BY <2>1, Positions
  <2> QED BY <2>2 DEF FirstWith, LastWith, ToSet
<1>4. \A c \in ToSet(constraints) : c.pool \in Pools(constraints) \union {Unset}
  BY DEF Pools
<1>5. ASSUME NEW k \in DOMAIN all PROVE complete[k].pool \in sources \union {Unset}
  <2>1. CASE complete[k] = all[k]
    BY <1>2, <2>1 DEF ToSet
  <2>2. CASE complete[k] # all[k]
    <3>1. all[k].name \in Names(constraints)
          /\ complete[k] = FirstWith(constraints, all[k].name)
      BY <2>2 DEF Complete
    <3> QED BY <1>3, <1>4, <3>1
  <2> QED BY <2>1, <2>2
<1>6. DOMAIN complete = 1..Len(all) /\ Len(all) \in Nat
  BY <1>2
<1>7. complete \in Seq({complete[k] : k \in DOMAIN all})
  BY <1>6
<1>8. Pools(complete) \subseteq sources
  BY <1>5 DEF Pools, ToSet
<1>9. default \in ToSet(constraints)
  BY <1>1, <1>3 DEF ProfileDefault, ToSet
<1>10. chosen.pool \in sources
  <2>1. CASE default.name \in Names(complete)
    <3> DEFINE K == {k \in DOMAIN complete : complete[k].name = default.name}
    <3>1. K # {}
      BY <2>1 DEF Names, ToSet
    <3>2. Max(K) \in K
      BY <1>7, <3>1, Positions
    <3> QED BY <1>1, <1>5, <2>1, <3>2 DEF LastWith
  <2>2. CASE default.name \notin Names(complete)
    BY <1>1, <1>4, <1>9, <2>2
  <2> QED BY <2>1, <2>2
<1> QED BY <1>1, <1>8, <1>10
-----------------------------------------------------------------------------
(* The invariant.                                                          *)

LEMMA PoolsOfProfiles ==
  ASSUME NEW classes \in ProfileClasses  PROVE Pools(classes) \subseteq Pool
<1>1. classes \in Seq(Class)
  BY ProfilesAssumption
<1>2. \A c \in ToSet(classes) : c.pool \in Pool \union {Unset}
  <2>1. \A k \in DOMAIN classes : classes[k] \in Class
    BY <1>1
  <2> QED BY <2>1 DEF ToSet, Class
<1> QED BY <1>2 DEF Pools

LEMMA InitIInv == Init => IInv
<1> SUFFICES ASSUME Init PROVE IInv
  OBVIOUS
<1>1. TypeOK
  <2>1. Pools(profile.classes) \subseteq Pool
    BY PoolsOfProfiles DEF Init
  <2>2. Shared \subseteq Pool
    BY DEF Shared
  <2>3. ok \in BOOLEAN /\ steady \in BOOLEAN
    BY Zenon DEF Init
  <2>4. /\ credentials \in Nat /\ changes \in 0..MaxChanges /\ failures \in 0..MaxFailures
        /\ allowed \subseteq Pool /\ profile \in [classes : ProfileClasses, settings : Nat]
    BY <2>1, <2>2, BoundsAssumption DEF Init
  <2>5. DOMAIN ccm = {"annotations", "reads"} /\ DOMAIN csi = {"annotations", "reads"}
    BY DEF Init, NotDeployed
  <2> QED BY <2>3, <2>4, <2>5, Zenon DEF Init, TypeOK
<1>2. EnvironmentAllowed /\ SeenAllowed /\ OnlyAllowedPools
  BY DEF Init, EnvironmentAllowed, SeenAllowed, OnlyAllowedPools
<1> QED BY <1>1, <1>2 DEF IInv

\* What the environment shares or offers is added to what was allowed before.
LEMMA EnvironmentPreserves == IInv /\ Environment => IInv'
<1> SUFFICES ASSUME IInv, Environment PROVE IInv'
  OBVIOUS
<1> USE DEF IInv
<1>1. /\ Changed
      /\ profile' \in [classes : ProfileClasses, settings : Nat]
      /\ config' \in ShootConfigs /\ credentials' \in Nat
      /\ tags' \in [Pool -> TagLists]
  <2>1. CASE ChangeProfile
    BY <2>1 DEF ChangeProfile, TypeOK
  <2>2. CASE UpdateShoot
    BY <2>2 DEF UpdateShoot, TypeOK
  <2>3. CASE Rotate
    BY <2>3 DEF Rotate, TypeOK
  <2>4. CASE Retag
    BY <2>4 DEF Retag, TypeOK
  <2> QED BY <2>1, <2>2, <2>3, <2>4 DEF Environment
<1>2. Pools(profile'.classes) \subseteq Pool /\ Shared' \subseteq Pool
  BY <1>1, PoolsOfProfiles DEF Shared
<1>3. /\ allowed' = allowed \union Shared' \union Pools(profile'.classes)
      /\ UNCHANGED <<pc, seen, sums, failures, ok, configMap, csiSecret, ccm, csi, node>>
  BY <1>1 DEF Changed, deployed
<1>4. TypeOK'
  <2>1. ok' \in BOOLEAN /\ steady' \in BOOLEAN
    BY <1>1, Zenon DEF Changed, TypeOK
  <2>2. changes' \in 0..MaxChanges /\ allowed' \subseteq Pool
    BY <1>1, <1>2, BoundsAssumption DEF Changed, TypeOK
  <2> QED BY <1>1, <1>3, <2>1, <2>2, Zenon DEF TypeOK
<1>5. EnvironmentAllowed' /\ SeenAllowed' /\ OnlyAllowedPools'
  BY <1>3, Zenon DEF EnvironmentAllowed, SeenAllowed, OnlyAllowedPools
<1> QED BY <1>4, <1>5

\* A step that renders nothing leaves the ConfigMap as it is.
LEMMA ReconcilePreserves ==
  IInv /\ (Reconcile \/ FailInControlPlaneChart \/ Fail \/ RestartCCM \/ RestartCSI) => IInv'
<1> SUFFICES ASSUME IInv, Reconcile \/ FailInControlPlaneChart \/ Fail \/ RestartCCM \/ RestartCSI
             PROVE  IInv'
  OBVIOUS
<1> USE DEF IInv, deployed
<1>1. UNCHANGED envVars
  BY DEF Reconcile, Start, ApplyConfigChart, ComputeChecksums, ApplyControlPlaneChart,
         ApplyShootChart, Reject, FailInControlPlaneChart, Fail, RestartCCM, RestartCSI
<1>2. EnvironmentAllowed'
  <2>1. Shared' = Shared
    BY <1>1 DEF envVars, Shared
  <2> QED BY <1>1, <2>1, Zenon DEF envVars, EnvironmentAllowed
<1>3. CASE Start
  <2>1. TypeOK'
    BY <1>1, <1>3 DEF Start, TypeOK, envVars
  <2>2. SeenAllowed' /\ OnlyAllowedPools'
    BY <1>1, <1>3 DEF Start, TypeOK, envVars, EnvironmentAllowed, SeenAllowed, OnlyAllowedPools
  <2> QED BY <1>2, <2>1, <2>2
<1>4. CASE ApplyConfigChart
  <2> DEFINE constraints == seen.profile.classes
             classes     == seen.config.classes
  <2>1. /\ seen.profile.classes \in ProfileClasses /\ Pools(constraints) \subseteq allowed
        /\ seen.config \in ShootConfigs
    BY <1>4 DEF ApplyConfigChart, SeenAllowed
  <2>2. constraints \in Seq(Class) /\ classes \in Seq(Class)
    BY <2>1, ProfilesAssumption, ConfigsAssumption
  <2>3. Overwrite(constraints, classes).ok /\ Overwritten(classes) \subseteq Authorized
    BY <1>4 DEF ApplyConfigChart, Renders, IsAuthorized
  <2>4. Overwritten(classes) \subseteq allowed
    BY <2>3, AuthorizedAreShared DEF EnvironmentAllowed
  <2>5. OnlyAllowedPools'
    <3>1. /\ configMap'.classes = Overwrite(constraints, classes).classes
          /\ configMap'.default = Overwrite(constraints, classes).default
      BY <1>4 DEF ApplyConfigChart, CCMConf
    <3> QED BY <1>1, <2>1, <2>2, <2>3, <2>4, <3>1, PoolsOfOverwrite DEF OnlyAllowedPools, envVars
  <2>6. TypeOK' /\ SeenAllowed'
    BY <1>1, <1>4 DEF ApplyConfigChart, TypeOK, envVars, SeenAllowed
  <2> QED BY <1>2, <2>5, <2>6
<1>5. CASE ~Start /\ ~ApplyConfigChart
  <2>1. UNCHANGED <<seen, configMap>> /\ (pc' # "idle" => pc # "idle")
    BY <1>5 DEF Reconcile, ComputeChecksums, ApplyControlPlaneChart, ApplyShootChart, Reject,
                FailInControlPlaneChart, Fail, RestartCCM, RestartCSI
  <2>2. SeenAllowed' /\ OnlyAllowedPools'
    BY <1>1, <2>1 DEF envVars, SeenAllowed, OnlyAllowedPools
  <2>3. TypeOK'
    <3>1. \A d, a, c : DOMAIN d = {"annotations", "reads"} =>
                         DOMAIN Deploy(d, a, c) = {"annotations", "reads"}
      BY DEF Deploy
    <3>2. CASE ComputeChecksums \/ ApplyShootChart \/ Reject \/ Fail
      <4>1. ok' \in BOOLEAN /\ steady' \in BOOLEAN
        BY <3>2, Zenon DEF ComputeChecksums, ApplyShootChart, Reject, Fail, TypeOK
      <4>2. sums' \in Nat \union {None} /\ failures' \in 0..MaxFailures
        BY <3>2, BoundsAssumption
           DEF ComputeChecksums, ApplyShootChart, Reject, Fail, TypeOK
      <4>3. /\ pc' \in {"idle", "config", "checksums", "chart", "shoot"}
            /\ ccm' = ccm /\ csi' = csi
        BY <3>2 DEF ComputeChecksums, ApplyShootChart, Reject, Fail
      <4> QED BY <1>1, <4>1, <4>2, <4>3, Zenon DEF TypeOK, envVars
    <3>3. CASE ApplyControlPlaneChart \/ FailInControlPlaneChart
      BY <1>1, <3>1, <3>3, BoundsAssumption
         DEF ApplyControlPlaneChart, FailInControlPlaneChart, TypeOK, envVars
    <3>4. CASE RestartCCM \/ RestartCSI
      BY <1>1, <3>4 DEF RestartCCM, RestartCSI, TypeOK, envVars
    <3> QED BY <1>5, <3>2, <3>3, <3>4 DEF Reconcile
  <2> QED BY <1>2, <2>2, <2>3
<1> QED BY <1>3, <1>4, <1>5

LEMMA Invariance == Spec => []IInv
<1>1. IInv /\ UNCHANGED vars => IInv'
  <2> SUFFICES ASSUME IInv, UNCHANGED vars PROVE IInv'
    OBVIOUS
  <2>1. Shared' = Shared
    BY DEF vars, envVars, Shared
  <2> QED BY <2>1 DEF IInv, TypeOK, EnvironmentAllowed, SeenAllowed, OnlyAllowedPools,
                      vars, envVars, deployed
<1>2. IInv /\ [Next]_vars => IInv'
  BY <1>1, EnvironmentPreserves, ReconcilePreserves DEF Next
<1> QED BY InitIInv, <1>2, PTL DEF Spec

-----------------------------------------------------------------------------

\* Variables keep their types.
THEOREM TypeCorrect == Spec => []TypeOK
<1>1. IInv => TypeOK
  BY DEF IInv
<1> QED BY Invariance, <1>1, PTL

\* The cloud controller manager only ever hands out addresses of pools that
\* the cloud profile has offered or that this garden has tagged for the shoot:
\* IsAuthorized checks what the shoot names against the tags, and
\* OverwriteLoadBalancerClasses takes every other pool from the profile.
THEOREM PoolsAreAllowed == Spec => []OnlyAllowedPools
<1>1. IInv => OnlyAllowedPools
  BY DEF IInv
<1> QED BY Invariance, <1>1, PTL
-----------------------------------------------------------------------------
(* Rotated credentials.                                                    *)
(*                                                                         *)
(* The pod of the CSI controller knows credentials at least as recent as   *)
(* those its annotation stands for: the secret is written before the       *)
(* deployment, with credentials read after the checksum was taken.         *)

Secrets == [settings : Nat, credentials : Nat]
Marks   == [credentials : Nat, config : Secrets \union {None}]

\* A CSI controller that has been deployed.
Running ==
  /\ csi.annotations \in Marks /\ csi.reads \in Secrets /\ csiSecret \in Secrets
  /\ csi.annotations.credentials <= csi.reads.credentials
  /\ csi.reads.credentials <= csiSecret.credentials

CSIInv ==
  /\ csiSecret \in Secrets \union {None}
  /\ csiSecret # None => csiSecret.credentials <= credentials
  /\ csi = NotDeployed \/ Running
  /\ pc \in {"chart", "shoot"} =>
       sums \in Nat /\ sums <= credentials /\ (steady => sums = credentials)
  /\ pc = "shoot" \/ ok =>
       Running /\ (steady => csi.annotations.credentials = credentials)

\* What is written into the secret, and what the pods are annotated with.
LEMMA Writes ==
  ASSUME IInv, CSIInv, pc = "chart"
  PROVE  /\ CSIConf(seen.profile, credentials) \in Secrets
         /\ CSIConf(seen.profile, credentials).credentials = credentials
         /\ Annotations(csiSecret) \in Marks /\ Annotations(csiSecret).credentials = sums
         /\ None \notin Secrets /\ None \notin Marks
<1>1. seen.profile \in [classes : ProfileClasses, settings : Nat] /\ credentials \in Nat
  BY DEF IInv, SeenAllowed, TypeOK
<1>2. seen.profile.settings \in Nat
  BY <1>1
<1> QED BY <1>1, <1>2, NoneAssumption DEF CSIInv, CSIConf, Annotations, Secrets, Marks

\* Deploying leaves a pod that knows what the annotation stands for.
LEMMA DeployCSI ==
  ASSUME IInv, CSIInv, ApplyControlPlaneChart
  PROVE  CSIInv'
<1> DEFINE secret == CSIConf(seen.profile, credentials)
           marks  == Annotations(csiSecret)
<1>1. /\ pc = "chart" /\ pc' = "shoot" /\ csiSecret' = secret
      /\ csi' = Deploy(csi, marks, csiSecret')
      /\ UNCHANGED <<credentials, sums, ok, steady>>
  BY DEF ApplyControlPlaneChart, envVars
<1>2. /\ secret \in Secrets /\ secret.credentials = credentials
      /\ marks \in Marks /\ marks.credentials = sums
      /\ None \notin Secrets /\ None \notin Marks
  BY <1>1, Writes
<1> HIDE DEF secret, marks
<1>3. credentials \in Nat /\ sums \in Nat /\ sums <= credentials /\ (steady => sums = credentials)
  BY <1>1 DEF IInv, TypeOK, CSIInv
<1>4. Running' /\ csi'.annotations = marks
  <2>1. CASE csi.annotations = marks
    <3>1. csi # NotDeployed /\ csi' = csi
      BY <1>1, <1>2, <2>1 DEF NotDeployed, Deploy
    <3>2. Running /\ csiSecret.credentials <= credentials
      BY <1>2, <3>1 DEF CSIInv, Running
    <3>3. csi.reads.credentials \in Nat /\ csiSecret.credentials \in Nat
      BY <3>2 DEF Running, Secrets
    <3> QED BY <1>1, <1>2, <1>3, <2>1, <3>1, <3>2, <3>3 DEF Running
  <2>2. CASE csi.annotations # marks
    <3>1. csi' = [annotations |-> marks, reads |-> secret]
      BY <1>1, <2>2 DEF Deploy
    <3> QED BY <1>1, <1>2, <1>3, <3>1 DEF Running
  <2> QED BY <2>1, <2>2
<1> QED BY <1>1, <1>2, <1>3, <1>4 DEF CSIInv

LEMMA NextCSIInv ==
  ASSUME IInv, CSIInv, [Next]_vars
  PROVE  CSIInv'
<1>1. credentials \in Nat
  BY DEF IInv, TypeOK
<1>2. CASE Environment
  <2>1. /\ credentials' \in {credentials, credentials + 1} /\ steady' = FALSE
        /\ UNCHANGED <<pc, sums, ok, csiSecret, csi>>
    BY <1>2 DEF Environment, ChangeProfile, UpdateShoot, Rotate, Retag, Changed, deployed
  <2>2. csiSecret # None => csiSecret.credentials \in Nat
    BY DEF CSIInv, Secrets
  <2> QED BY <1>1, <2>1, <2>2 DEF CSIInv, Running
<1>3. CASE ApplyControlPlaneChart
  BY <1>3, DeployCSI
<1>4. CASE ComputeChecksums
  <2>1. /\ pc' = "chart" /\ sums' = credentials /\ pc = "checksums"
        /\ UNCHANGED <<credentials, ok, steady, csiSecret, csi>>
    BY <1>4 DEF ComputeChecksums, deployed, envVars
  <2> QED BY <1>1, <2>1 DEF CSIInv, Running
<1>5. CASE ApplyShootChart
  <2>1. /\ pc = "shoot" /\ pc' = "idle"
        /\ UNCHANGED <<credentials, steady, sums, csiSecret, csi>>
    BY <1>5 DEF ApplyShootChart, envVars
  <2> QED BY <2>1 DEF CSIInv, Running
<1>6. CASE FailInControlPlaneChart
  <2>1. /\ pc = "chart" /\ pc' = "idle" /\ csiSecret' = CSIConf(seen.profile, credentials)
        /\ UNCHANGED <<credentials, steady, ok, sums, csi>>
    BY <1>6 DEF FailInControlPlaneChart, envVars
  <2>2. /\ csiSecret' \in Secrets /\ csiSecret'.credentials = credentials
        /\ None \notin Secrets
    BY <2>1, Writes
  <2>3. Running => Running'
    <3> SUFFICES ASSUME Running PROVE Running'
      OBVIOUS
    <3>1. /\ csi.reads.credentials \in Nat /\ csiSecret.credentials \in Nat
          /\ csiSecret.credentials <= credentials
      BY <2>2 DEF Running, Secrets, CSIInv
    <3> QED BY <1>1, <2>1, <2>2, <3>1 DEF Running
  <2> QED BY <1>1, <2>1, <2>2, <2>3 DEF CSIInv
<1>7. CASE RestartCSI
  <2>1. /\ csi # NotDeployed /\ csi' = [csi EXCEPT !.reads = csiSecret]
        /\ UNCHANGED <<credentials, pc, steady, ok, sums, csiSecret>>
    BY <1>7 DEF RestartCSI, envVars
  <2>2. Running /\ DOMAIN csi = {"annotations", "reads"}
    BY <2>1 DEF CSIInv, IInv, TypeOK
  <2>3. csi'.annotations = csi.annotations /\ csi'.reads = csiSecret
    BY <2>1, <2>2
  <2>4. csi.annotations.credentials \in Nat /\ csi.reads.credentials \in Nat
        /\ csiSecret.credentials \in Nat
    BY <2>2 DEF Running, Secrets, Marks
  <2>5. Running'
    BY <2>1, <2>2, <2>3, <2>4 DEF Running
  <2> QED BY <2>1, <2>3, <2>5 DEF CSIInv
<1>8. CASE Start \/ ApplyConfigChart \/ Reject \/ Fail \/ RestartCCM \/ UNCHANGED vars
  <2>1. /\ UNCHANGED <<credentials, csiSecret, csi>>
        /\ pc' \in {pc, "idle", "config", "checksums"}
        /\ \/ UNCHANGED <<ok, steady, sums>>
           \/ pc' = "config" /\ ok' = FALSE
    BY <1>8 DEF Start, ApplyConfigChart, Reject, Fail, RestartCCM, vars, envVars, deployed
  <2> QED BY <2>1 DEF CSIInv, Running
<1> QED BY <1>2, <1>3, <1>4, <1>5, <1>6, <1>7, <1>8 DEF Next, Reconcile

\* RotationReachesCSI: after a reconciliation that succeeded and during which
\* nothing changed, the CSI controller runs with the current credentials: the
\* checksum in its annotations rolls the pod after the secret was written.
THEOREM CredentialsReachCSI == Spec => []RotationReachesCSI
<1>1. Init => CSIInv
  BY DEF Init, CSIInv
<1>2. IInv /\ CSIInv /\ [Next]_vars => CSIInv'
  BY NextCSIInv
<1>3. IInv /\ CSIInv => RotationReachesCSI
  <2> SUFFICES ASSUME IInv, CSIInv, ok, steady
               PROVE  csi.reads # None /\ csi.reads.credentials = credentials
    BY DEF RotationReachesCSI
  <2>1. /\ Running /\ csi.annotations.credentials = credentials
        /\ credentials \in Nat /\ csiSecret.credentials <= credentials
    BY NoneAssumption DEF CSIInv, IInv, TypeOK, Running, Secrets
  <2>2. csi.reads.credentials \in Nat /\ csiSecret.credentials \in Nat
    BY <2>1 DEF Running, Secrets
  <2>3. csi.reads # None
    BY <2>1, NoneAssumption DEF Running, Secrets
  <2> QED BY <2>1, <2>2, <2>3 DEF Running
<1> QED BY Invariance, <1>1, <1>2, <1>3, PTL DEF Spec
-----------------------------------------------------------------------------
(* The default class.                                                      *)

\* The pool that a shoot names itself for its default class, if any.
NamedPool(classes) ==
  LET all == Listed(classes)
  IN  IF DefaultName \in Names(all) THEN LastWith(all, DefaultName).pool ELSE Unset

LEMMA ListedClasses ==
  ASSUME NEW classes \in Seq(Class)
  PROVE  Listed(classes) \in Seq(Class)
<1>1. NoClass \in Class
  BY NamesAssumption DEF NoClass, Class
<1> QED BY <1>1 DEF Listed

LEMMA NamedPools ==
  ASSUME NEW classes \in Seq(Class)
  PROVE  NamedPool(classes) \in Pool \union {Unset}
<1> DEFINE all == Listed(classes)
           K   == {k \in DOMAIN all : all[k].name = DefaultName}
<1>1. all \in Seq(Class)
  BY ListedClasses
<1>2. CASE DefaultName \in Names(all)
  <2>1. K # {}
    BY <1>2 DEF Names, ToSet
  <2>2. Max(K) \in K
    BY <1>1, <2>1, Positions
  <2>3. all[Max(K)] \in Class
    BY <1>1, <2>2
  <2> QED BY <1>2, <2>3 DEF NamedPool, LastWith, Class
<1> QED BY <1>2 DEF NamedPool

\* If the profile has one pool for the class called "default", the default is
\* what the shoot names, or else that pool.
LEMMA DefaultOfOverwrite ==
  ASSUME NEW S, NEW constraints \in Seq(S), NEW classes \in Seq(Class), NEW p,
         DefaultPools(constraints) = {p}
  PROVE  Overwrite(constraints, classes).default.pool =
           IF NamedPool(classes) = Unset THEN p ELSE NamedPool(classes)
<1> DEFINE all      == Listed(classes)
           complete == [k \in DOMAIN all |-> Complete(constraints, all[k])]
           default  == ProfileDefault(constraints)
           chosen   == IF default.name \in Names(complete)
                       THEN LastWith(complete, default.name) ELSE default
           C(name)  == {k \in DOMAIN constraints : constraints[k].name = name}
           K        == {k \in DOMAIN all : all[k].name = DefaultName}
<1>1. DefaultName \in Names(constraints) /\ constraints # <<>>
  BY DEF DefaultPools, Names, ToSet
<1>2. \A k \in C(DefaultName) : constraints[k].pool = p
  BY DEF DefaultPools, ToSet
<1>3. \A name \in Names(constraints) : C(name) # {}
  BY DEF Names, ToSet
<1>4. \A name \in Names(constraints) : Max(C(name)) \in C(name) /\ Min(C(name)) \in C(name)
  BY <1>3, Positions
<1>5. default.name = DefaultName /\ default.pool = p
  BY <1>1, <1>2, <1>4 DEF ProfileDefault, LastWith
<1>6. all \in Seq(Class)
  BY ListedClasses
<1>7. \A k \in DOMAIN all : complete[k].name = all[k].name
  BY <1>4 DEF Complete, FirstWith
<1>8. DOMAIN complete = DOMAIN all /\ {k \in DOMAIN complete : complete[k].name = DefaultName} = K
  BY <1>7
<1>9. /\ DefaultName \in Names(complete) <=> K # {}
      /\ DefaultName \in Names(all) <=> K # {}
  BY <1>7 DEF Names, ToSet
<1>10. chosen.pool = IF NamedPool(classes) = Unset THEN p ELSE NamedPool(classes)
  <2>1. CASE K = {}
    BY <1>5, <1>9, <2>1 DEF NamedPool
  <2>2. CASE K # {}
    <3> DEFINE m == Max(K)
    <3>1. m \in K
      BY <1>6, <2>2, Positions
    <3>2. NamedPool(classes) = all[m].pool
      BY <1>9, <2>2 DEF NamedPool, LastWith
    <3>3. chosen = complete[m]
      BY <1>5, <1>8, <1>9, <2>2 DEF LastWith
    <3>4. complete[m] = Complete(constraints, all[m])
      BY <3>1
    <3>5. FirstWith(constraints, DefaultName).pool = p
      BY <1>1, <1>2, <1>4 DEF FirstWith
    <3> QED BY <1>1, <3>1, <3>2, <3>3, <3>4, <3>5 DEF Complete
  <2> QED BY <2>1, <2>2
<1>11. Overwrite(constraints, classes) =
         IF chosen.pool = Unset THEN Failure
         ELSE [ok |-> TRUE, default |-> chosen, classes |-> complete]
  BY <1>1 DEF Overwrite
<1> HIDE DEF chosen, complete
<1>12. CASE chosen.pool = Unset
  BY <1>10, <1>11, <1>12 DEF Failure, NoClass
<1>13. CASE chosen.pool # Unset
  BY <1>10, <1>11, <1>13
<1> QED BY <1>12, <1>13

\* An update which keeps the default against the dummy keeps the pool the shoot names.
LEMMA UpdateKeepsNamed ==
  ASSUME NEW old \in ShootConfigs, NEW new \in ShootConfigs, ValidUpdate(old, new)
  PROVE  NamedPool(old.classes) = NamedPool(new.classes)
<1>1. old.classes \in Seq(Class) /\ new.classes \in Seq(Class)
  BY ConfigsAssumption
<1>2. Dummy \in Seq({Dummy[1]}) /\ DefaultPools(Dummy) = {DummyPool}
  <2> DEFINE class == [name |-> DefaultName, pool |-> DummyPool]
  <2>1. class.name = DefaultName /\ class.pool = DummyPool
    OBVIOUS
  <2> HIDE DEF class
  <2>2. Dummy = <<class>>
    BY DEF Dummy, class
  <2>3. Dummy \in Seq({Dummy[1]}) /\ ToSet(Dummy) = {class}
    BY <2>2 DEF ToSet
  <2> QED BY <2>1, <2>3 DEF DefaultPools
<1>3. /\ DummyDefault(old).pool =
           IF NamedPool(old.classes) = Unset THEN DummyPool ELSE NamedPool(old.classes)
      /\ DummyDefault(new).pool =
           IF NamedPool(new.classes) = Unset THEN DummyPool ELSE NamedPool(new.classes)
  BY <1>1, <1>2, DefaultOfOverwrite DEF DummyDefault
<1>4. NamedPool(old.classes) # DummyPool /\ NamedPool(new.classes) # DummyPool
  BY <1>1, NamedPools, PoolsAssumption
<1> QED BY <1>3, <1>4 DEF ValidUpdate

\* NamedDefaultIsImmutable: validating an update against a dummy profile is
\* enough to keep the default load balancer's pool, for every profile with one
\* pool for the class called "default".
THEOREM DefaultIsImmutable == Spec => NamedDefaultIsImmutable
<1> DEFINE Kept == /\ profile' = profile /\ config' # config
                   /\ \E p \in Pool \union {Unset} : DefaultPools(profile.classes) = {p}
                   =>
                   LET before == Overwrite(profile.classes, config.classes)
                       after  == Overwrite(profile.classes, config'.classes)
                   IN  before.default.pool = after.default.pool
<1>1. IInv /\ [Next]_vars => [Kept]_vars
  <2> SUFFICES ASSUME IInv, Next, config' # config,
                      NEW p \in Pool \union {Unset}, DefaultPools(profile.classes) = {p}
               PROVE  Overwrite(profile.classes, config.classes).default.pool =
                        Overwrite(profile.classes, config'.classes).default.pool
    OBVIOUS
  <2>1. UpdateShoot
    BY DEF Next, Environment, ChangeProfile, Rotate, Retag, Reconcile, Start, ApplyConfigChart,
           ComputeChecksums, ApplyControlPlaneChart, ApplyShootChart, Reject,
           FailInControlPlaneChart, Fail, RestartCCM, RestartCSI, envVars
  <2>2. /\ config \in ShootConfigs /\ config' \in ShootConfigs
        /\ ValidUpdate(config, config') /\ profile.classes \in ProfileClasses
    BY <2>1 DEF UpdateShoot, AcceptUpdate, IInv, TypeOK
  <2>3. /\ config.classes \in Seq(Class) /\ config'.classes \in Seq(Class)
        /\ profile.classes \in Seq(Class)
    BY <2>2, ConfigsAssumption, ProfilesAssumption
  <2>4. NamedPool(config.classes) = NamedPool(config'.classes)
    BY <2>2, UpdateKeepsNamed
  <2>5. \A classes \in Seq(Class) :
          Overwrite(profile.classes, classes).default.pool =
            IF NamedPool(classes) = Unset THEN p ELSE NamedPool(classes)
    BY <2>3, DefaultOfOverwrite
  <2> QED BY <2>3, <2>4, <2>5
<1> QED BY Invariance, <1>1, PTL DEF Spec, NamedDefaultIsImmutable
=============================================================================
