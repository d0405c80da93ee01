------------------------------ MODULE Webhooks ------------------------------
(***************************************************************************)
(* The extension's mutating webhooks: pkg/webhook/controlplane,            *)
(* controlplaneexposure and shoot.  One object of one kind is followed     *)
(* through the writes of its owner (gardenlet, which rewrites the whole    *)
(* specification) and the updates of others (which send back what is       *)
(* stored), while the cloud profile changes in between.                    *)
(*                                                                         *)
(* An API write is one step: the API server sends it through the webhook,  *)
(* and through those of other extensions, and stores it or rejects it.     *)
(* The generic mutator, which calls the Ensure... functions below, is that *)
(* of the vendored gardener library.                                       *)
(***************************************************************************)
EXTENDS Naturals, SequencesExt

CONSTANTS
    Kind,                 \* the kinds of object followed
    Registered,           \* those whose type is registered in an add.go
    GardenletManagesMCM,
    ETCDStorage,          \* the extension's configuration; "nil" where unset
    ProxyConf,            \* values of dockerDaemonOptions.httpProxyConf
    Registries            \* values of dockerDaemonOptions.insecureRegistries

ASSUME WebhooksAssumption ==
    /\ Registered \subseteq Kind
    /\ GardenletManagesMCM \in BOOLEAN

VARIABLES
    kind,       \* what object is followed
    profile,    \* the cloud profile in the shoot's Cluster resource
    configMap,  \* outcome of reading cloud-provider-config
    obj         \* the object as stored, or NoObject
vars == <<kind, profile, configMap, obj>>

NoObject == [none |-> TRUE]
Exists == obj # NoObject

\* The docker options of the profile; it is not readable when the Cluster
\* cannot be read or the provider config cannot be decoded or is missing.
Profiles == [readable : BOOLEAN, proxy : ProxyConf \cup {"nil"},
             registries : SUBSET Registries]

-----------------------------------------------------------------------------
(* Command lines: a function from the flags present to their values.       *)

Values == [enable    |-> {"PersistentVolumeLabel", "Other"},
           disable   |-> {"PersistentVolumeLabel", "Other"},
           gates     |-> {"CSINodeInfo=false", "Other"},
           addresses |-> {"Hostname", "InternalIP"}]

CommandLines(flags) ==
    UNION {{c \in [fs -> SUBSET UNION {Values[f] : f \in flags}] :
                \A f \in fs : c[f] \subseteq Values[f]} : fs \in SUBSET flags}

EnsureContains(command, flag, value) ==
    [f \in DOMAIN command \cup {flag} |->
        IF f # flag THEN command[f]
        ELSE {value} \cup IF f \in DOMAIN command THEN command[f] ELSE {}]

\* Mutant: the flag loses all its values.
EnsureNotContains_Clears(command, flag, value) ==
    [f \in DOMAIN command |-> IF f = flag THEN {} ELSE command[f]]

EnsureNotContains(command, flag, value) ==
    [f \in DOMAIN command |-> IF f = flag THEN command[f] \ {value} ELSE command[f]]

EnsureIs(command, flag, value) ==
    [f \in DOMAIN command \cup {flag} |-> IF f = flag THEN {value} ELSE command[f]]

-----------------------------------------------------------------------------
(* Deployments, the autoscaler of one, and etcd                            *)

\* Feature gates that would keep the in-tree volume plugins alive.
ensureKubeAPIServerCommandLineArgs(c) ==
    LET plugins == EnsureContains(
                       EnsureNotContains(c, "enable", "PersistentVolumeLabel"),
                       "disable", "PersistentVolumeLabel")
    IN  EnsureNotContains(EnsureNotContains(plugins, "gates", "CSINodeInfo=false"),
                          "gates", "CSIDriverRegistry=false")

EnsureKubeAPIServerDeployment(d) ==
    [d EXCEPT !.labels = @ \cup {"to-csi-snapshot-validation"},
              !.command = IF d.named THEN ensureKubeAPIServerCommandLineArgs(@) ELSE @]

EnsureKubeControllerManagerDeployment(d) ==
    [d EXCEPT !.labels = (@ \ {"to-blocked-cidrs"})
                         \cup {"to-public-networks", "to-private-networks"}]

EnsureMachineControllerManagerDeployment(d) ==
    IF ~GardenletManagesMCM THEN d
    ELSE [d EXCEPT !.containers = @ \cup {"machine-controller-manager-vsphere"}]

EnsureMachineControllerManagerVPA(v) ==
    IF ~GardenletManagesMCM THEN v
    ELSE [v EXCEPT !.policies = @ \cup {"machine-controller-manager-vsphere"}]

mutateMetricsServerDeployment(d) ==
    IF d.named
    THEN [d EXCEPT !.command = EnsureIs(@, "addresses", "InternalIP")]
    ELSE d

EnsureETCD(e) ==
    LET configured(field, default) ==
            IF kind = "etcd-main" /\ ETCDStorage[field] # "nil"
            THEN ETCDStorage[field] ELSE default
    IN  [e EXCEPT !.capacity = configured("capacity", "10Gi"),
                  !.class    = configured("class", "")]

-----------------------------------------------------------------------------
(* Operating system configs                                                *)

Paths(files) == {files[k].path : k \in DOMAIN files}

\* Mutant: a file of that path is kept as it is.
appendUniqueFile_Keeps(files, file) ==
    IF file.path \in Paths(files) THEN files ELSE Append(files, file)

\* Mutant: a file of that path is not looked for.
appendUniqueFile_Twice(files, file) == Append(files, file)

\* appendUniqueFile: a file of that path is dropped, and the new one comes last.
\* resFiles is what the loop has kept of the first k files.
appendUniqueFile(files, file) ==
    LET resFiles[k \in 0..Len(files)] ==
            IF k = 0 THEN <<>>
            ELSE IF files[k].path # file.path THEN Append(resFiles[k - 1], files[k])
            ELSE resFiles[k - 1]
    IN  Append(resFiles[Len(files)], file)

\* Mutant: a unit of that name is not looked for.
AppendUniqueUnit_Twice(units, unit) == Append(units, unit)

\* AppendUniqueUnit of the library: a unit of that name is left as it is.
AppendUniqueUnit(units, unit) ==
    IF unit \in ToSet(units) THEN units ELSE Append(units, unit)

HTTPProxy(conf)   == [path |-> "http-proxy.conf", data |-> {conf}]
MergeScript(regs) == [path |-> "merge-docker-json.sh", data |-> regs]

addDockerHTTPProxyFile(files, p) ==
    IF p.proxy = "nil" THEN files ELSE appendUniqueFile(files, HTTPProxy(p.proxy))

addMergeDockerJSONFile(files, p) ==
    IF p.registries = {} THEN files
    ELSE appendUniqueFile(files, MergeScript(p.registries))

EnsureAdditionalFiles(files, p) ==
    addMergeDockerJSONFile(addDockerHTTPProxyFile(files, p), p)

\* Mutant: the unit comes with any docker option.
EnsureAdditionalUnits_Any(units, p) ==
    IF p.proxy = "nil" /\ p.registries = {} THEN units
    ELSE AppendUniqueUnit(units, "merge-docker-json.service")

EnsureAdditionalUnits(units, p) ==
    IF p.registries = {} THEN units
    ELSE AppendUniqueUnit(units, "merge-docker-json.service")

EnsureKubeletServiceUnitOptions(k) ==
    [k EXCEPT !.cloudProvider = "external", !.setsHostname = TRUE]

EnsureKubeletConfiguration(gates) ==
    gates \ {"VolumeSnapshotDataSource", "CSINodeInfo", "CSIDriverRegistry"}

\* mutateOperatingSystemConfig, for the purpose "reconcile" only.  The cloud
\* provider config stays empty, and an empty file is not added.
EnsureOperatingSystemConfig(o) ==
    IF o.purpose # "reconcile" THEN o
    ELSE [o EXCEPT !.kubelet = EnsureKubeletServiceUnitOptions(@),
                   !.gates   = EnsureKubeletConfiguration(@),
                   !.files   = EnsureAdditionalFiles(@, profile),
                   !.units   = EnsureAdditionalUnits(@, profile)]

\* The webhook's error: the profile and the config map are read for every
\* operating system config to be mutated.  A missing config map is no error.  A
\* missing provider config makes the webhook panic; the API server then rejects
\* the write as it does after an error, by the failure policy Fail.
Fails(o) ==
    /\ kind = "osc" /\ o.purpose = "reconcile" /\ ~o.deleting
    /\ ~profile.readable \/ configMap = "error"

Mutate(o) ==
    IF kind \notin Registered \/ o.deleting THEN o
    ELSE CASE kind = "osc"            -> EnsureOperatingSystemConfig(o)
           [] kind = "kube-apiserver" -> EnsureKubeAPIServerDeployment(o)
           [] kind = "kcm"            -> EnsureKubeControllerManagerDeployment(o)
           [] kind = "mcm"            -> EnsureMachineControllerManagerDeployment(o)
           [] kind = "mcm-vpa"        -> EnsureMachineControllerManagerVPA(o)
           [] kind = "metrics-server" -> mutateMetricsServerDeployment(o)
           [] OTHER                   -> EnsureETCD(o)

-----------------------------------------------------------------------------
(* What the owner writes, for each kind                                    *)

BaseFile  == [path |-> "kubelet-config", data |-> {}]
OtherFile == [path |-> "other", data |-> {}]

Desired == CASE kind = "osc" ->
        [deleting : {FALSE}, purpose : {"reconcile", "provision"},
         kubelet : [cloudProvider : {"none", "external"}, setsHostname : {FALSE}],
         gates : SUBSET {"CSINodeInfo", "GracefulNodeShutdown"},
         files : {<<BaseFile>>}, units : {<<"kubelet.service">>}]
    [] kind = "kube-apiserver" ->
        [deleting : {FALSE}, named : BOOLEAN, labels : {{}, {"app"}},
         command : CommandLines({"enable", "disable", "gates"})]
    [] kind = "kcm" ->
        [deleting : {FALSE}, labels : SUBSET {"app", "to-blocked-cidrs", "to-public-networks"}]
    [] kind = "mcm" -> [deleting : {FALSE}, containers : {{"machine-controller-manager"}}]
    [] kind = "mcm-vpa" -> [deleting : {FALSE}, policies : {{"machine-controller-manager"}}]
    [] kind = "metrics-server" ->
        [deleting : {FALSE}, named : BOOLEAN, command : CommandLines({"addresses"})]
    [] OTHER -> [deleting : {FALSE}, capacity : {"25Gi"}, class : {"default"}]

\* Another extension's webhook adds its file, before ours or after it.
AddOther(o) ==
    IF kind # "osc" \/ "other" \in Paths(o.files) THEN o
    ELSE [o EXCEPT !.files = Append(@, OtherFile)]

\* An API write of o, through the webhooks.
Admit(o) ==
    /\ ~Fails(o)
    /\ obj' \in {Mutate(o), AddOther(Mutate(o)), Mutate(AddOther(o))}

-----------------------------------------------------------------------------
Init ==
    /\ kind \in Kind
    /\ profile \in Profiles
    /\ configMap \in {"found", "missing", "error"}
    /\ kind # "osc" => /\ configMap = "found"
                       /\ profile = [readable |-> TRUE, proxy |-> "nil", registries |-> {}]
    /\ obj = NoObject

\* The owner creates the object, or rewrites its whole specification.  The
\* purpose of an operating system config never changes.
Rewrite ==
    /\ Exists => ~obj.deleting
    /\ \E o \in Desired :
          /\ (Exists /\ kind = "osc") => o.purpose = obj.purpose
          /\ Admit(o)
    /\ UNCHANGED <<kind, profile, configMap>>

\* Someone updates other fields (annotations, finalizers): what is stored is
\* sent back, through the webhooks.
Touch ==
    /\ Exists
    /\ Admit(obj)
    /\ UNCHANGED <<kind, profile, configMap>>

Delete ==
    /\ Exists /\ ~obj.deleting
    /\ obj' = [obj EXCEPT !.deleting = TRUE]
    /\ UNCHANGED <<kind, profile, configMap>>

Removed ==
    /\ Exists /\ obj.deleting
    /\ obj' = NoObject
    /\ UNCHANGED <<kind, profile, configMap>>

ProfileChanges ==
    /\ kind = "osc"
    /\ profile' \in Profiles
    /\ UNCHANGED <<kind, configMap, obj>>

ConfigMapChanges ==
    /\ kind = "osc"
    /\ configMap' \in {"found", "missing", "error"}
    /\ UNCHANGED <<kind, profile, obj>>

Next == Rewrite \/ Touch \/ Delete \/ Removed \/ ProfileChanges \/ ConfigMapChanges
Spec == Init /\ [][Next]_vars

-----------------------------------------------------------------------------
(* Properties                                                              *)

\* Mutating twice is mutating once (Mutate of ensurer.go, on every kind): the
\* order of files included, or the machines' user data would change with
\* every update of an annotation.
Idempotent == Exists /\ ~Fails(obj) => Mutate(Mutate(obj)) = Mutate(obj)

\* The merge-docker-json unit is never installed without the script it runs,
\* nor the script without the unit, whatever the profile was when each came
\* in (EnsureAdditionalFiles and EnsureAdditionalUnits).
UnitHasScript ==
    Exists /\ kind = "osc" =>
        ("merge-docker-json.service" \in ToSet(obj.units)
            <=> "merge-docker-json.sh" \in Paths(obj.files))

Wanted ==
    (IF profile.proxy = "nil" THEN {} ELSE {HTTPProxy(profile.proxy)})
    \cup (IF profile.registries = {} THEN {} ELSE {MergeScript(profile.registries)})

\* The next accepted write of a config leaves the current profile's docker
\* options in it and no other version of them, whatever the profiles were at
\* the writes before; no file or unit is there twice (appendUniqueFile,
\* AppendUniqueUnit).
FollowsProfile ==
    Exists /\ kind = "osc" /\ ~Fails(obj) /\ ~obj.deleting /\ obj.purpose = "reconcile" =>
        LET new == Mutate(obj) IN
        /\ Wanted \subseteq ToSet(new.files)
        /\ Cardinality(Paths(new.files)) = Len(new.files)
        /\ IsInjective(new.units)

\* What the owner or another extension puts there survives the webhook, both
\* when it is written and later: files, units, plugins and gates (EnsureNo...,
\* appendUniqueFile).
KeepsForeign ==
    \A o \in Desired \cup ({obj} \ {NoObject}) :
        CASE kind = "osc" ->
                /\ {f \in ToSet(o.files) : f.path \in {"kubelet-config", "other"}}
                      \subseteq ToSet(Mutate(o).files)
                /\ ToSet(o.units) \subseteq ToSet(Mutate(o).units)
          [] kind = "kube-apiserver" ->
                \A f \in DOMAIN o.command :
                    o.command[f] \cap {"Other"} \subseteq Mutate(o).command[f]
          [] OTHER -> TRUE
=============================================================================
