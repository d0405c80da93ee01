----------------------------- MODULE Admission -----------------------------
(***************************************************************************)
(* What the admission webhooks let in (pkg/validator), and what the        *)
(* extension makes of it (prepareReconcile of the infrastructure actuator, *)
(* BuildConfigFile of infra-cli): one shoot, its secret and its cloud      *)
(* profile.                                                                *)
(*                                                                         *)
(* Admission and persistence of an object are two steps: what was checked  *)
(* may have changed by the time the object is stored, and the secret       *)
(* webhook looks for shoots in a cache that runs behind.  gardenlet copies *)
(* profile, shoot and secret to the seed; gardener and the API server are  *)
(* external to the repository.                                             *)
(*                                                                         *)
(* A shoot is a record: region, network (its nodes' network; prefix -1     *)
(* where it is missing), gateway (networks.tier1GatewayPath) and           *)
(* loadBalancer (networks.loadBalancerServicePath), "nil" without          *)
(* networks, version (overwriteNSXTInfraVersion), controlPlane (whether it *)
(* has a config that can be decoded) and size (its loadBalancerSize).      *)
(* The load balancer classes of the shoot are in module                    *)
(* LoadBalancerClasses, its workers in module Workers.                     *)
(***************************************************************************)
EXTENDS CloudProfiles, Subnets, Connections, Sequences

CONSTANTS
    Account,    \* the accounts, a name and a password each, that a secret can hold
    World,      \* records of the profiles, secrets and shoots of one scenario, and
                \* of the secrets of garden's bindings labelled with the profile
    ConfigFiles \* the configurations that users of infra-cli write

\* What a secret holds of an account tells a set one from the rest.
ASSUME AccountAssumption == Account \cap {"missing", "half", "empty", ""} = {}

\* A network is nothing or one of IPv4, and a profile lists its regions.
ASSUME WorldAssumption ==
    \A w \in World :
        /\ \A s \in w.shoots : /\ s # [none |-> TRUE]
                               /\ s.network \in [address : Address, prefix : -1..32]
        /\ \A p \in w.profiles : IsFiniteSet(DOMAIN p.regions)

VARIABLES
    world,     \* the scenario, which never changes
    profile,   \* the CloudProfile
    secret,    \* the secret's data: of each account, what its two keys hold
    shoot,     \* the Shoot, or NoShoot
    creating,  \* an admitted shoot whose creation is not stored yet
    cached,    \* whether the webhook's cache has the shoot
    seed,      \* what the seed has of profile, shoot and secret
    status,    \* the Infrastructure's status
    outcome    \* of the last reconciliation
vars == <<world, profile, secret, shoot, creating, cached, seed, status, outcome>>

NoShoot == [none |-> TRUE]
NoStatus == [none |-> TRUE]
Exists == shoot # NoShoot

-----------------------------------------------------------------------------
(* Credentials                                                             *)

Accounts == {"vsphere", "mcm", "ccm", "csi", "nsxt"}
\* The keys of an account's name and password are missing, one of them is,
\* both are there and one is empty, or both are set. The webhooks do not try the
\* account out.
Data == {"missing", "half", "empty"} \cup Account

ValidateCloudProviderSecret(data) == \A a \in {"vsphere", "nsxt"} : data[a] \in Account

\* extractUserPass succeeds with empty strings.
Extracted(data) == {a \in Accounts : data[a] \in {"empty"} \cup Account}

\* Mutant: the specific accounts are no alternative to the common one.
ExtractCredentials_Specific(data) == Accounts \ {"vsphere"} \subseteq Extracted(data)

ExtractCredentials(data) ==
    /\ \A a \in {"mcm", "ccm", "csi"} : {a, "vsphere"} \cap Extracted(data) # {}
    /\ "nsxt" \in Extracted(data)

\* The accessors VsphereMCM, VsphereCCM and VsphereCSI fall back to the common
\* account; NSXT is used as it is.
AccountOf(data, a) == IF a \in Extracted(data) \/ a = "nsxt" THEN a ELSE "vsphere"

NameIn(data, a) == IF data[a] = "empty" THEN "" ELSE data[a]

\* An NSX-T is known by the region it serves.
NSXTConfig(data, region, insecure, remoteAuth) ==
    LET name == NameIn(data, AccountOf(data, "nsxt"))
    IN  Config(region, insecure, remoteAuth, name, name)

-----------------------------------------------------------------------------
(* The shoot webhook                                                       *)

\* newValidationContext decodes the profile's config and does not validate it.
HasContext(s) == s.controlPlane /\ profile.given = "config"

ValidateNetworking(s) == s.network.prefix # -1

ValidateInfrastructureConfig(s) ==
    /\ s.version \in {"nil", "1", "2"}
    /\ s.gateway # "" /\ s.loadBalancer # ""

ValidateControlPlaneConfig(s) == s.size \in {"nil", "SMALL", "MEDIUM", "LARGE"}

validateShoot(s) ==
    /\ ValidateNetworking(s)
    /\ ValidateInfrastructureConfig(s)
    /\ ValidateControlPlaneConfig(s)

\* Mutant: the secret is not looked at.
validateShootCreation_AnySecret(s) == HasContext(s) /\ validateShoot(s)

validateShootCreation(s) ==
    HasContext(s) /\ validateShoot(s) /\ ValidateCloudProviderSecret(secret)

ValidateNetworkingUpdate(old, new) == new.network = old.network
ValidateInfrastructureConfigUpdate(old, new) ==
    new.gateway = old.gateway /\ new.loadBalancer = old.loadBalancer
ValidateControlPlaneConfigUpdate(old, new) ==
    /\ isSet(old.size) <=> isSet(new.size)
    /\ isSet(old.size) => old.size = new.size

\* Mutant: only the new configuration is validated.
validateShootUpdate_NewOnly(old, new) == HasContext(new) /\ validateShoot(new)

validateShootUpdate(old, new) ==
    /\ HasContext(old) /\ HasContext(new)
    /\ ValidateNetworkingUpdate(old, new)
    /\ ValidateInfrastructureConfigUpdate(old, new)
    /\ ValidateControlPlaneConfigUpdate(old, new)
    /\ validateShoot(new)

-----------------------------------------------------------------------------
(* prepareReconcile of the infrastructure actuator                         *)

\* The configuration that NewNSXTConfig makes of the credentials and the region.
NewNSXTConfig(c) ==
    LET region == c.profile.regions[c.shoot.region]
    IN  NSXTConfig(c.secret, c.shoot.region, region.insecure, region.remoteAuth)

\* The first error, or "ok".  What follows in the first tasks is taken in:
\* newDHCPConfig fails for a network too small.  FindRegion dereferences the
\* config of a profile that has lost it.
Prepare(c) ==
    IF c.profile.given # "missing" /\ ~Readable(c.profile) THEN "profile"
    ELSE IF ~ExtractCredentials(c.secret) THEN "secret"
    ELSE IF c.profile.given = "missing" THEN "panic"
    ELSE IF c.shoot.region \notin DOMAIN c.profile.regions THEN "region"
    ELSE IF createConnector(NewNSXTConfig(c)) = Refused THEN "connect"
    ELSE IF ~HasDHCPConfig(c.shoot.network) THEN "network"
    ELSE "ok"

\* The specification of the infrastructure and the status made of it, with
\* creationStarted and whether there is a state.
Spec_(c, started, state) ==
    LET region == c.profile.regions[c.shoot.region] IN
    [started     |-> started,
     state       |-> state,
     gateway     |-> c.shoot.gateway,
     network     |-> c.shoot.network,
     nsxt        |-> NewNSXTConfig(c),
     dnsServers  |-> DNSServers(c.profile, region),
     dhcpOptions |-> DHCPOptions(c.profile, region),
     zones       |-> ZoneConfigs(region)]

\* fillHost takes the region that is given, or the only one.
OnlyRegion == CHOOSE r \in DOMAIN profile.regions : TRUE

\* Mutant: without a region, any one is taken.
fillHost_AnyRegion(region) == IF region \in DOMAIN profile.regions THEN region ELSE OnlyRegion

fillHost(region) ==
    IF region = "" /\ Cardinality(DOMAIN profile.regions) = 1 THEN OnlyRegion ELSE region

\* BuildConfigFile of infra-cli; it takes the profile from the garden, the secret
\* of the only binding in namespace garden that is labelled with the profile
\* (fillUserPassword), whatever secret a shoot has, and does not set the flag for
\* remote authentication.  For a profile of another type loadCloudProfileConfig
\* wraps a nil error and returns nil, and fillHost uses the config that was not
\* loaded.
BuildConfigFile(region) ==
    LET host == fillHost(region) IN
    CASE profile.type # "vsphere" -> [kind |-> "panic"]
      [] profile.type = "vsphere"
         /\ (\/ ~Readable(profile)
             \/ host \notin DOMAIN profile.regions
             \/ Len(world.garden) # 1
             \/ Head(world.garden)["nsxt"] \in {"missing", "half"}) -> [kind |-> "error"]
      [] OTHER -> [kind |-> "config",
                   nsxt |-> NSXTConfig(Head(world.garden), host,
                                      profile.regions[host].insecure, FALSE)]

-----------------------------------------------------------------------------
Init ==
    /\ world \in World
    /\ profile \in world.profiles
    /\ secret \in world.secrets
    /\ shoot = NoShoot /\ creating = NoShoot /\ cached = FALSE
    /\ seed = NoShoot /\ status = NoStatus /\ outcome = "none"

\* No webhook looks at profiles.
ProfileChanges ==
    /\ profile' \in world.profiles
    /\ UNCHANGED <<world, secret, shoot, creating, cached, seed, status, outcome>>

\* Handle of the secret webhook: a secret that is not in use by a shoot the
\* cache has may hold anything.
SecretChanges ==
    /\ \E data \in world.secrets :
          /\ data # secret
          /\ cached => ValidateCloudProviderSecret(data)
          /\ secret' = data
    /\ UNCHANGED <<world, profile, shoot, creating, cached, seed, status, outcome>>

RequestShoot ==
    /\ ~Exists /\ creating = NoShoot /\ seed = NoShoot
    /\ \E s \in world.shoots : validateShootCreation(s) /\ creating' = s
    /\ UNCHANGED <<world, profile, secret, shoot, cached, seed, status, outcome>>

StoreShoot ==
    /\ creating # NoShoot
    /\ shoot' = creating
    /\ creating' = NoShoot
    /\ UNCHANGED <<world, profile, secret, cached, seed, status, outcome>>

CacheCatchesUp ==
    /\ cached # Exists
    /\ cached' = Exists
    /\ UNCHANGED <<world, profile, secret, shoot, creating, seed, status, outcome>>

UpdateShoot ==
    /\ Exists
    /\ \E s \in world.shoots : validateShootUpdate(shoot, s) /\ shoot' = s
    /\ UNCHANGED <<world, profile, secret, creating, cached, seed, status, outcome>>

\* gardenlet copies what it reconciles.
Sync ==
    /\ Exists
    /\ seed' = [profile |-> profile, shoot |-> shoot, secret |-> secret]
    /\ UNCHANGED <<world, profile, secret, shoot, creating, cached, status, outcome>>

\* creationStarted, without which a deletion has nothing to do.
Started == status # NoStatus /\ status.started

\* NSX-T can be out of reach at any call ("connect", "check", "version"), and a
\* task can fail ("tasks").  What was prepared is written to the status before
\* the first task of the first reconciliation, and after the tasks, also when one
\* fails; a preparation that fails before that clears the status.  A failed
\* deletion writes what a reconciliation with failing tasks writes.
Reconcile ==
    /\ Exists /\ seed # NoShoot
    /\ LET prepared == Prepare(seed) \in {"ok", "network"} IN
       \/ /\ outcome' = IF prepared THEN "connect" ELSE Prepare(seed)
          /\ status' = IF Started THEN status ELSE NoStatus
       \/ /\ prepared /\ ~Started
          /\ outcome' = "check"
          /\ status' = Spec_(seed, FALSE, FALSE)
       \/ /\ prepared /\ (Started => ~status.state)
          /\ seed.shoot.version = "nil"
          /\ outcome' = "version"
          /\ status' = IF Started THEN status ELSE Spec_(seed, TRUE, FALSE)
       \/ /\ prepared
          /\ outcome' \in {Prepare(seed), "tasks"}
          /\ status' = Spec_(seed, TRUE, TRUE)
    /\ UNCHANGED <<world, profile, secret, shoot, creating, cached, seed>>

\* The infrastructure goes when there is nothing in it, or when its deletion
\* can be prepared; then gardenlet removes the shoot.
DeleteShoot ==
    /\ Exists
    /\ Started /\ status.state => seed # NoShoot /\ Prepare(seed) \in {"ok", "network"}
    /\ shoot' = NoShoot /\ seed' = NoShoot /\ status' = NoStatus /\ outcome' = "none"
    /\ UNCHANGED <<world, profile, secret, creating, cached>>

Next ==
    \/ ProfileChanges \/ SecretChanges
    \/ RequestShoot \/ StoreShoot \/ CacheCatchesUp \/ UpdateShoot
    \/ Sync \/ Reconcile \/ DeleteShoot

Spec == Init /\ [][Next]_vars
=============================================================================
