--------------------------- MODULE CloudProfiles ---------------------------
(***************************************************************************)
(* The provider config of a cloud profile: its validation                  *)
(* (ValidateCloudProfileConfig), the placement of zones made from it       *)
(* (makeProviderInfrastructureStatus) and the overrides of a region.       *)
(*                                                                         *)
(* A profile is a record:                                                  *)
(*   type         the profile's provider type                              *)
(*   given        its provider config: "missing", "garbled" or "config"    *)
(*   missing      the required strings that are empty or not allowed       *)
(*   specImages   versions of each machine image in the profile's spec     *)
(*   images       versions of each image in the provider config            *)
(*   specTypes, typeOptions   machine types, and those with options        *)
(*   dnsServers, dhcpOptions                                               *)
(*   regions      a function from names to regions                         *)
(* A string behind a pointer is "nil", "" or a name.                       *)
(***************************************************************************)
EXTENDS FiniteSets, TLC

\* Strings that ValidateCloudProfileConfig requires, of a profile and a region.
RequiredOfProfile == {"namePrefix", "loadBalancerSize", "defaultClassStoragePolicyName"}
RequiredOfRegion  == {"vsphereHost", "nsxtHost", "snatIPPool", "transportZone",
                      "logicalTier0Router", "edgeCluster"}

isSet(s) == s \notin {"nil", ""}
IsEmptyString(s) == ~isSet(s)

\* Each image listed is one of the spec, with exactly the spec's versions.
checkMachineImages(spec, images) ==
    \A name \in DOMAIN images :
        /\ name \in DOMAIN spec
        /\ images[name] # {}
        /\ images[name] = spec[name]

ValidZone(region, zone) ==
    /\ isSet(zone.datacenter) \/ isSet(region.datacenter)
    /\ \E s \in {zone.datastore, zone.datastoreCluster,
                 region.datastore, region.datastoreCluster} : isSet(s)
    /\ isSet(zone.compute)

ValidRegion(profile, region) ==
    /\ region.missing = {}
    /\ DOMAIN region.zones # {}
    /\ profile.dnsServers # {} \/ region.dnsServers # {}
    /\ \A z \in DOMAIN region.zones : ValidZone(region, region.zones[z])
    /\ checkMachineImages(profile.specImages, region.images)

ValidateCloudProfileConfig(profile) ==
    /\ profile.missing = {}
    /\ DOMAIN profile.images # {}
    /\ checkMachineImages(profile.specImages, profile.images)
    /\ profile.typeOptions \subseteq profile.specTypes
    /\ DOMAIN profile.regions # {}
    /\ \A r \in DOMAIN profile.regions : r # "" /\ ValidRegion(profile, profile.regions[r])

\* GetCloudProfileConfigFromProfile: the config is validated whenever it is
\* read, and not when it is written.  A profile without one gives nil.
Readable(profile) == profile.given = "config" /\ ValidateCloudProfileConfig(profile)

-----------------------------------------------------------------------------
safe(s) == IF s = "nil" THEN "" ELSE s

\* Mutant: the zone's cluster is put beside the region's data store.
DatastoreOf_Beside(region, zone) ==
    <<IF zone.datastore # "nil" THEN zone.datastore ELSE region.datastore,
      IF zone.datastoreCluster # "nil" THEN zone.datastoreCluster
      ELSE region.datastoreCluster>>

\* The data store of a zone: one of its own takes precedence over both of the
\* region's.
DatastoreOf(region, zone) ==
    CASE zone.datastore # "nil"        -> <<zone.datastore, "nil">>
      [] zone.datastore = "nil" /\ zone.datastoreCluster # "nil"
                                       -> <<"nil", zone.datastoreCluster>>
      [] OTHER                         -> <<region.datastore, region.datastoreCluster>>

DatacenterOf(region, zone) ==
    IF zone.datacenter # "nil" THEN zone.datacenter ELSE region.datacenter

\* makeProviderInfrastructureStatus
ZoneConfigs(region) ==
    [z \in DOMAIN region.zones |->
        LET zone == region.zones[z] IN
        [datacenter       |-> safe(DatacenterOf(region, zone)),
         datastore        |-> safe(DatastoreOf(region, zone)[1]),
         datastoreCluster |-> safe(DatastoreOf(region, zone)[2]),
         compute          |-> safe(zone.compute)]]

\* Overrides in prepareReconcile: by number for DNS servers, by presence for
\* DHCP options ({"nil"} where the field is missing).
DNSServers(profile, region) ==
    IF region.dnsServers # {} THEN region.dnsServers ELSE profile.dnsServers
DHCPOptions(profile, region) ==
    IF region.dhcpOptions # {"nil"} THEN region.dhcpOptions ELSE profile.dhcpOptions

\* CollectDatacenters: all that the cloud controller manager and CSI look at.
CollectDatacenters(region) ==
    {s \in {region.datacenter} \cup {region.zones[z].datacenter : z \in DOMAIN region.zones} :
        ~IsEmptyString(s)}
=============================================================================
