--------------------------- MODULE AdmissionProps ---------------------------
(* What admission promises to the extension's controllers, and its limits. *)
EXTENDS Admission

\* History: the secret was changed while the webhook could not know that the
\* shoot uses it, between the check of the secret for the shoot's creation
\* and the shoot's arrival in the cache.
VARIABLE raced
propVars == <<vars, raced>>

Watch ==
    raced' = /\ creating' # NoShoot \/ shoot' # NoShoot
             /\ \/ raced
                \/ /\ secret' # secret /\ ~cached
                   /\ creating # NoShoot \/ Exists

PInit == Init /\ raced = FALSE
PNext ==
    \/ ProfileChanges /\ Watch
    \/ SecretChanges /\ Watch
    \/ RequestShoot /\ Watch
    \/ StoreShoot /\ Watch
    \/ CacheCatchesUp /\ Watch
    \/ UpdateShoot /\ Watch
    \/ Sync /\ Watch
    \/ Reconcile /\ Watch
    \/ DeleteShoot /\ Watch
PSpec == PInit /\ [][PNext]_propVars

\* What was admitted and the seed has can be prepared and turned into settings of
\* the network, as long as NSX-T is there and accepts the account (no webhook
\* tries it out), the profile is valid and still has the region, the network has
\* at least sixteen addresses, and the secret did not change behind the webhook's
\* back: the webhooks leave no other reason to fail (validateShootSecret, the
\* secret webhook's Handle, prepareReconcile, newDHCPConfig). And every component
\* gets an account that is there: no accessor of Credentials dereferences nil.
AdmittedReconciles ==
    (/\ seed # NoShoot /\ Exists /\ ~raced
     /\ seed.secret["nsxt"] \notin Rejected
     /\ Readable(seed.profile)
     /\ seed.shoot.region \in DOMAIN seed.profile.regions
     /\ seed.shoot.network.prefix <= 28) =>
        /\ Prepare(seed) = "ok"
        /\ \A a \in {"mcm", "ccm", "csi"} : AccountOf(seed.secret, a) \in Extracted(seed.secret)

\* What the infrastructure was built from stays what the shoot says: its nodes'
\* network and its external tier-1 gateway cannot change under it
\* (ValidateNetworkingUpdate, ValidateInfrastructureConfigUpdate).
BuiltFromShoot ==
    status # NoStatus =>
        status.network = shoot.network /\ status.gateway = shoot.gateway

\* Every zone of a status is made from a zone of a valid profile. It has a
\* place to compute, a data center and a place for disks, and only one of
\* those unless the region itself names two, except where the profile names an
\* empty string for the zone: the validation takes that as not set, but the
\* status puts it before what the region says (ValidateCloudProfileConfig and
\* makeProviderInfrastructureStatus).
ZonesArePlaced ==
    status # NoStatus =>
        \E p \in world.profiles :
            /\ Readable(p) /\ status.nsxt.host \in DOMAIN p.regions
            /\ LET region == p.regions[status.nsxt.host] IN
               /\ DOMAIN status.zones = DOMAIN region.zones
               /\ \A z \in DOMAIN region.zones :
                    LET zone == region.zones[z]
                        placed == status.zones[z]
                        disks == {placed.datastore, placed.datastoreCluster}
                    IN
                    /\ placed.compute # ""
                    /\ zone.datacenter # "" => placed.datacenter # ""
                    /\ "" \notin {zone.datastore, zone.datastoreCluster} =>
                        /\ disks # {""}
                        /\ \/ "" \in disks
                           \/ disks = {region.datastore, region.datastoreCluster}

\* The addresses that newDHCPConfig takes from the nodes' network are in it,
\* have the numbers asked for, and neither gateway nor DHCP server is in the
\* range given to nodes, which is not empty; a network that gets no such
\* configuration has too few addresses.
AddressesFit ==
    \A s \in {shoot, creating} \ {NoShoot} :
        LET net == s.network
            d   == DHCPConfig(net)
            n   == [f \in DOMAIN d |-> HostNumber(d[f], net.prefix)]
        IN  IF HasDHCPConfig(net)
            THEN /\ \A f \in DOMAIN d : /\ d[f] \in Address
                                        /\ SameNetwork(d[f], net.address, net.prefix)
                 /\ n = [gateway |-> 1, server |-> 2, start |-> 10, end |-> Size(net) - 1]
                 /\ n.server < n.start /\ n.start <= n.end
            ELSE Size(net) <= 10

\* All clients that are made from the configuration of a shoot talk to the same
\* NSX-T with the same trust and as the same account: what one client creates
\* another finds and may remove (NewNSXTConfig and the three clients).  Those of
\* infra-cli, with the configuration it builds for the shoot's region or for
\* none, talk to that NSX-T, too, where it does not choose among several; as the
\* same account if the secret of the garden's binding names the one of the
\* shoot's, and up to the flag for remote authentication, which it never sets
\* (BuildConfigFile).  Of the files that users write it holds for exactly those
\* with name and password that NSX-T accepts, without certificate and token, and
\* without authorities of their own unless nothing is verified.
Clients(c) == {createConnector(c), createNSXClient(c), DestroyAll(c)}

ClientsAlike ==
    /\ \A c \in ConfigFiles :
         Cardinality(Clients(c)) = 1 <=>
             /\ c.cert = "" /\ c.token = ""
             /\ "" \notin {c.user, c.password} /\ c.user \notin Rejected
             /\ c.ca = "" \/ c.insecure
    /\ (Exists /\ profile.type = "vsphere") =>
        LET now == [profile |-> profile, shoot |-> shoot, secret |-> secret]
            built == {BuildConfigFile(region) : region \in {shoot.region, ""}}
        IN  Prepare(now) = "ok" =>
              LET c == NewNSXTConfig(now) IN
              /\ Cardinality(Clients(c)) = 1
              /\ \A cli \in {b \in built : b.kind = "config"} :
                    /\ cli.nsxt.host = c.host /\ cli.nsxt.insecure = c.insecure
                    /\ Head(world.garden)["nsxt"] = secret["nsxt"] =>
                         Clients(cli.nsxt) = Clients([c EXCEPT !.remote = FALSE])
=============================================================================
