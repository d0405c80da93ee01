---------------------------- MODULE MCAdmission ----------------------------
(***************************************************************************)
(* Scenarios for Admission: each varies one of the profile, the secret and *)
(* the shoot around one that is in order.                                  *)
(***************************************************************************)
EXTENDS AdmissionProps

Zone == [datacenter |-> "nil", datastore |-> "nil", datastoreCluster |-> "nil",
         compute |-> "rp"]
Region == [missing |-> {}, datacenter |-> "dc", datastore |-> "ds",
           datastoreCluster |-> "nil", zones |-> "z1" :> Zone, dnsServers |-> {},
           dhcpOptions |-> {"nil"}, images |-> <<>>, insecure |-> FALSE, remoteAuth |-> FALSE]
Profile == [type |-> "vsphere", given |-> "config", missing |-> {},
            specImages |-> "gl" :> {"v1", "v2"}, images |-> "gl" :> {"v1", "v2"},
            specTypes |-> {"small"}, typeOptions |-> {"small"},
            dnsServers |-> {"8.8.8.8"}, dhcpOptions |-> {},
            regions |-> "r1" :> Region]

WithRegion(region) == [Profile EXCEPT !.regions = "r1" :> region]

\* Where data centers, data stores and clusters are named: in the region, the
\* zone, both or neither.
Placements ==
    {WithRegion([Region EXCEPT !.datacenter = dc[1], !.datastore = ds[1],
                               !.datastoreCluster = dsc[1],
                               !.zones = "z1" :> [Zone EXCEPT
                                   !.datacenter = dc[2], !.datastore = ds[2],
                                   !.datastoreCluster = dsc[2]]]) :
        dc  \in {<<"dc", "nil">>, <<"nil", "dc1">>, <<"dc", "dc1">>, <<"nil", "nil">>,
                 <<"dc", "">>},
        ds  \in {<<"ds", "nil">>, <<"nil", "ds1">>, <<"ds", "ds1">>, <<"nil", "nil">>,
                 <<"ds", "">>},
        dsc \in {<<"dsc", "nil">>, <<"nil", "dsc1">>, <<"nil", "nil">>}}

Other == [Region EXCEPT !.dnsServers = {"1.1.1.1"}, !.dhcpOptions = {},
                        !.insecure = TRUE, !.remoteAuth = TRUE]
Changed ==
    {[Profile EXCEPT !.type = "openstack"],
     [Profile EXCEPT !.given = "missing"],
     [Profile EXCEPT !.given = "garbled"],
     [Profile EXCEPT !.missing = {"namePrefix"}],
     [Profile EXCEPT !.images = "gl" :> {"v1"}],
     [Profile EXCEPT !.images = "ubuntu" :> {"v1"}],
     [Profile EXCEPT !.typeOptions = {"large"}],
     [Profile EXCEPT !.dnsServers = {}],
     [Profile EXCEPT !.dnsServers = {}, !.regions = "r1" :> Other],
     [Profile EXCEPT !.regions = "r2" :> Region],
     [Profile EXCEPT !.regions = "r1" :> Region @@ "" :> Other],
     [Profile EXCEPT !.regions = "r1" :> Region @@ "r2" :> Other],
     WithRegion([Region EXCEPT !.missing = {"snatIPPool"}]),
     WithRegion([Region EXCEPT !.zones = <<>>]),
     WithRegion([Region EXCEPT !.zones = "z1" :> [Zone EXCEPT !.compute = "nil"]])}

Secret == [a \in Accounts |-> IF a \in {"vsphere", "nsxt"} THEN "set" ELSE "missing"]
NSXTAs(account) == [Secret EXCEPT !["nsxt"] = account]
SomeSecrets ==
    {[Secret EXCEPT !["vsphere"] = v, !["nsxt"] = n, !["mcm"] = a[1], !["ccm"] = a[2],
                    !["csi"] = a[2]] :
        v \in {"missing", "empty", "set"}, n \in {"missing", "half", "empty", "set"},
        a \in {<<"missing", "missing">>, <<"empty", "set">>, <<"set", "missing">>,
               <<"set", "set">>}}

Net(prefix) == [address |-> <<10, 250, 3, 77>>, prefix |-> prefix]
Shoot == [region |-> "r1", network |-> Net(16), gateway |-> "nil",
          loadBalancer |-> "nil", version |-> "nil", controlPlane |-> TRUE,
          size |-> "nil"]
Networks == {[Shoot EXCEPT !.network = Net(p)] : p \in {-1} \cup 8..32}
Changes ==
    {[Shoot EXCEPT !.gateway = g, !.loadBalancer = l] :
        g \in {"nil", "", "t1", "t2"}, l \in {"nil", "", "lb"}}
    \cup {[Shoot EXCEPT !.version = "1"], [Shoot EXCEPT !.version = "3"],
          [Shoot EXCEPT !.controlPlane = FALSE], [Shoot EXCEPT !.size = ""],
          [Shoot EXCEPT !.size = "SMALL"], [Shoot EXCEPT !.size = "TINY"],
          [Shoot EXCEPT !.region = "r2"]}

File == Config("r1", FALSE, FALSE, "u", "p")
MCConfigFiles ==
    {[File EXCEPT !.user = u, !.ca = ca, !.insecure = i] :
        u \in {"", "u", "wrong"}, ca \in {"", "ca"}, i \in BOOLEAN}
    \cup {[File EXCEPT !.password = ""]}
    \cup {[File EXCEPT !.cert = f[1], !.key = f[2], !.token = f[3], !.authHost = f[4]] :
             f \in {<<"c", "k", "", "">>, <<"c", "", "", "">>, <<"wrong", "k", "", "">>,
                    <<"", "", "t", "a">>, <<"", "", "t", "">>, <<"", "", "wrong", "a">>,
                    <<"c", "k", "t", "a">>}}

Scenario(profiles, secrets, shoots) ==
    [profiles |-> profiles, secrets |-> secrets, shoots |-> shoots, garden |-> <<Secret>>]

\* The bindings in the garden: none, several, with other accounts or without any.
Gardens == {<<>>, <<Secret, Secret>>}
           \cup {<<NSXTAs(n)>> : n \in {"missing", "half", "empty", "other", "wrong"}}

MCWorld ==
    {Scenario({Profile, p}, {Secret}, {Shoot}) : p \in Placements \cup Changed}
    \cup {Scenario({Profile, [Profile EXCEPT !.regions = "r1" :> Other @@ "r2" :> Region]},
                   {Secret}, {[Shoot EXCEPT !.region = "r2"]}),
          Scenario({Profile}, SomeSecrets, {Shoot}),
          Scenario({Profile}, {Secret}, Networks \cup Changes)}
    \cup {[Scenario({Profile}, {Secret, NSXTAs("other"), NSXTAs("wrong")}, {Shoot})
             EXCEPT !.garden = g] : g \in Gardens}
=============================================================================
