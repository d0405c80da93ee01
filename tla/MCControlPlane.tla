---------------------------- MODULE MCControlPlane ----------------------------
(***************************************************************************)
(* Small instances of ControlPlane for TLC: two classes and two IP pools,  *)
(* in the profiles and configs in which the default is chosen differently, *)
(* and pools tagged for this shoot, or by another garden.                   *)
(***************************************************************************)
EXTENDS ControlPlane

C(name, pool) == [name |-> name, pool |-> pool]

Config(classes, size) == [classes |-> classes, size |-> size]

MCNamed   == {<<C("default", "p1")>>, <<C("private", "p1"), C("default", "p2")>>}
MCTwice   == {<<C("default", "p1"), C("default", "p2")>>}
MCUnnamed == {<<>>, <<C("private", "p1")>>}
MCProfiles == MCNamed \union MCTwice \union MCUnnamed

MCConfigs ==
  {Config(<<>>, "SMALL"), Config(<<C("private", "p2")>>, "SMALL"),
   Config(<<C("default", "p2"), C("private", Unset)>>, "SMALL"),
   Config(<<C("private", "p1"), C("default", "p1")>>, "LARGE")}

MCTagLists ==
  {<<Tag("garden", << {"g"} >>), Tag("authorized-shoots", << {"s2"} >>),
     Tag("authorized-shoots", << {}, {"s", "s2"} >>)>>,
   <<Tag("garden", << {"g2"} >>), Tag("authorized-shoots", << {"s"} >>)>>}
=============================================================================
