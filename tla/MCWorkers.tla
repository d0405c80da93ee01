------------------------------ MODULE MCWorkers ------------------------------
(***************************************************************************)
(* A small instance of Workers for TLC: a shoot whose pool a changes its   *)
(* image, gets a second zone that is given less than the first, makes room *)
(* for pool b, and comes back in another zone or with its zones in the     *)
(* other order; and one whose pool c goes back and forth between images.   *)
(***************************************************************************)
EXTENDS Workers

Percent(n)  == [percent |-> TRUE, value |-> n]
Machines(n) == [percent |-> FALSE, value |-> n]

Pool(image, zones, maximum, surge, unavailable) ==
  [image |-> image, type |-> "t", zones |-> zones, minimum |-> 1, maximum |-> maximum,
   surge |-> surge, unavailable |-> unavailable]

Rolling(image, zones) == Pool(image, zones, 3, Percent(1), Percent(0))

MCTypes == "t" :> [cpu |-> 2, memory |-> 1024, storage |-> {10240}]

ManySpecs ==
  {"a" :> Rolling("i", <<"z1">>), "a" :> Rolling("j", <<"z1">>),
   "a" :> Rolling("i", <<"z2", "z1">>),
   "a" :> Pool("i", <<"z1", "z2">>, 3, Machines(3), Machines(1)),
   "b" :> Pool("j", <<"z1">>, 1, Percent(1), Percent(0))}

\* A pool whose image is changed, and changed back.
ImageSpecs == {"c" :> Rolling("i", <<"z1">>), "c" :> Rolling("j", <<"z1">>)}

MCScenarios == {[specs |-> ManySpecs, changes |-> 2], [specs |-> ImageSpecs, changes |-> 7]}
=============================================================================
