------------------------- MODULE LoadBalancerClasses -------------------------
(***************************************************************************)
(* Load balancer classes: how the classes a shoot lists and the classes of *)
(* the cloud profile become the classes and the default of the cloud       *)
(* controller manager, and which updates of the list the admission webhook *)
(* accepts. A class is its name and its IP pool; the two application       *)
(* profiles of a class are taken over by the rule of the pool, without its *)
(* obligation to exist, and are left out.                                  *)
(***************************************************************************)
EXTENDS Naturals, Sequences, SequencesExt, FiniteSetsExt

CONSTANTS
  ClassName,    \* names of classes
  Pool,         \* names of IP pools
  DefaultName,  \* LoadBalancerDefaultClassName
  Unset,        \* a string that is nil or empty
  DummyPool     \* the pool with which updates are validated

ASSUME NamesAssumption == DefaultName \in ClassName
\* No pool has the name that is used for validation, "dummy", which is not empty.
ASSUME PoolsAssumption == {Unset, DummyPool} \intersect Pool = {} /\ DummyPool # Unset

Class == [name : ClassName, pool : Pool \union {Unset}]

\* What OverwriteLoadBalancerClasses returns.
NoClass == [name |-> DefaultName, pool |-> Unset]
Failure == [ok |-> FALSE, default |-> NoClass, classes |-> <<>>]

LastWith(classes, name) ==
  classes[Max({k \in DOMAIN classes : classes[k].name = name})]

FirstWith(classes, name) ==
  classes[Min({k \in DOMAIN classes : classes[k].name = name})]

Names(classes) == {c.name : c \in ToSet(classes)}

\* The default that the profile defines: the last class of that name, or
\* else the first class.
ProfileDefault(constraints) ==
  IF DefaultName \in Names(constraints)
  THEN LastWith(constraints, DefaultName) ELSE Head(constraints)

\* A shoot that lists no class lists the default class.
Listed(classes) == IF classes = <<>> THEN <<NoClass>> ELSE classes

\* A class of the shoot, completed from the first class of that name.
Complete(constraints, class) ==
  IF class.pool = Unset /\ class.name \in Names(constraints)
  THEN FirstWith(constraints, class.name)
  ELSE class

Overwrite(constraints, classes) ==
  IF constraints = <<>> THEN Failure
  ELSE LET complete == [k \in DOMAIN Listed(classes) |->
                          Complete(constraints, Listed(classes)[k])]
           default  == ProfileDefault(constraints)
           chosen   == IF default.name \in Names(complete)
                       THEN LastWith(complete, default.name) ELSE default
       IN  IF chosen.pool = Unset THEN Failure
           ELSE [ok |-> TRUE, default |-> chosen, classes |-> complete]

\* The pools that the shoot names itself: each must be authorized.
Overwritten(classes) == {c.pool : c \in ToSet(classes)} \ {Unset}

-----------------------------------------------------------------------------
\* Admission of a ControlPlaneConfig, a record [classes, size].

Dummy == <<[name |-> DefaultName, pool |-> DummyPool]>>

DummyDefault(config) == Overwrite(Dummy, config.classes).default

AgainstProfile(constraints, config) == Overwrite(constraints, config.classes).ok

HasRelevantUpdates(old, new) == DummyDefault(old) # DummyDefault(new)

\* Mutant: the default class is not compared.
ValidUpdate_AnyDefault(old, new) == old.size = new.size

ValidUpdate(old, new) ==
  /\ old.size = new.size
  /\ DummyDefault(old).pool = DummyDefault(new).pool

AcceptCreate(constraints, config) == AgainstProfile(constraints, config)

AcceptUpdate(constraints, old, new) ==
  /\ ValidUpdate(old, new)
  /\ HasRelevantUpdates(old, new) => AgainstProfile(constraints, new)
=============================================================================
