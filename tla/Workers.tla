------------------------------- MODULE Workers -------------------------------
(***************************************************************************)
(* The worker controller of one shoot: the generic actuator applies the    *)
(* machine classes and machine deployments that the vSphere delegate       *)
(* generates from the worker pools, and the machine controller manager     *)
(* (MCM) turns them into machines. Users change the pools, operators drop  *)
(* machine images, machine types and zones, and a reconciliation can fail  *)
(* at each step.                                                           *)
(*                                                                         *)
(* A deployment is named after its pool and the position of its zone, and  *)
(* a machine class after its deployment and a hash of what makes machines  *)
(* different: the image, here, but not the zone.                           *)
(***************************************************************************)
EXTENDS MachineSizes, SequencesExt, FiniteSets, TLC

CONSTANTS
  PoolName,     \* names of worker pools
  Zone, Image,
  Types,        \* the machine types of the cloud profile: name -> MachineType
  Scenarios,    \* lists of worker pools that users choose from, and a bound on
                \* the changes they and operators make there
  MaxFailures   \* bound on the failed calls and restarts

\* The lists of worker pools a shoot can have.
Specs == UNION {s.specs : s \in Scenarios}

ASSUME SpecsAssumption ==
  \A s \in Specs : /\ DOMAIN s \subseteq PoolName
                   /\ \A p \in DOMAIN s : /\ s[p].image \in Image
                                          /\ s[p].type \in DOMAIN Types
                                          /\ {s[p].minimum, s[p].maximum} \subseteq Nat
                                          /\ s[p].surge \in IntOrPercent
                                          /\ s[p].unavailable \in IntOrPercent
                                          /\ s[p].zones \in Seq(Zone)
ASSUME TypesAssumption == \A t \in DOMAIN Types : Types[t] \in MachineType
ASSUME BoundsAssumption ==
  (\A s \in Scenarios : s.changes \in Nat) /\ MaxFailures \in Nat

VARIABLES
  spec,         \* worker pools: name -> [image, type, zones, and the numbers]
  catalog,      \* machine images of the cloud profile, global and of the region
  types,        \* machine types of the cloud profile, by name
  zoneConfigs,  \* zones with a config in the infrastructure status
  deleting, gone, \* the Worker has a deletion timestamp; its finalizer is removed
  changes, failures,
  readded,      \* history: pools added again before their deployments were gone
  recorded,     \* history: the pools whose images were last put in the status
  statusImages, \* images in the provider status of the Worker
  pc, seen,     \* next step of the controller, and the pools it works with
  listed,       \* the unwanted deployments it found when it began
  classes,      \* machine classes: name -> zone
  deployments,  \* machine deployments: name -> [image, zone, numbers, deleting]
  machines      \* machines: [of, image, zone]

confVars == <<spec, catalog, types, zoneConfigs, deleting, changes, readded>>
objects == <<classes, deployments, machines>>
vars == <<confVars, gone, failures, recorded, statusImages, pc, seen, listed, objects>>

NoPools == <<>>

\* Mutant: the maximum is rounded up for each zone.
Numbers_Up(pool, k) ==
  LET n == Len(pool.zones) IN
  [minimum |-> DistributeOverZones(k, pool.minimum, n),
   maximum |-> CeilDiv(pool.maximum, n),
   surge |-> DistributePositiveIntOrPercent(k, pool.surge, n, pool.maximum),
   unavailable |-> DistributePositiveIntOrPercent(k, pool.unavailable, n, pool.minimum)]

\* The share that the k-th zone has of the numbers of its pool.
Numbers(pool, k) ==
  LET n == Len(pool.zones) IN
  [minimum |-> DistributeOverZones(k, pool.minimum, n),
   maximum |-> DistributeOverZones(k, pool.maximum, n),
   surge |-> DistributePositiveIntOrPercent(k, pool.surge, n, pool.maximum),
   unavailable |-> DistributePositiveIntOrPercent(k, pool.unavailable, n, pool.minimum)]

\* What generateMachineConfig makes of the pools.
Wanted(s) ==
  UNION {{[name |-> [pool |-> p, index |-> k], image |-> s[p].image, zone |-> s[p].zones[k],
           numbers |-> Numbers(s[p], k)]
            : k \in DOMAIN s[p].zones} : p \in DOMAIN s}

NamesOf(ws) == {w.name : w \in ws}
ClassName(w) == [of |-> w.name, image |-> w.image]
WantedAs(ws, name) == CHOOSE w \in ws : w.name = name

\* Mutant: the images of the last reconciliation are not looked up.
FindMachineImage_Profile(image) == image \in catalog

FindMachineImage(image) == image \in catalog \union statusImages

ZonesKnown == \A p \in DOMAIN spec : ToSet(spec[p].zones) \subseteq zoneConfigs

\* The machine type is looked up in the cloud profile alone, unlike the image.
TypesKnown == \A p \in DOMAIN spec : spec[p].type \in types /\ Usable(Types[spec[p].type])

Generates ==
  ZonesKnown /\ TypesKnown /\ \A p \in DOMAIN spec : FindMachineImage(spec[p].image)

\* ValidateWorkers.
ValidWorkers(s) ==
  \A p \in DOMAIN s : s[p].zones # <<>> /\ IsInjective(s[p].zones)

Init ==
  /\ spec \in Specs /\ ValidWorkers(spec)
  /\ catalog = Image /\ types = DOMAIN Types /\ zoneConfigs = Zone
  /\ deleting = FALSE /\ gone = FALSE /\ changes = 0 /\ failures = 0
  /\ readded = {} /\ recorded = NoPools /\ statusImages = {}
  /\ pc = "idle" /\ seen = NoPools /\ listed = {}
  /\ classes = <<>> /\ deployments = <<>> /\ machines = {}

-----------------------------------------------------------------------------
\* Users and operators.

Changed ==
  /\ \E s \in Scenarios : {spec, spec'} \subseteq s.specs /\ changes < s.changes
  /\ changes' = changes + 1
  /\ UNCHANGED <<gone, failures, recorded, statusImages, pc, seen, listed, objects>>

\* ValidateWorkersUpdate: the zones of a pool are only added to, at the end.
\* Mutant: the zones are compared as sets.
ValidWorkersUpdate_AnyOrder(old, new) ==
  \A p \in DOMAIN new \intersect DOMAIN old :
    ToSet(old[p].zones) \subseteq ToSet(new[p].zones)

ValidWorkersUpdate(old, new) ==
  \A p \in DOMAIN new \intersect DOMAIN old : IsPrefix(old[p].zones, new[p].zones)

\* An image or machine type that a pool is changed to is in the cloud profile.
Offered(old, new) ==
  \A p \in DOMAIN new :
    /\ new[p].image \in catalog \/ (p \in DOMAIN old /\ new[p].image = old[p].image)
    /\ new[p].type \in types \/ (p \in DOMAIN old /\ new[p].type = old[p].type)

\* Pools that the objects in the cluster still know.
Known == {d.pool : d \in DOMAIN deployments} \union
         (IF pc = "idle" THEN {} ELSE DOMAIN seen)

UpdateShoot ==
  /\ ~deleting
  /\ \E new \in Specs \ {spec} :
       /\ ValidWorkers(new) /\ ValidWorkersUpdate(spec, new) /\ Offered(spec, new)
       /\ spec' = new
       /\ readded' = readded \union ((DOMAIN new \ DOMAIN spec) \intersect Known)
  /\ UNCHANGED <<catalog, types, zoneConfigs, deleting>>
  /\ Changed

DropImage ==
  /\ \E image \in catalog : catalog' = catalog \ {image}
  /\ UNCHANGED <<spec, types, zoneConfigs, deleting, readded>>
  /\ Changed

DropMachineType ==
  /\ \E t \in types : types' = types \ {t}
  /\ UNCHANGED <<spec, catalog, zoneConfigs, deleting, readded>>
  /\ Changed

DropZone ==
  /\ \E zone \in zoneConfigs : zoneConfigs' = zoneConfigs \ {zone}
  /\ UNCHANGED <<spec, catalog, types, deleting, readded>>
  /\ Changed

DeleteWorker ==
  /\ ~deleting /\ deleting' = TRUE
  /\ UNCHANGED <<spec, catalog, types, zoneConfigs, readded, changes,
                 gone, failures, recorded, statusImages, pc, seen, listed, objects>>
-----------------------------------------------------------------------------
\* The controller.

\* What a worker delegate keeps for one reconciliation: the pools as they are when
\* it begins, from which everything is generated once.
WorkerDelegate == spec

\* Mutant: the deployments are kept by the name of their pool.
Unwanted_Pools(s) == {d \in DOMAIN deployments : d.pool \notin DOMAIN s}

Unwanted(s) == DOMAIN deployments \ NamesOf(Wanted(s))

Begin ==
  /\ pc = "idle" /\ ~gone /\ Generates
  /\ seen' = WorkerDelegate
  /\ listed' = IF deleting THEN {} ELSE Unwanted(spec)
  /\ pc' = IF deleting THEN "redeploy" ELSE "classes"
  /\ UNCHANGED <<confVars, gone, failures, recorded, statusImages, objects>>

ClassesOf(ws) ==
  [c \in {ClassName(w) : w \in ws} |-> WantedAs(ws, c.of).zone]

\* A call on some of the objects fails after others have been written.
Proceed(step, all) ==
  IF all THEN pc' = step /\ UNCHANGED failures
  ELSE pc' = "idle" /\ failures < MaxFailures /\ failures' = failures + 1

\* Objects are created, or updated where there is one of that name.
Write(new, old) ==
  [name \in DOMAIN new \union DOMAIN old |->
     IF name \in DOMAIN new THEN new[name] ELSE old[name]]

\* Mutant: classes that are not wanted any more are dropped at once.
DeployClasses_Replace(ws) == classes' = ClassesOf(ws)

DeployClasses(ws) == classes' = Write(ClassesOf(ws), classes)

DeployMachineClasses ==
  /\ pc \in {"classes", "redeploy"}
  /\ \E ws \in SUBSET Wanted(seen) :
       /\ DeployClasses(ws)
       /\ Proceed(IF pc = "classes" THEN "images" ELSE "deleteDeployments", ws = Wanted(seen))
  /\ UNCHANGED <<confVars, gone, recorded, statusImages, seen, listed, deployments, machines>>

\* Mutant: only images found in the cloud profile are appended.
UsedImages_Profile(s) == {s[p].image : p \in DOMAIN s} \intersect catalog

UsedImages(s) == {s[p].image : p \in DOMAIN s}

UpdateWorkerProviderStatus(images) == statusImages' = images

UpdateMachineImagesStatus ==
  /\ pc = "images"
  /\ UpdateWorkerProviderStatus(UsedImages(seen))
  /\ recorded' = seen
  /\ pc' = "deployments"
  /\ UNCHANGED <<confVars, gone, failures, seen, listed, objects>>

\* A deployment that is being deleted stays so when it is written.
DeploymentsOf(ws) ==
  [d \in NamesOf(ws) |->
     [image |-> WantedAs(ws, d).image, zone |-> WantedAs(ws, d).zone,
      numbers |-> WantedAs(ws, d).numbers,
      deleting |-> d \in DOMAIN deployments /\ deployments[d].deleting]]

DeployMachineDeployments ==
  /\ pc = "deployments"
  /\ \E ws \in SUBSET Wanted(seen) :
       /\ deployments' = Write(DeploymentsOf(ws), deployments)
       /\ Proceed("wait", ws = Wanted(seen))
  /\ UNCHANGED <<confVars, gone, recorded, statusImages, seen, listed, classes, machines>>

MachinesOf(d) == {m \in machines : m.of = d}

\* All machines of the wanted deployments are of the new class.
Available ==
  \A w \in Wanted(seen) :
    /\ w.name \in DOMAIN deployments
    /\ {m.image : m \in MachinesOf(w.name)} = {w.image}

WaitUntilAvailable ==
  /\ pc = "wait" /\ Available
  /\ pc' = "cleanup"
  /\ UNCHANGED <<confVars, gone, failures, recorded, statusImages, seen, listed, objects>>

Mark(ds) ==
  deployments' = [d \in DOMAIN deployments |->
                    [deployments[d] EXCEPT !.deleting = @ \/ d \in ds]]

\* The deployments listed at the beginning are deleted one by one. One that the
\* MCM has removed since then is not found, and the reconciliation fails.
CleanupDeployments ==
  /\ pc = "cleanup"
  /\ \E ds \in SUBSET (listed \intersect DOMAIN deployments) :
       /\ Mark(ds)
       /\ \/ /\ listed \subseteq DOMAIN deployments
             /\ Proceed("cleanupClasses", ds = listed)
          \/ /\ ~(listed \subseteq DOMAIN deployments)
             /\ pc' = "idle" /\ UNCHANGED failures
  /\ UNCHANGED <<confVars, gone, recorded, statusImages, seen, listed, classes, machines>>

\* A class is taken for gone when it is deleted: the finalizer by which the MCM
\* keeps it while machines use it is left out.
CleanupClasses ==
  /\ pc = "cleanupClasses"
  /\ LET old == DOMAIN classes \ {ClassName(w) : w \in Wanted(seen)} IN
     \E cs \in SUBSET old :
       /\ classes' = [c \in DOMAIN classes \ cs |-> classes[c]]
       /\ Proceed("waitUnwanted", cs = old)
  /\ UNCHANGED <<confVars, gone, recorded, statusImages, seen, listed, deployments, machines>>

WaitUntilUnwantedDeleted ==
  /\ pc = "waitUnwanted" /\ Unwanted(seen) = {}
  /\ pc' = "idle"
  /\ UNCHANGED <<confVars, gone, failures, recorded, statusImages, seen, listed, objects>>

DeleteDeployments ==
  /\ pc = "deleteDeployments"
  /\ Mark(DOMAIN deployments)
  /\ pc' = "deleteClasses"
  /\ UNCHANGED <<confVars, gone, failures, recorded, statusImages, seen, listed,
                 classes, machines>>

DeleteClasses ==
  /\ pc = "deleteClasses"
  /\ classes' = <<>>
  /\ pc' = "waitDeleted"
  /\ UNCHANGED <<confVars, gone, failures, recorded, statusImages, seen, listed,
                 deployments, machines>>

AllDeleted == machines = {} /\ DOMAIN deployments = {} /\ DOMAIN classes = {}

WaitUntilDeleted ==
  /\ pc = "waitDeleted" /\ AllDeleted
  /\ gone' = TRUE /\ pc' = "idle"
  /\ UNCHANGED <<confVars, failures, recorded, statusImages, seen, listed, objects>>

\* A wait ends with an error after five minutes.
Timeout ==
  /\ \/ pc = "wait" /\ ~Available
     \/ pc = "waitUnwanted" /\ Unwanted(seen) # {}
     \/ pc = "waitDeleted" /\ ~AllDeleted
  /\ pc' = "idle"
  /\ UNCHANGED <<confVars, gone, failures, recorded, statusImages, seen, listed, objects>>

\* A call fails, or the process is restarted.
Fail ==
  /\ pc # "idle" /\ failures < MaxFailures
  /\ failures' = failures + 1 /\ pc' = "idle"
  /\ UNCHANGED <<confVars, gone, recorded, statusImages, seen, listed, objects>>

-----------------------------------------------------------------------------
\* The machine controller manager: one machine per deployment, and a machine of
\* the new class before the old one is given up.

CreateMachine ==
  /\ \E d \in DOMAIN deployments :
       LET c == [of |-> d, image |-> deployments[d].image] IN
       /\ ~deployments[d].deleting /\ c \in DOMAIN classes
       /\ \A m \in MachinesOf(d) : m.image # c.image
       /\ machines' = machines \union {[of |-> d, image |-> c.image, zone |-> classes[c]]}
  /\ UNCHANGED <<confVars, gone, failures, recorded, statusImages, pc, seen, listed,
                 classes, deployments>>

RetireMachine ==
  /\ \E m \in machines :
       /\ \/ deployments[m.of].deleting
          \/ /\ m.image # deployments[m.of].image
             /\ \E n \in MachinesOf(m.of) : n.image = deployments[m.of].image
       /\ machines' = machines \ {m}
  /\ UNCHANGED <<confVars, gone, failures, recorded, statusImages, pc, seen, listed,
                 classes, deployments>>

RemoveDeployment ==
  /\ \E d \in DOMAIN deployments :
       /\ deployments[d].deleting /\ MachinesOf(d) = {}
       /\ deployments' = [e \in DOMAIN deployments \ {d} |-> deployments[e]]
  /\ UNCHANGED <<confVars, gone, failures, recorded, statusImages, pc, seen, listed,
                 classes, machines>>

Environment == UpdateShoot \/ DropImage \/ DropMachineType \/ DropZone \/ DeleteWorker

Controller ==
  \/ Begin \/ DeployMachineClasses \/ UpdateMachineImagesStatus
  \/ DeployMachineDeployments \/ WaitUntilAvailable \/ CleanupDeployments
  \/ CleanupClasses \/ WaitUntilUnwantedDeleted
  \/ DeleteDeployments \/ DeleteClasses \/ WaitUntilDeleted
  \/ Timeout

MCM == CreateMachine \/ RetireMachine \/ RemoveDeployment

Next == Environment \/ Controller \/ Fail \/ MCM

Spec == Init /\ [][Next]_vars

\* Reconciliations are repeated, and the MCM acts on what it finds.
FairSpec == Spec /\ WF_vars(Controller) /\ WF_vars(MCM)

-----------------------------------------------------------------------------
\* Properties.

\* A machine is in the zone of its deployment, by whose labels volumes and pods
\* are placed: names go by the position of the zone, and adding zones at the end
\* keeps positions, whatever reconciliation fails in between. The exception are
\* pools removed and added again, with other zones, before the cluster forgot them.
MachinesAreInTheirZone ==
  \A m \in machines :
    m.zone = deployments[m.of].zone \/ m.of.pool \in readded

\* Every deployment that is to have machines refers to a machine class that
\* exists, after any failed step: classes are written before deployments and
\* dropped after them.
ClassesOfDeploymentsExist ==
  \A d \in DOMAIN deployments :
    ~deployments[d].deleting => [of |-> d, image |-> deployments[d].image] \in DOMAIN classes

\* Once a reconciliation has written all deployments, the zones of a pool together
\* have the pool's minimum and maximum, also those zones that were written with
\* other numbers by an earlier reconciliation, and differ by one at most. So do
\* surge and unavailability, where they are numbers of machines. A zone that may
\* have machines can replace them one after the other whatever its share, when
\* the pool's surge is a percentage above zero or one machine per zone at least.
CapacityKept ==
  pc \in {"wait", "cleanup", "cleanupClasses", "waitUnwanted"} =>
    \A p \in DOMAIN seen \ readded :
      LET Share(k) == deployments[[pool |-> p, index |-> k]].numbers
          zones == DOMAIN seen[p].zones IN
      /\ MapThenSumSet(LAMBDA k : Share(k).minimum, zones) = seen[p].minimum
      /\ MapThenSumSet(LAMBDA k : Share(k).maximum, zones) = seen[p].maximum
      /\ \A k, l \in zones : Share(k).maximum <= Share(l).maximum + 1
      /\ ~seen[p].surge.percent =>
           MapThenSumSet(LAMBDA k : Share(k).surge.value, zones) = seen[p].surge.value
      /\ ~seen[p].unavailable.percent =>
           MapThenSumSet(LAMBDA k : Share(k).unavailable.value, zones) = seen[p].unavailable.value
      /\ \A k \in zones :
           /\ Share(k).maximum > 0
           /\ seen[p].surge.value >= IF seen[p].surge.percent THEN 1 ELSE Len(seen[p].zones)
           => Share(k).surge.value + Share(k).unavailable.value > 0

\* Once the images of the pools are in the status of the Worker, the pools can
\* be reconciled even if the cloud profile drops the images, for as long as the
\* pools are not changed.
ImagesStayKnown ==
  recorded = spec => \A p \in DOMAIN spec : FindMachineImage(spec[p].image)

\* When nothing changes any more and the machines can be generated, the machines
\* and deployments end up being those of the worker pools, none is left over.
Converges ==
  <>[](Generates /\ ~deleting) =>
    <>[]( /\ {[of |-> m.of, image |-> m.image] : m \in machines}
               = {ClassName(w) : w \in Wanted(spec)}
          /\ DOMAIN deployments = NamesOf(Wanted(spec)) )

\* The images of the pools are in the status, and no reconciliation is under way
\* that began with other pools and will still write the images of those.
ImagesSettled ==
  recorded = spec /\ (pc \in {"classes", "images"} => seen = spec)

\* A Worker whose images are in its status to stay can be deleted to the end,
\* whatever became of the images in the cloud profile, as long as its zones and
\* machine types are known. If the pools were changed and changed back during a
\* reconciliation, that one still takes images out of the status: then a deletion
\* can hang on an image that has been dropped.
DeletionEnds ==
  <>[](ZonesKnown /\ TypesKnown) => ((deleting /\ ImagesSettled) ~> gone)
=============================================================================
