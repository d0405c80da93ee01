# TLA+ models of gardener-extension-provider-vsphere

The extension turns Gardener's resources for a shoot cluster (`Infrastructure`,
`Worker`, `ControlPlane`, ...) into objects in NSX-T and vSphere. This directory
holds TLA+ models of the parts of it in which order, failure and concurrency
matter, configurations that check them with TLC, and proofs for TLAPS.

## The system and its parts

| Part | Code | State it keeps | Operations |
|---|---|---|---|
| NSX-T ensurer | `pkg/vsphere/infrastructure/ensurer/ensurer.go`, `.../task/*.go` | `NSXTInfraState` (references to what was created), in memory | `EnsureInfrastructure`, `EnsureInfrastructureDeleted`; per task `tryRecover`, `Ensure`, `EnsureDeleted` |
| Infrastructure actuator | `pkg/controller/infrastructure/actuator*.go`, driven by the vendored `extensions/pkg/controller/infrastructure/reconciler.go` | `status.providerStatus` (`creationStarted`, `nsxtInfraState`), `status.lastOperation`, finalizer | `Reconcile`, `Delete`, `Restore` (= `Reconcile`), `Migrate` (nothing) |
| Load balancer cleanup | `pkg/cmd/infra-cli/loadbalancer/destroy.go` | none | `DestroyAll`, before the deletion |
| infra-cli | `pkg/cmd/infra-cli`, `cmd/infra-cli` | a state file and its backup | `create`, `destroy`, `destroy-loadbalancers`; creating, deleting and tagging IP pools; configuration from a cloud profile |
| Worker | `pkg/controller/worker` | `WorkerStatus.machineImages` | machine deployments and classes per pool and zone |
| Control plane | `pkg/controller/controlplane` | none | chart values; load balancer classes |
| Webhooks | `pkg/webhook` | none | mutation of control plane and shoot objects |
| Validation | `pkg/validator`, `pkg/apis/vsphere/validation` | none | admission of shoots, cloud profiles, secrets |
| Helpers, credentials | `pkg/apis/vsphere/helper`, `pkg/vsphere/credentials.go` | none | look-ups, choice of the user per component |
| Health checks, set-up, types | `pkg/controller/healthcheck`, `cmd/provider-vsphere`, `pkg/apis` | none | registration, data types, generated code |

How they interact: the reconciler of the extension library calls the actuator
with the `Infrastructure` resource; the actuator reads the cloud profile and the
credentials, decodes the persisted state, and calls the ensurer, which runs its
tasks one after the other against the NSX-T manager over HTTP. Each task changes
the state in memory. The actuator persists the state **once, at the end**,
whether or not the tasks succeeded. `Worker` and `ControlPlane` read the
persisted infrastructure status (segment name, gateway path, zones).

What is hard: any call to NSX-T can fail, time out, or succeed while its answer
is lost; the process can crash between two calls, and then only the Kubernetes
resource and NSX-T are left; status writes fail; the configuration changes
between reconciliations; others delete objects; a gateway and IP pools are shared
with other shoots. The means against all this are the early write of
`creationStarted`, the search for objects by their tags (`tryRecover`), the
comparison of each object with what it should be, and the reverse order of
deletion. The correctness of the ensurer is the question whether these suffice:

* no object is created twice, none is left behind by a successful deletion, none
  gets out of reach;
* a success means that everything exists, refers to each other correctly and
  matches the configuration;
* what belongs to others is never touched;
* reconciliation converges and deletion ends.

The worker controller and the control plane controller are delegates of generic
actuators in the vendored extension library. For the worker controller the hard part
is that deployments and machine classes are written one by one, by reconciliations that
fail or time out half-way, while users change pools, operators drop images and
zones, and the machine controller manager (MCM) rolls machines. To be correct,

* machines are in the zone that their deployment names, and its class exists;
* an image gone from the cloud profile stays available to the pools that use it;
* machines end up being those of the pools, and a deletion ends.

For the control plane it is that each step of a reconciliation reads the cloud
profile, credentials and tags of its own moment, and that processes read their
configuration only when their pod starts:

* load balancers get addresses only from pools the shoot is authorized for;
* the default class does not change, whatever updates are admitted;
* processes end up with the configuration they were given.

For the other parts:

* infra-cli drives the same ensurer from a state file, and may be killed at any step: a create or
  destroy that ends well has done all it should, and no record of an object that is still there is lost;
* lists of NSX-T come in pages while objects come and go: a search must find what is there;
* webhooks see an object again and again, with other webhooks, a changing cloud profile and
  stored objects in between: they must be idempotent, keep what others wrote and follow the profile;
* admission checks a shoot, its update or its secret before any of them is stored, and nothing
  checks a cloud profile: what was let in must be reconcilable, and what the infrastructure
  was built from must not change; all clients made from one configuration should connect alike.

## The modules

| Module | What it is |
|---|---|
| `NSXTTasks` | the tasks, their order (`getTasks`), and the references each is built from |
| `NSXT` | the NSX-T manager, as far as the tasks can tell: a set of objects |
| `NSXTEnsurer` | the operations of one task: `tryRecover`, `Ensure`, `EnsureDeleted`, with every failure |
| `EnsurerRun` | what comes after a task and its result: the loops of `EnsureInfrastructure` and `EnsureInfrastructureDeleted` |
| `Infrastructure` | the specification: reconciler, actuator and ensurer as one process, the persisted resource, the environment |
| `InfrastructureProps` | its properties |
| `Lifecycle` | the abstract specification: which kinds of objects exist and when that may change |
| `InfraCLI` | the command line tool around the same ensurer: commands, state file and backup; with its properties |
| `Listing` | pure: one page of `LookupIPPoolIDByName`, of `reflectTryRecover` and of the lists of which only one page is read |
| `IPPools` | the searches of a controller over pages, against operators and other shoots; with its properties |
| `PoolTags` | pure: the authorization of a shoot by the tags of an object |
| `LoadBalancerClasses` | pure: `OverwriteLoadBalancerClasses`, and which updates of a control plane configuration the webhook admits |
| `ControlPlane` | the control plane reconciliation, its charts and pods, operators and users; with its properties |
| `MachineSizes` | pure: the distribution of a pool's numbers over its zones, and usable machine types |
| `Workers` | the worker reconciliation and deletion, the MCM, operators and users; with its properties |
| `Webhooks` | the mutations of the three webhooks, on objects that are rewritten, touched and deleted; with its properties |
| `CloudProfiles` | pure: validation of a cloud profile's config, the placement of zones, overrides of regions |
| `Subnets` | pure: `cidrHost`, `cidrSubnetMask` and the addresses of `newDHCPConfig`, byte by byte |
| `Connections` | pure: the three clients made from one NSX-T configuration, and what makes NSX-T refuse them |
| `Admission` | shoot and secret webhooks, gardenlet's copy, `prepareReconcile` and `BuildConfigFile` |
| `AdmissionProps` | its properties, with the history they need |
| `MCInfrastructure`, `MCInfraCLI`, `MCControlPlane`, `MCWorkers`, `MCWebhooks`, `MCAdmission` | instances for TLC |
| `Ensurer_proofs` | lemmas about the tasks: what each operation does to objects and references, for controller and tool alike |
| `Infrastructure_proofs`, `InfraCLI_proofs` | theorems and proofs about the controller and about the tool, on top of `Ensurer_proofs` |
| `ControlPlane_proofs`, `Workers_proofs`, `IPPools_proofs`, `Admission_proofs`, `Webhooks_proofs` | theorems and proofs about the others |

`NSXTTasks` <- `NSXT` <- `NSXTEnsurer` <- `EnsurerRun` extend one another; `Infrastructure` and
`InfraCLI` both extend `EnsurerRun`, as controller and tool both call the ensurer.
`InfrastructureProps` extends `Infrastructure` and instantiates `Lifecycle`. `ControlPlane` extends
`LoadBalancerClasses` and `PoolTags`, `Workers` extends `MachineSizes`, `IPPools` extends `Listing`,
`Admission` extends `CloudProfiles`, `Subnets` and `Connections`. What `Workers` sees of the
infrastructure is the set `zoneConfigs` of zones in its status.

### How state and actions correspond to the code

* A **task** is a name such as `"seg"`. `TasksOf` is the list of `getTasks` for the version
  in the state, `Tasks` that for the version `NSXT3` of the manager, which is determined if none is
  fixed; the lookup tasks are part of it, because they run on every pass and fail like the others.
* The search by tags goes through all pages (`reflectTryRecover`), except for the objects of the
  Advanced API, of which the tasks list one page only. `Recoverable` finds every tagged object; that
  one lies on a later page is a search that fails, the fault `list`, and excluded like it.
* A **reference** (`api.Reference`, or an id) is a natural number, `Nil` = 0 the
  nil pointer. `mem` is the `NSXTInfraState` in memory, `saved` the one in
  `providerStatus`; `hasState` says whether there is one. A looked-up name (tier-0
  gateway, transport zone, ...) is a number too: the reference found under the name
  is the name. An address of the SNAT pool is the id of its allocation, a logical
  switch the id of its segment.
* An **object** in NSX-T has a kind, an id, a parent (the path it lives under), the
  owner its tags name, and attributes: the inputs and references that `Ensure`
  compares and writes. `Acceptable` and `Referenced` are what NSX-T checks:
  no object with dangling paths, no deletion of an object others are built on. The
  address in an SNAT rule is plain text, so it is not tracked (`Tracked`).
* `RecoverTask`, `EnsureTask` are one turn each of the loop in
  `EnsureInfrastructure`; `RecoverBeforeDelete`, `DeleteTask` of the two loops in
  `EnsureInfrastructureDeleted`. A crash can happen between any two of them.
  A call inside `Ensure` that reads (Get) and the call that writes are one
  step: nobody else writes the shoot's objects in between, and a crash in between has
  the effect of a crash before the step.
* `StartFirstReconcile` is the reconciliation with `creationStarted` not yet
  true: it checks the connection and persists the outcome. `SaveStatus` is
  `updateProviderStatus` at the end, for both directions, together with the outcome
  the reconciler records.
* The locale service follows the code in two peculiarities: it is addressed by
  its own reference, which is the id of its gateway; and if it is missing, its
  task clears the gateway's reference and calls itself (`RecurseLocaleService`).
* Results are `"ok"`, `"err"` and `"panic"`; a panic ends the process (`Restart`).

In `ControlPlane`

* a step of a reconciliation (`ApplyConfigChart`, `ComputeChecksums`,
  `ApplyControlPlaneChart`, `ApplyShootChart`) is one block of `reconcileControlPlane`. The cloud
  profile and the shoot are those of the `Cluster` resource read at the beginning (`seen`);
  credentials and tags are read by each step. `Fail` and `FailInControlPlaneChart` end a
  reconciliation between the steps, or between the chart's secret and its deployments;
* the settings of a region and the credentials are version numbers, a checksum is what it is
  a checksum of, and a Deployment is its pod annotations and what its pod has read.
  `Deploy` starts the pod again exactly if the annotations change;
* a load balancer class is its name and IP pool. `CloudProviderSecret`, which is `None`, is
  the Secret whose checksum is taken although nothing creates it;
* a tag value is the list of its parts between commas, a part the set of names its wildcards
  match; a pool has a list of tags in which a scope can come twice, and the last one counts;
* `UpdateShoot` is guarded by what the admission webhook accepts.

In `Workers`

* a machine deployment is named by pool and position of the zone, a machine class by that
  and the hash of the pool, of which the image stands for everything hashed;
* a deployment carries the share of minimum, maximum, surge and unavailability that
  `MachineSizes` gives its zone; machine types are CPUs, memory and disk, cut to MiB and GiB as
  `extractMachineValues` does, and the MCM itself keeps one machine whatever the numbers are;
* a reconciliation generates everything when it begins (`Begin`); then each stage of
  `Reconcile` and `Delete` is a step. Stages that write several objects may stop after any
  subset of them (`Proceed`). Waits end by what they wait for or by a timeout;
* the MCM keeps one machine per deployment: it creates one of the new class before it
  gives up the old one, and removes a deployment when its machines are gone;
* `UpdateShoot` is guarded by `ValidateWorkers` and `ValidateWorkersUpdate` (zones are only
  appended) and by Gardener's own rule that a pool only changes to an image on offer. A
  worker pool that is removed and added again is not compared with its former self.

In `InfraCLI`, a command is a process: `StartCreate` and `StartDestroy` read the file (create
does not) and choose the version of the tasks: a create takes it from `--stateVersion` (a member of
`StateVersions`) or determines it, a destroy takes it from the file or, given the spec alone,
determines it. The tasks are those of `NSXTEnsurer` without a shoot context, and `RenameFile` and
`WriteFile` are the two steps of `saveFile`. `Init` covers nothing built, or everything built by the
controller, with the determined version or one that the shoot's annotation has fixed, with its state
exported to the file or not, with a load balancer attached or not.

In `IPPools`, a search is a record of the next cursor, the total of the first page and the
number of objects seen; a page is one step, a step of an operator or another shoot can come
between two. Creating and deleting a pool are the calls of `createIPPool` and `deleteIPPool` one by
one; a deletion that does not see the pool on the first page ends without an error. The ids of allocations are random and so is their place in the list.

In `Webhooks`, an object is what its webhook reads and writes of it: labels, container names,
flags and their values, files, units. `appendUniqueFile` is the code's loop over the files, as a
recursive function. An API write goes through our webhook and another
extension's in either order, and again if that one changed the object. `Mutate` is the
identity for kinds no `add.go` registers. The helpers `Ensure...` and `AppendUniqueUnit` and the order in
which an operating system config is mutated are those of the vendored extension library. A mutation that
panics, for a profile without a provider config, is a write that the API server rejects, as the
registration's failure policy says.

In `Admission`, a scenario (`World`) fixes the profiles, secrets and shoots that may occur. A shoot
is admitted (`RequestShoot`) and stored (`StoreShoot`) in two steps, the webhook's cache catches
up later (`CacheCatchesUp`), and `Sync` is gardenlet's copy to the seed, from which `Reconcile` makes
the status, also when the tasks fail. `Account` is the set of pairs of name and password, `Rejected`
those that NSX-T turns away, which `createConnector` finds out by a call; `BuildConfigFile` reads not the
shoot's secret but that of the only binding in the garden with the profile's label (`world.garden`).
A client is its host, whose certificates it takes (any, those of a file, those of the system) and how it
proves who it is. Strings behind pointers are `"nil"`, `""` or a name; a network is four bytes and a prefix.

### The NSX-T manager and faults are assumptions

`NSXT` and the faults are not code of this repository; they are modelled from how
the code uses them. `Faults` names the kinds of fault of a run, `MaxFaults` bounds
how many occur in a behaviour; every kind is a disjunct of the operation it befalls:

| Fault | Effect |
|---|---|
| `lookup`, `list`, `get`, `write`, `delete` | the call fails and changes nothing |
| `lost`, `deleteLost` | the call is carried out and its answer is lost |
| `unrealized` | the address is not realized in time |
| `connect`, `version` | `CheckConnection`, `NewStateWithVersion` fail |
| `status`, `statusLost` | the status update fails; it is written but the answer is lost |
| `finalizer` | removing the finalizer fails |
| `crash` | the process stops; what is in memory is lost |
| `loss` | someone deletes objects of the shoot (kinds in `Losable`) while the controller is idle |
| `inputs`, `credentials` | the configuration (`Changeable`) changes; the credentials stop working |
| `lb` | a load balancer is attached to the gateway; its cleanup fails |

`DeleteReportsMissing` says whether the policy API answers the deletion of a missing
object with NotFound, which its client declares.

## What is checked

| Run | Instance | Properties |
|---|---|---|
| `Recovery` | NSX-T 3, three faults of any kind but failing searches and look-ups | `NoDuplicates`, `StartedBeforeCreated`, `NothingLeftBehind`; `Promise`: the controller implements `Lifecycle`; `Converges`, `DeletionEnds`, `DeletableWithoutCredentials` |
| `Shared` | NSX-T 2.5, below a gateway of another shoot, three faults | `OthersUntouched`, `NothingLeftBehind` |
| `Changes` | NSX-T 3, three faults, among them failing look-ups, changes of tier-0 gateway, edge cluster and network options, and losses of DHCP configuration, segment, allocation and rule | `SuccessMeansComplete`, `NoOrphans`, `Converges` |
| `InfraCLI` | NSX-T 3, with its version of the tasks or that of 2.5 in some commands or fixed by the shoot, three commands, two faults, killed at any step | `NoDuplicates`, `CreateIsComplete`, `DestroyIsComplete`, `DestroyForgetsNothing` |
| `IPPools` | pages of one object, three pools, two operators, two commands, one allocation of another shoot | `SearchFinds`, `SearchEnds`, `HalfPoolsAreReported` |
| `ControlPlane` | two classes and two pools, five profiles, four configurations, two lists of tags, two changes and a failure | `OnlyAllowedPools`, `NamedDefaultIsImmutable`, `RotationReachesCSI`, `CSICatchesUp` |
| `Workers` | two pools, zones and images, five specifications and two changes, or a pool that goes between two images and seven changes; a failure; timeouts without bound | `MachinesAreInTheirZone`, `ClassesOfDeploymentsExist`, `CapacityKept`, `ImagesStayKnown`, `Converges`, `DeletionEnds` |
| `Webhooks` | every kind of object, all profiles over two proxies and two registries | `Idempotent`, `UnitHasScript`, `FollowsProfile`, `KeepsForeign` |
| `Admission` | pairs of profiles that differ in placement or one mistake; all secrets, with accounts that NSX-T rejects; bindings in the garden of all kinds; all prefixes; all kinds of update | `AdmittedReconciles`, `BuiltFromShoot`, `ZonesArePlaced`, `AddressesFit`, `ClientsAlike` |

`Recovery` and `ControlPlane` check a type invariant as well.

Three runs are expected to end in a violation; each shows a behaviour of the code that
contradicts what its comments promise (see `findings` in `PROJECT.json`):

| Run | Violated | How |
|---|---|---|
| `LeakFirst` | `NothingLeftBehindEver` | crash in the first reconciliation, then deletion: there is no state, so nothing is deleted |
| `LocaleService` | `Converges` | the locale service is lost: endless recursion on every attempt |
| `StaleCCM` | `CCMRunsItsConfig` | the configuration changes and is reconciled: the CCM's annotations, and so its pod, stay as they were |

Some of what holds does so under a premise that is part of the statement:

* `MachinesAreInTheirZone` and `CapacityKept` leave out pools that were removed and added again, with
  other zones, before the cluster had forgotten them (`readded`). For them the class
  of the old pool is overwritten under its name and existing machines stay in the old
  zone, while the labels of the deployment, and the volumes placed by them, name the new one.
* `DeletionEnds` of `Workers` needs zones and machine types to be known: the deletion generates all
  machine classes first and fails if it cannot. And it needs the images to have been recorded to stay
  (`ImagesSettled`): no reconciliation that began with other pools is about to write the status. If the pools are
  changed, a reconciliation begins, and they are changed back while it runs, its status update takes the
  old image out of the status; once the profile drops that image, too, a deletion hangs.
* `CapacityKept` says that a zone can roll its machines only for a surge that is a percentage above zero or
  at least one machine per zone. `0%` of surge with no unavailable machines is admitted, and lets no zone
  roll; a surge of one machine in two zones leaves the second without, where the MCM can roll only
  if it takes a machine away first.
* `NamedDefaultIsImmutable` is for profiles with a class called "default", the only ones in
  which the rule that admission applies (a profile with just that class) chooses the same class,
  and in which that name has one pool: a profile may list it twice, and then the
  default depends on which of the two the shoot names. The proof brought this up.
* `ZonesArePlaced` excepts a zone of the profile that names an empty string. Validation takes
  that for not set, while the status prefers it to the region's value. The proof brought this up, too.
* `RotationReachesCSI` speaks of credentials, not of the region's settings: these reach the
  CSI controller one reconciliation later, because the checksum of its secret is taken
  before the secret is written. `CSICatchesUp` says that they do reach it.
* `SearchFinds` is for lists that do not grow: a search stops at the total of the first page.
* `HalfPoolsAreReported` allows a pool without its subnet if a command on it was reported as failed since
  one was completed on it, that is, added the subnet or deleted the pool. A deletion that did not see the
  pool on the first page is not completed in this sense, although it ends without an error: the last command on
  such a pool need not be one that failed.
* `DestroyIsComplete` is for a destroy given the spec only: a stale reference in a state file hides
  the object from the search by tags. It removes what the tasks of its version create, and so everything if
  users leave the version to be determined or fix just that (`DestroyLeavesNothing`, proved under `OneVersion`).
  The spec does not hold the version: a complete infrastructure of the version of 2.5 makes a destroy by spec on
  NSX-T 3 fail, since its DHCP port lies on the segment, but when a destroy by state was killed after it
  deleted the port, the destroy by spec that follows ends without an error and leaves DHCP profile and server.
* `AdmittedReconciles` is about the preparation of a reconciliation. NSX-T can be out of reach, and can turn
  away the account of the secret, which no webhook tries out: a wrong password is admitted. It also excepts
  profiles that are invalid or have lost the region (nothing validates them on admission), networks of less than
  sixteen addresses, and secrets changed while the cache of the webhook did not have the shoot (`raced`).
* `ClientsAlike` says for which configuration files the three clients agree: those with a name and password
  that NSX-T accepts, without certificate or token, which not every client takes, and without a CA file
  unless nothing is verified, for `DestroyAll` does not pass it on. `infra-cli` acts as the shoot's account if the
  secret of the garden's binding has it, and never sets the flag for remote authentication.

### Bounds and why they suffice

One shoot; others are constant, since nothing the controller does depends on
whether they act. Two values per input suffice to tell old from new. The id of
an object is fresh whenever one is created, so `nextId` is bounded by the number of
faults. Three faults are enough for each pair of mechanisms to fail together
(say, an answer is lost, the process crashes, and the status write fails), and every
violation we know of needs at most three. A reconciliation without a fault
ends in the state it started in, so behaviours are bounded by `MaxFaults`.

In `ControlPlane` and `Workers`, `MaxChanges` and `changes` bound changes by users and operators and
`MaxFailures` failing calls and restarts. In `ControlPlane` a change before and one during a
reconciliation, with a failure to repeat it, is the longest chain a property
depends on; in `Workers` each of the `Scenarios` has a bound of its own. The profiles are
one each with no class, a default by position, a default by name in first place, one in second place, and two of that name; the configurations name no pool, an unlisted pool, the
default's pool, and a pool of the other class. One list of tags has the scope of authorized shoots
twice and a part that is no regular expression, the other is of another garden.
In `Workers`, pool `a` changes its image, gets a second zone that has less to distribute, comes with
its zones in the other order, gives way to pool `b` and comes back; any image, machine type and zone
can be dropped below both. Safety there depends on the pools of at most three moments (those of the
objects, those a reconciliation has seen, and those of the specification), which two changes and the
initial pools supply; the proofs do not depend on the bound. `DeletionEnds` depends on more: the pool changed
before a reconciliation and back during it and the image dropped are three changes already, a second
reconciliation of that kind two more. So there is a scenario with seven changes, with a single pool (`c`) and
zone. Without `ImagesSettled`, three of them are enough for TLC to find a deletion that hangs.

In `InfraCLI`, three commands are a create, a destroy that fails and its repetition, with two faults to
interrupt them; more commands start from files and objects that fewer have made already. Its
`StateVersions` let each create, and the controller before, choose between both versions. In
`IPPools`, a page of one object makes every list of two objects one of two pages. `Webhooks` is not
bounded but by its values: two proxies and two sets of registries tell a change from its opposite.
`Admission` has two accounts that are accepted and one that is not, and is bounded by its scenarios,
each of which varies one thing about what is in order.

The restrictions of the runs are themselves statements about the code:

* `list` is in no run of the controller, `lookup` only in `Changes`: a failing search is taken for
  an empty one, so an object whose reference was lost by a crash is created
  twice or left behind; the same if the gateway or pool it lives under is not found.
* `pool` is not in `Changeable` of `Changes`: the allocation is addressed through the
  current pool, not the one it was made in.
* `lost`, `status` and `crash` are not in `Changes`: with the loss of a segment, a crash after it was
  created anew leaves a stale reference that hides it, and it is created once more; `t1`
  and `ls` are not in `Losable` (`LocaleService`).
* `DeleteReportsMissing` is false in `Recovery`: with a manager that answers NotFound, a
  crash after the first deletion makes every later deletion fail. It is true elsewhere: `Shared`
  and `Changes` check no `DeletionEnds`.
* `InfraCLI` has no external gateway: without a shoot context the tool refuses one.
* With NSX-T 2.5, a deletion after a reconciliation that failed before the segment was created
  dereferences nil; in the model the process ends and starts again (`Restart`), so `Shared`
  checks safety only.

### Fairness

`FairSpec` of `Infrastructure` assumes weak fairness of the controller as a whole: the queue of the
controller works on a request until it succeeds (an error requeues it), and the
process is restarted after a crash or panic. It does not assume that faults stop,
other than by `MaxFaults`, nor that anybody repairs the credentials: `Converges` and
`DeletionEnds` have `<>[]credentials` as a premise. A request is taken up again also
after a success, as Gardener does for every reconciliation of the shoot.

`FairSpec` of `ControlPlane` is weak fairness of `Reconcile`: errors are requeued, and every
maintenance reconciles again. That of `Workers` is weak fairness of `Controller`, for the
same reason, and of `MCM`, a control loop of its own. Neither assumes that users stop
changing things; properties say "when nothing changes any more". That of `IPPools` is weak fairness
of `Controller`: a search is a loop in a running process. `InfraCLI`, `Webhooks` and `Admission`
assume none: nobody has to run a command or send a request.

## What is proved

`Infrastructure_proofs`, for every choice of `Faults`, `MaxFaults`, `Losable`,
`Changeable`, `Others`, NSX-T version and gateway:

* `TypeCorrect`: `Spec => []TypeOK`;
* `OthersAreUntouched`: `Spec => []OthersUntouched`;
* `CreationIsAnnounced`: `Spec => []StartedBeforeCreated`.

They follow from the inductive invariant `IInv`. `OthersUntouched` is not
inductive: a step deletes or patches the object a reference leads to, so one
has to know that references never lead to foreign objects. `IInv` says so through
ids: foreign ids are at most `ExtT1Id` (`OthersAssumption`), whatever the shoot owns
(`OwnIds`) or refers to, in memory or in the status (`OwnRefs`), is greater. References are
set by creating (a fresh id) and by recovery (an object with the shoot's tags); the
locale service, whose id is that of its gateway, needs that NSX-T rejects a locale
service without a gateway. `StartedBeforeCreated` needs `ActiveStarted`: while
tasks run, `creationStarted` is set. The lemmas go from the bottom up: writes and
deletes in NSX-T (`PutOwn`, `RemoveOwn`), operations of a task (`CreateInv`,
`UpdateInv`, `EnsureInv`, `RecoverInv`, `DeletedInv`), actions of the controller and
the environment, and `NextIInv`. Those about NSX-T and the tasks are in `Ensurer_proofs`.

The second part of `Infrastructure_proofs`, about the same specification:

* `NothingTwice`: `Spec => []NoDuplicates`;
* `NothingOutOfReach`: `Spec => []NoOrphans`;
* `NothingStays`: `Spec => []NothingLeftBehind`;
* `SuccessIsComplete`: `Spec => SuccessMeansComplete`, an action property;
* `Implements`: `Spec => Promise`, the controller refines `Lifecycle`.

These are about what the search by tags makes up for, so they have hypotheses about the constants,
the ones the runs keep to and that the code needs (see the restrictions of the runs above):

* `SearchWorks`: `"list"` is not in `Faults` and `"pool"` not in `Changeable`. A search that fails is
  taken for an empty one, and an allocation is searched for in the current pool only;
* `NothingForgotten`: either nobody else deletes objects of the shoot, or somebody does, but not a gateway
  or its locale service, and no reference to a new object is lost (no `lost`, `crash`, `status`);
* `LookupsWork`, for deletion and refinement: pool and external gateway are found before a deletion,
  and there is a shoot context for an external gateway.

Any number of all the other faults may occur. The runs `Recovery` and `Changes` are in the first and in the
second of the two cases. The invariant `RInv` relates the objects in NSX-T
to the references in memory and in the status. Every object of the shoot lives where its
task looks for it (`Placed`), and is the only one of its kind (`Unique`); a reference is nil or leads to
the object (`Agree`); if nobody else deletes the kind, the object exists (`Valid`); the pool and an external
gateway stay the same (`Fixed`). A task creates only when its reference is nil; that nothing exists then
takes `CreationProgress`: the tasks before it have references that lead to objects, so the search
looked in the right place and found nothing. `DeletionProgress` is its counterpart: before deleting, what
has no reference does not exist (`Found`); then objects go in the reverse order, and NSX-T rejects
none of them for objects that are built on it. `DInv` adds what each task that has succeeded leaves to those after it
(`Done`): its reference, and an object with the attributes asked for. For `Implements` each action is
mapped to a step of `Lifecycle` or a stutter.

`InfraCLI_proofs`, for every choice of `Faults`, `MaxFaults`, `MaxCommands`, `StateVersions`, `Others`, NSX-T
version and gateway, with or without a shoot context:

* `TypeCorrect`: `Spec => []TypeOK` and `OthersAreUntouched`: `Spec => []OthersUntouched`;
* `NothingForgottenByDestroy`: `Spec => DestroyForgetsNothing`, an action property;
* `NothingTwice`: `Spec => []NoDuplicates`;
* `CreatedIsComplete`: `Spec => CreateIsComplete`, an action property;
* `DestroyedIsComplete`: `Spec => DestroyIsComplete /\ DestroyLeavesNothing`, action properties.

The first three hold whatever fails and whatever versions are fixed. Their invariant is `BInv`: `OwnIds` and `OwnRefs` as for the controller, the
latter also for the state file, and `Stage`, which says that the old file is out of the way before
the new one is written. The others need `SearchWorks`, here just `"list"` not in `Faults`, and `OneVersion`: no command and no
shoot has fixed another version than the one determined, so that all work on one list of tasks, the file's included
(`VInv`); `DestroyedIsComplete` needs `LookupsWork`, too, and proves `DestroyLeavesNothing` along with
`DestroyIsComplete`. The run `InfraCLI` keeps to `SearchWorks` and `LookupsWork`, but has two versions: what
holds of commands that mix them is only model-checked, what holds of a manager with NSX-T 2.5 only proved. Somebody else who deletes objects, as `Losable`
in `Infrastructure`, is not part of the model of the tool. Their invariant `CInv` uses the lemmas of `Ensurer_proofs`
in the same way as `RInv`, with one difference: a destroy with a state file may begin with references that are
stale, to objects gone or created anew since. `Fixed` and `Agree` are therefore claimed only of commands
that start without references (`KnownRefs`: `create`, which ignores the file, and `destroy` by the spec alone). For a
destroy with a file it is enough that a reference to an object of the shoot's kinds has an own id, so that a task
deletes at most the object that is its own, and that NSX-T deletes nothing that others live below (`DeleteByFile`):
`Placed` and `Unique` survive, and the next command can go on from there. That `Init` satisfies them says that what the
controller builds is in its place (`InitObjects`, `BuiltRefsAre`).

`ControlPlane_proofs`, for all classes, profiles, configurations, lists of tags and numbers of changes
and failures:

* `TypeCorrect`: `Spec => []TypeOK`;
* `PoolsAreAllowed`: `Spec => []OnlyAllowedPools`;
* `CredentialsReachCSI`: `Spec => []RotationReachesCSI`;
* `DefaultIsImmutable`: `Spec => NamedDefaultIsImmutable`, an action property.

What is rendered comes from what the reconciliation has seen, so the invariant adds that the
pools of the profile it has seen were allowed (`SeenAllowed`), and that what the environment
offers or shares is (`EnvironmentAllowed`). Two lemmas about the pure modules carry the
proof: `AuthorizedAreShared` (the check by the last tag of a scope accepts only pools that some tags
share) and `PoolsOfOverwrite` (every pool of `OverwriteLoadBalancerClasses`, its default included, is
one of the profile or one the shoot has named, which is checked). `Positions` says that the first and
the last position of a name exist, by the well-foundedness of the natural numbers.
`CSIInv` adds what the checksums stand for: the secret is never ahead of the credentials, the
annotations are never ahead of what the pods have read, and from the checksums on both are current if nothing has
changed since. The default class is about `OverwriteLoadBalancerClasses` alone: for a profile with one
pool for the name "default", every list that admission accepts yields the same default.

`Workers_proofs`, for all pools, zones, images, machine types and numbers of changes and failures:

* `ClassesExist`: `Spec => []ClassesOfDeploymentsExist`;
* `ImagesKnown`: `Spec => []ImagesStayKnown`;
* `ZonesKept`: `Spec => []MachinesAreInTheirZone`;
* `SharesKept`: `Spec => []CapacityKept`.

For the first, the invariant has a conjunct for what each stage leaves to the later ones:
classes are written (`ClassesWritten`), then deployments are as wanted (`DeploymentsWritten`), what is
not wanted was listed at the beginning (`UnwantedListed`), and is being deleted before classes are
dropped (`UnwantedDeleting`). The MCM only removes deployments, and users do not change what
the reconciliation has seen. `WantedByName` says that a deployment is known by its name. For the second
it is that the images in the status are those of the pools they were recorded for. For the third, `ZInv`
says that the zones of a pool are only ever extended, between the specification, what the reconciliation has
seen and what deployments and classes were made of (`PoolsExtended`, `PlacedBySpec`, `PlacedBySeen`,
`ClassesPlaced`), except for pools in `readded`. For the fourth, deployments carry the shares (`SharesWritten`), and lemmas
about sums over zones and about division say what shares add up to. `MapThenSumSet` is
a recursive function over subsets: `SumIsUnique` and what follows from it are proved by descent along
strict inclusion, which is well-founded on finite sets.

`IPPools_proofs`, for any number of pools, clients, commands, allocations and any page size:

* `SearchIsReliable`: `Spec => []SearchFinds`;
* `HalfPools`: `Spec => []HalfPoolsAreReported`.

What makes the search reliable is `Ahead`: as long as the list has not grown, what was there all the time
still lies beyond the cursor, and the objects counted so far and those beyond the cursor
are no more than the total of the first page. So a search cannot stop at the total with something
left to find. `CommandsInv` says which
pool each command is working on.

`Admission_proofs`, for every set of scenarios as in `WorldAssumption`:

* `AdmittedCanReconcile`: `PSpec => []AdmittedReconciles`;
* `BuiltAsAsked`: `PSpec => []BuiltFromShoot`;
* `PlacedZones`: `PSpec => []ZonesArePlaced`;
* `AddressesAlwaysFit`: `PSpec => []AddressesFit`;
* `ClientsAgree`: `PSpec => []ClientsAlike`.

The invariant says that what is stored was admitted (`ScenarioInv`), that a seed may be stale but not in
network and gateway (`SeedInv`), that the status is of the shoot's network and of some profile
(`StatusInv`), and that a secret only goes bad behind the webhooks (`SecretInv`). The rest is
about the pure modules: the addresses of `newDHCPConfig`, byte by byte, with powers of two, and the three
clients, for each combination of user names and passwords.

`Webhooks_proofs`, for all kinds registered, profiles, flags, files and orders of writes:

* `MutatedOnce`: `Spec => []Idempotent`;
* `UnitWithScript`: `Spec => []UnitHasScript`;
* `ProfileFollowed`: `Spec => []FollowsProfile`, if `"osc"` is in `Registered`, as in `add.go`;
* `ForeignKept`: `Spec => []KeepsForeign`.

The invariant `WInv` is the shape of an object of each kind: which flags, files and units it can have, and
that unit and script are there together. What the loops over flags and files compute is said by lemmas, each proved from a
least position at which it would fail.

The assumptions on the constants are those named in the modules (`OthersAssumption`, `BoundsAssumption`,
`NoneAssumption`, `NoFileAssumption`, `PoolsAssumption`, `PoolNameAssumption`, `WorldAssumption`, ...) and the hypotheses above. Most
say that a special value is not an ordinary one, or that a set of the instance is finite; those
of `Admission` say that networks are IPv4 networks and what an account is (`AccountAssumption`).

### What is only model-checked

* Liveness (`Converges`, `DeletionEnds`, `DeletableWithoutCredentials`, `CSICatchesUp`, `SearchEnds`): the
  prover has no rules for fairness that reach it.
* `NoDuplicates`, `CreateIsComplete` and `DestroyIsComplete` of commands that mix two versions.

The library's induction theorems take an operator as a parameter, which the provers cannot instantiate. So no
recursive definition is evaluated by induction; where a proof needs one (sums, loops), it goes by descent
from a least counterexample, and says what is true of the result, not what it is.

## What is not modelled

* Migration of a control plane: `Restore` is `Reconcile`, `Migrate` does nothing.
* Of the ensurer: the contents of names and tags, the encoding of DHCP options, how a free
  segment name is drawn, the contents of an API token (that it is refused is modelled), and IPv6 networks.
* `clean_old_resources.go`, which nothing calls.
* Of infra-cli: the variants of the IP pool commands for the Advanced API, parsing of options and
  files (what `--stateVersion` fixes is modelled), and commands that only print or write a file.
* Of the control plane: hibernation, its deletion, application profiles of load balancer classes
  (they follow the rule of the pool but need not exist), storage classes, certificates.
* Of the worker: hibernation, replicas while the autoscaler is on, user data, secrets, the finalizers
  of machine classes, the chart of the MCM, and the precedence of the region's images over
  the global ones (both are `catalog`). Percentages are computed with exact fractions; the
  code computes with binary ones and is one per cent higher where they round up.
* Of admission: the form of strings (DNS names, UUIDs) and checks of one field against a constant.
* The mutation for autoscalers of type VPA is modelled, but no webhook is registered for them.
* Health checks and controller set-up (wiring), API types and generated code (data types).
* Of the infrastructure controller: that users change `overwriteNSXTInfraVersion` between a first
  reconciliation that crashed and the next. Its tasks are of one version; `InfraCLI` shows what two do.

Some hazards in `PROJECT.json` have no property, because the code does not guard against them or the models
leave them out; their notes say what happens. The code does not guard against a change of the IP pool's
name, a list that fails, a stale reference that hides an object created anew before a crash, a
manager that answers NotFound to the deletion of a missing object, references that tasks of NSX-T 2.5
dereference although an earlier task never set them, and a version changed between two first
reconciliations. Display names that are not unique are left out: the models take the name of a
pool for the pool.

## Plan

Models, runs and proofs are complete as far as planned: every invariant and every safety action property
of a passing run is a theorem (those of `InfraCLI` that depend on the version under `OneVersion`), and so
is the refinement of `Lifecycle`. What could come next is what the section before leaves out, first of all the image lists of a region and hibernation of workers.
