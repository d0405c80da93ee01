---------------------------- MODULE Infrastructure ----------------------------
(***************************************************************************)
(* The infrastructure controller of one shoot: the generic reconciler, the *)
(* vSphere actuator and the ensurer it drives, against an NSX-T manager    *)
(* that can fail, and a process that can crash between any two steps.      *)
(*                                                                         *)
(* Only the Infrastructure resource and the NSX-T manager survive a crash. *)
(* The references to what was created are kept in memory while the tasks   *)
(* run and are persisted once, at the end; what must make up for a crash   *)
(* in between are the status written before anything is created and the    *)
(* search of objects by their tags.                                        *)
(***************************************************************************)
EXTENDS EnsurerRun

CONSTANTS
  Name,         \* the values that an input of the spec can take
  Changeable,   \* the inputs that can be changed
  Losable       \* the kinds of objects that can be deleted by someone else

ASSUME NameAssumption == Name \subseteq Nat \ {0} /\ DefaultName \in Name
ASSUME ChangeableAssumption == Changeable \subseteq Input
ASSUME LosableAssumption == Losable \subseteq Managed

VARIABLES
  \* the Infrastructure resource, in the Kubernetes API server
  deleting,     \* it has a deletion timestamp
  gone,         \* its finalizer is removed
  started,      \* providerStatus.creationStarted
  hasState,     \* providerStatus.nsxtInfraState is not nil
  saved,        \* the references in providerStatus.nsxtInfraState
  lastOp,       \* state of status.lastOperation
  inputs,       \* what the cloud profile and the shoot configure
  credentials   \* the secret has working credentials

infraVars == <<deleting, gone, started, hasState, saved, lastOp>>
confVars  == <<inputs, credentials>>
vars == <<nsxtVars, ensurerVars, infraVars, confVars, procVars>>

Step == {"idle", "version", "recover", "ensure", "save",
         "recoverAll", "delete", "saveDeleted", "finalize", "panic"}

TypeOK ==
  /\ nsxt \subseteq Object /\ nextId \in Nat
  /\ mem \in [Task -> Ref] /\ want \in [Input -> Name] /\ faults \in 0..MaxFaults
  /\ saved \in [Task -> Ref] /\ inputs \in [Input -> Name]
  /\ {deleting, gone, started, hasState, credentials, failed} \subseteq BOOLEAN
  /\ lastOp \in {"Processing", "Error", "Succeeded"}
  /\ pc \in Step /\ i \in 1..Len(Tasks)

Init ==
  /\ nsxt = Others /\ nextId = ExtT1Id + 1
  /\ mem = NoRefs /\ want = [n \in Input |-> DefaultName] /\ faults = 0
  /\ deleting = FALSE /\ gone = FALSE
  /\ started = FALSE /\ hasState = FALSE /\ saved = NoRefs
  /\ lastOp = "Processing"
  /\ inputs = [n \in Input |-> DefaultName] /\ credentials \in BOOLEAN
  /\ pc = "idle" /\ i = 1 /\ failed = FALSE

-----------------------------------------------------------------------------
\* The worker is done with this request; what it held in memory is lost.
Idle == pc' = "idle" /\ i' = 1 /\ failed' = FALSE /\ mem' = NoRefs

Begin(step) ==
  /\ pc' = step /\ i' = 1 /\ failed' = FALSE
  /\ mem' = saved /\ want' = inputs

ReturnError == Idle /\ lastOp' = "Error" /\ UNCHANGED want

-----------------------------------------------------------------------------
(* actuator.reconcile.                                                     *)

FirstTaskStep == IF hasState THEN "recover" ELSE "version"

\* Mutant: the status is not written before the objects are created.
PersistStarted_Late(works) == UNCHANGED started

\* doUpdateProviderStatus with only creationStarted.
PersistStarted(works) == started' = works

\* Before anything was created: check credentials and connection, and persist
\* whether they work, so that a shoot with wrong credentials can be deleted.
StartFirstReconcile ==
  /\ pc = "idle" /\ ~gone /\ ~deleting /\ ~started
  /\ \/ credentials /\ NoFault /\ PersistStarted(TRUE)
        /\ Begin(FirstTaskStep) /\ lastOp' = "Processing"
     \/ ~credentials /\ NoFault /\ PersistStarted(FALSE) /\ ReturnError
     \/ credentials /\ Fault("connect") /\ PersistStarted(FALSE) /\ ReturnError
     \/ Fault("status") /\ UNCHANGED started /\ ReturnError
     \/ Fault("statusLost") /\ PersistStarted(credentials) /\ ReturnError
  /\ UNCHANGED <<deleting, gone, hasState, saved, confVars, nsxtVars>>

\* The credentials are read again on every reconciliation.
StartReconcile ==
  /\ pc = "idle" /\ ~gone /\ ~deleting /\ started
  /\ IF credentials THEN Begin(FirstTaskStep) /\ lastOp' = "Processing" ELSE ReturnError
  /\ NoFault
  /\ UNCHANGED <<deleting, gone, started, hasState, saved, confVars, nsxtVars>>

NewStateWithVersion ==
  /\ pc = "version"
  /\ \/ NoFault /\ pc' = "recover" /\ UNCHANGED <<i, failed, mem, want, lastOp>>
     \/ Fault("version") /\ ReturnError
  /\ UNCHANGED <<deleting, gone, started, hasState, saved, confVars, nsxtVars>>

\* EnsureInfrastructure: for each task try to recover its reference, then ensure it.
RecoverTask ==
  /\ pc = "recover"
  /\ tryRecover(Tasks[i], FALSE, "ok")
  /\ pc' = "ensure" /\ UNCHANGED <<i, failed, want>>
  /\ UNCHANGED <<infraVars, confVars>>

EnsureTask ==
  /\ pc = "ensure"
  /\ \E res \in Result : Ensure(Tasks[i], res) /\ AfterEnsure(res, Len(Tasks))
  /\ UNCHANGED <<want, infraVars, confVars>>

-----------------------------------------------------------------------------
(* actuator.delete.                                                        *)

\* Mutant: after a failed reconciliation nothing is deleted.
NothingToDelete_Failed ==
  /\ pc = "idle" /\ ~gone /\ deleting
  /\ ~(hasState /\ started) \/ lastOp = "Error"
  /\ pc' = "finalize" /\ lastOp' = "Processing" /\ NoFault
  /\ UNCHANGED <<i, failed, mem, want, deleting, gone, started, hasState, saved>>
  /\ UNCHANGED <<confVars, nsxtVars>>

\* Mutant: the credentials are checked first.
NothingToDelete_Checked ==
  /\ pc = "idle" /\ ~gone /\ deleting /\ ~(hasState /\ started) /\ credentials
  /\ pc' = "finalize" /\ lastOp' = "Processing" /\ NoFault
  /\ UNCHANGED <<i, failed, mem, want, deleting, gone, started, hasState, saved>>
  /\ UNCHANGED <<confVars, nsxtVars>>

\* Without state, or if creation has not started, nothing is deleted.
NothingToDelete ==
  /\ pc = "idle" /\ ~gone /\ deleting /\ ~(hasState /\ started)
  /\ pc' = "finalize" /\ lastOp' = "Processing" /\ NoFault
  /\ UNCHANGED <<i, failed, mem, want, deleting, gone, started, hasState, saved>>
  /\ UNCHANGED <<confVars, nsxtVars>>

\* Left-overs of the load balancer controller are removed first, as far as possible.
StartDelete ==
  /\ pc = "idle" /\ ~gone /\ deleting /\ hasState /\ started
  /\ IF credentials
     THEN /\ Begin("recoverAll") /\ lastOp' = "Processing" /\ UNCHANGED nextId
          /\ \/ nsxt' = nsxt \ Own("lb") /\ NoFault
             \/ Fault("lb") /\ UNCHANGED nsxt
     ELSE ReturnError /\ NoFault /\ UNCHANGED nsxtVars
  /\ UNCHANGED <<deleting, gone, started, hasState, saved, confVars>>

RecoverBeforeDelete ==
  /\ pc = "recoverAll"
  /\ \E res \in Result : tryRecover(Tasks[i], TRUE, res) /\ AfterRecoverAll(res, Len(Tasks))
  /\ UNCHANGED <<failed, want, infraVars, confVars>>

DeleteTask ==
  /\ pc = "delete"
  /\ \E res \in Result : EnsureDeleted(Tasks[i], res) /\ AfterDelete(res, Len(Tasks))
  /\ UNCHANGED <<want, infraVars, confVars>>

-----------------------------------------------------------------------------
\* updateProviderStatus at the end, whether or not the tasks succeeded; then
\* the reconciler records the outcome, and goes on to the finalizer after a deletion.
\* Mutant: the references are saved only if all tasks succeeded.
Persist_OnSuccess ==
  saved' = (IF failed THEN saved ELSE mem) /\ hasState' = TRUE /\ started' = TRUE

Persist == saved' = mem /\ hasState' = TRUE /\ started' = TRUE

SaveStatus ==
  /\ pc \in {"save", "saveDeleted"}
  /\ \/ NoFault /\ Persist /\ ~failed /\ lastOp' = "Succeeded" /\ UNCHANGED want
        /\ IF pc = "save" THEN Idle
           ELSE pc' = "finalize" /\ i' = 1 /\ failed' = FALSE /\ mem' = NoRefs
     \/ NoFault /\ Persist /\ failed /\ ReturnError
     \/ Fault("statusLost") /\ Persist /\ ReturnError
     \/ Fault("status") /\ UNCHANGED <<saved, hasState, started>> /\ ReturnError
  /\ UNCHANGED <<deleting, gone, confVars, nsxtVars>>

RemoveFinalizer ==
  /\ pc = "finalize" /\ Idle /\ lastOp' = "Succeeded"
  /\ \/ gone' = TRUE /\ NoFault
     \/ gone' = FALSE /\ Fault("finalizer")
  /\ UNCHANGED <<want, deleting, started, hasState, saved, confVars, nsxtVars>>

-----------------------------------------------------------------------------
(* What the controller does not control.                                   *)

Crash ==
  /\ pc \notin {"idle", "panic"} /\ Fault("crash") /\ Idle
  /\ UNCHANGED <<want, infraVars, confVars, nsxtVars>>

\* A panic ends the process; it is started again.
Restart ==
  /\ pc = "panic" /\ Idle /\ NoFault
  /\ UNCHANGED <<want, infraVars, confVars, nsxtVars>>

RequestDeletion ==
  /\ ~deleting /\ deleting' = TRUE
  /\ UNCHANGED <<gone, started, hasState, saved, lastOp>>
  /\ UNCHANGED <<confVars, procVars, ensurerVars, nsxtVars>>

ChangeInput ==
  /\ Fault("inputs") /\ \E n \in Changeable, v \in Name : inputs' = [inputs EXCEPT ![n] = v]
  /\ UNCHANGED <<mem, want, credentials, infraVars, procVars, nsxtVars>>

BreakCredentials ==
  /\ credentials /\ Fault("credentials") /\ credentials' = FALSE
  /\ UNCHANGED <<mem, want, inputs, infraVars, procVars, nsxtVars>>

RepairCredentials ==
  /\ ~credentials /\ credentials' = TRUE
  /\ UNCHANGED <<ensurerVars, inputs, infraVars, procVars, nsxtVars>>

\* Objects of the shoot are deleted behind the controller's back, with all
\* that is built on them, while it is not at work.
LoseObjects ==
  /\ pc = "idle" /\ ~gone /\ Fault("loss")
  /\ \E S \in SUBSET UNION {Own(k) : k \in Losable} :
       /\ S # {}
       /\ \A p \in nsxt \ S, o \in S : ~RefersTo(p, o, Tracked)
       /\ nsxt' = nsxt \ S
  /\ UNCHANGED <<nextId, mem, want, infraVars, confVars, procVars>>

\* The cloud provider's load balancer controller attaches one to the gateway.
CreateLoadBalancer ==
  /\ ~deleting /\ Fault("lb")
  /\ \E g \in Own("t1") :
       Put([kind |-> "lb", id |-> nextId, parent |-> Nil, owner |-> "shoot",
            attrs |-> [a \in Attr |-> IF a = "t1" THEN g.id ELSE Nil]])
  /\ UNCHANGED <<mem, want, infraVars, confVars, procVars>>

\* The resource has vanished: nothing is left to do.
Terminated == gone /\ UNCHANGED vars

Reconcile  == StartFirstReconcile \/ StartReconcile \/ NewStateWithVersion
                \/ RecoverTask \/ EnsureTask
Delete     == NothingToDelete \/ StartDelete \/ RecoverBeforeDelete \/ DeleteTask
                \/ RemoveFinalizer
Controller == Reconcile \/ Delete \/ SaveStatus \/ Restart

Environment == Crash \/ RequestDeletion \/ ChangeInput \/ BreakCredentials
                 \/ RepairCredentials \/ LoseObjects \/ CreateLoadBalancer

Next == Controller \/ Environment \/ Terminated

Spec == Init /\ [][Next]_vars

\* A queued or failed request is worked on again, and a crashed process is
\* restarted.  Nobody has to repair the credentials.
FairSpec == Spec /\ WF_vars(Controller)
=============================================================================
