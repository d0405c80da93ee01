------------------------ MODULE Infrastructure_proofs ------------------------
(***************************************************************************)
(* Proofs about the infrastructure controller, for every choice of faults, *)
(* inputs, losable objects and objects of other shoots. Four parts:        *)
(*   - nothing of others is touched and creation is announced, always;     *)
(*   - no object of the shoot is created twice, out of reach or left       *)
(*     behind, as long as the search by tags works: it alone makes up for  *)
(*     a reference lost in a crash or with the answer of a call (Regime);  *)
(*   - a reconciliation that succeeds is complete;                         *)
(*   - the controller implements Lifecycle.                                *)
(***************************************************************************)
EXTENDS InfrastructureProps, Ensurer_proofs

\* creationStarted stays set while the tasks run.
ActiveStarted == pc \notin {"idle", "finalize", "panic"} => started

IInv == /\ TypeOK
        /\ OwnIds /\ OwnRefs(mem) /\ OwnRefs(saved) /\ OthersUntouched
        /\ ActiveStarted /\ StartedBeforeCreated
-----------------------------------------------------------------------------
(* The controller and its environment preserve IInv.                       *)

\* IInv splits into what the tasks preserve and the rest.
LEMMA IInvEnsurer == IInv => EnsurerInv
  BY NameAssumption DEF IInv, TypeOK, EnsurerInv, EnsurerTypeOK

\* A step of the tasks, which leaves the resource alone.
LEMMA TaskStep ==
  ASSUME IInv, EnsurerInv', started, UNCHANGED <<want, infraVars, confVars>>,
         pc' \in Step, i' \in 1..Len(Tasks), failed' \in BOOLEAN
  PROVE  IInv'
<1>1. TypeOK' /\ OwnRefs(saved)'
  BY DEF IInv, TypeOK, EnsurerInv, EnsurerTypeOK, infraVars, confVars, OwnRefs, IsExternal
<1>2. ActiveStarted' /\ StartedBeforeCreated'
  BY DEF ActiveStarted, StartedBeforeCreated, infraVars
<1> QED BY <1>1, <1>2 DEF IInv, EnsurerInv

\* A step that leaves NSX-T alone and takes what is in memory from the
\* persisted status or forgets it.
LEMMA StatusStep ==
  ASSUME IInv, UNCHANGED nsxtVars, faults' \in 0..MaxFaults,
         want' \in [Input -> Name], inputs' \in [Input -> Name],
         mem' \in {mem, saved, NoRefs}, saved' \in {saved, mem},
         {deleting', gone', started', hasState', credentials', failed'} \subseteq BOOLEAN,
         lastOp' \in {"Processing", "Error", "Succeeded"},
         pc' \in Step, i' \in 1..Len(Tasks),
         started => started', ActiveStarted'
  PROVE  IInv'
<1>1. TypeOK'
  BY NoRefsType DEF IInv, TypeOK, nsxtVars
<1>2. OwnRefs(mem)' /\ OwnRefs(saved)'
  BY NoRefsType DEF IInv, OwnRefs, IsExternal
<1>3. OwnIds' /\ OthersUntouched' /\ StartedBeforeCreated'
  BY DEF IInv, nsxtVars, OwnIds, OthersUntouched, Foreign, StartedBeforeCreated, OwnManaged, Own
<1> QED BY <1>1, <1>2, <1>3 DEF IInv

\* Before creation has started, a status says so or stays as it is.
LEMMA StartFirstReconcileInv ==
  ASSUME IInv, StartFirstReconcile
  PROVE  IInv'
<1>1. faults' \in 0..MaxFaults
  BY FaultsBounded DEF StartFirstReconcile, IInv, TypeOK
<1>2. 1 \in 1..Len(Tasks)
  BY TasksType
<1>3. started' \in BOOLEAN /\ (pc' \in {"recover", "version"} => started')
       /\ pc' \in {"idle", "recover", "version"} /\ i' = 1 /\ failed' = FALSE
       /\ mem' \in {saved, NoRefs} /\ want' \in {want, inputs}
       /\ lastOp' \in {"Processing", "Error"}
  BY DEF StartFirstReconcile, PersistStarted, Begin, ReturnError, Idle, FirstTaskStep, IInv, TypeOK
<1>4. ~started
  BY DEF StartFirstReconcile
<1>5. ActiveStarted'
  BY <1>3 DEF ActiveStarted
<1>6. UNCHANGED <<deleting, gone, hasState, saved, inputs, credentials, nsxtVars>>
  BY DEF StartFirstReconcile, confVars
<1> QED BY <1>1, <1>2, <1>3, <1>4, <1>5, <1>6, StatusStep DEF IInv, TypeOK, Step

LEMMA StartReconcileInv ==
  ASSUME IInv, StartReconcile
  PROVE  IInv'
<1>2. 1 \in 1..Len(Tasks)
  BY TasksType
<1>3. pc' \in {"idle", "recover", "version"} /\ i' = 1 /\ failed' = FALSE
       /\ mem' \in {saved, NoRefs} /\ want' \in {want, inputs}
       /\ lastOp' \in {"Processing", "Error"} /\ started /\ faults' = faults
  BY DEF StartReconcile, Begin, ReturnError, Idle, FirstTaskStep, NoFault
<1>5. UNCHANGED <<deleting, gone, started, hasState, saved, inputs, credentials, nsxtVars>>
  BY DEF StartReconcile, confVars
<1> QED BY <1>2, <1>3, <1>5, StatusStep DEF IInv, TypeOK, Step, ActiveStarted

LEMMA NewStateWithVersionInv ==
  ASSUME IInv, NewStateWithVersion
  PROVE  IInv'
<1>1. faults' \in 0..MaxFaults
  BY FaultsBounded DEF NewStateWithVersion, IInv, TypeOK
<1>2. 1 \in 1..Len(Tasks)
  BY TasksType
<1>3. pc' \in {"idle", "recover"} /\ i' \in {1, i} /\ failed' \in {FALSE, failed}
       /\ mem' \in {mem, NoRefs} /\ want' = want
       /\ lastOp' \in {lastOp, "Error"} /\ started
  BY DEF NewStateWithVersion, ReturnError, Idle, IInv, ActiveStarted
<1>5. UNCHANGED <<deleting, gone, started, hasState, saved, inputs, credentials, nsxtVars>>
  BY DEF NewStateWithVersion, confVars
<1> QED BY <1>1, <1>2, <1>3, <1>5, StatusStep DEF IInv, TypeOK, Step, ActiveStarted

LEMMA RecoverTaskInv ==
  ASSUME IInv, RecoverTask
  PROVE  IInv'
<1>1. Tasks[i] \in Task
  BY TasksType DEF IInv, TypeOK
<1>2. EnsurerInv'
  BY <1>1, IInvEnsurer, RecoverInv DEF RecoverTask
<1> QED BY <1>2, TaskStep DEF RecoverTask, IInv, TypeOK, ActiveStarted, Step

LEMMA EnsureTaskInv ==
  ASSUME IInv, EnsureTask
  PROVE  IInv'
<1>1. Tasks[i] \in Task
  BY TasksType DEF IInv, TypeOK
<1>2. PICK res \in Result : Ensure(Tasks[i], res) /\ AfterEnsure(res, Len(Tasks))
  BY DEF EnsureTask
<1>3. EnsurerInv'
  BY <1>1, <1>2, IInvEnsurer, EnsureInv DEF EnsureTask
<1>4. i \in 1..Len(Tasks) /\ Len(Tasks) \in Nat /\ failed \in BOOLEAN
  BY TasksType DEF IInv, TypeOK
<1>5. pc' \in Step /\ i' \in 1..Len(Tasks) /\ failed' \in BOOLEAN
  <2>1. CASE res = "panic"
    BY <1>2, <1>4, <2>1 DEF AfterEnsure, Step
  <2>2. CASE res = "err"
    BY <1>2, <1>4, <2>2 DEF AfterEnsure, Step
  <2>3. CASE res = "ok" /\ i < Len(Tasks)
    BY <1>2, <1>4, <2>3 DEF AfterEnsure, Step
  <2>4. CASE res = "ok" /\ ~(i < Len(Tasks))
    BY <1>2, <1>4, <2>4 DEF AfterEnsure, Step
  <2> QED BY <2>1, <2>2, <2>3, <2>4 DEF Result
<1> QED BY <1>3, <1>5, TaskStep DEF EnsureTask, IInv, ActiveStarted

LEMMA NothingToDeleteInv ==
  ASSUME IInv, NothingToDelete
  PROVE  IInv'
  BY StatusStep DEF NothingToDelete, NoFault, confVars, IInv, TypeOK, Step, ActiveStarted

LEMMA StartDeleteInv ==
  ASSUME IInv, StartDelete
  PROVE  IInv'
<1>1. CASE credentials
  <2>1. faults' \in 0..MaxFaults
    BY <1>1, FaultsBounded DEF StartDelete, IInv, TypeOK
  <2>2. nsxt' \subseteq Object /\ nextId' \in Nat /\ OwnIds' /\ OthersUntouched'
    <3>1. CASE nsxt' = nsxt \ Own("lb")
      <4>1. \A o \in Own("lb") : o \in nsxt => o.owner = "shoot"
        BY DEF Own
      <4> QED BY <1>1, <3>1, <4>1, IInvEnsurer, RemoveOwn DEF StartDelete
    <3>2. CASE UNCHANGED nsxt
      BY <1>1, <3>2 DEF StartDelete, IInv, TypeOK, OwnIds, OthersUntouched, Foreign
    <3> QED BY <1>1, <3>1, <3>2 DEF StartDelete
  <2>3. pc' = "recoverAll" /\ i' = 1 /\ failed' = FALSE /\ mem' = saved
         /\ want' = inputs /\ lastOp' = "Processing" /\ started
    BY <1>1 DEF StartDelete, Begin
  <2>4. UNCHANGED <<deleting, gone, started, hasState, saved, inputs, credentials>>
    BY DEF StartDelete, confVars
  <2>5. TypeOK'
    <3>1. 1 \in 1..Len(Tasks)
      BY TasksType
    <3>2. TypeOK
      BY DEF IInv
    <3> QED BY <2>1, <2>2, <2>3, <2>4, <3>1, <3>2 DEF TypeOK, Step
  <2>6. OwnRefs(mem)' /\ OwnRefs(saved)'
    BY <2>3, <2>4 DEF IInv, OwnRefs, IsExternal
  <2> QED BY <2>2, <2>3, <2>4, <2>5, <2>6 DEF IInv, ActiveStarted, StartedBeforeCreated
<1>2. CASE ~credentials
  <2>1. 1 \in 1..Len(Tasks)
    BY TasksType
  <2>2. pc' = "idle" /\ i' = 1 /\ failed' = FALSE /\ mem' = NoRefs /\ want' = want
         /\ lastOp' = "Error" /\ faults' = faults
    BY <1>2 DEF StartDelete, ReturnError, Idle, NoFault
  <2>3. UNCHANGED <<deleting, gone, started, hasState, saved, inputs, credentials, nsxtVars>>
    BY <1>2 DEF StartDelete, confVars
  <2> QED BY <2>1, <2>2, <2>3, StatusStep DEF IInv, TypeOK, Step, ActiveStarted
<1> QED BY <1>1, <1>2

LEMMA RecoverBeforeDeleteInv ==
  ASSUME IInv, RecoverBeforeDelete
  PROVE  IInv'
<1>1. Tasks[i] \in Task
  BY TasksType DEF IInv, TypeOK
<1>2. PICK res \in Result : tryRecover(Tasks[i], TRUE, res) /\ AfterRecoverAll(res, Len(Tasks))
  BY DEF RecoverBeforeDelete
<1>3. EnsurerInv'
  BY <1>1, <1>2, IInvEnsurer, RecoverInv DEF RecoverBeforeDelete
<1>4. pc' \in Step /\ i' \in 1..Len(Tasks)
  BY <1>2, TasksType DEF AfterRecoverAll, RecoverBeforeDelete, IInv, TypeOK, Step
<1> QED BY <1>3, <1>4, TaskStep DEF RecoverBeforeDelete, IInv, TypeOK, ActiveStarted

LEMMA DeleteTaskInv ==
  ASSUME IInv, DeleteTask
  PROVE  IInv'
<1>1. Tasks[i] \in Task
  BY TasksType DEF IInv, TypeOK
<1>2. PICK res \in Result : EnsureDeleted(Tasks[i], res) /\ AfterDelete(res, Len(Tasks))
  BY DEF DeleteTask
<1>3. EnsurerInv'
  BY <1>1, <1>2, IInvEnsurer, DeletedInv DEF DeleteTask
<1>4. i \in 1..Len(Tasks) /\ Len(Tasks) \in Nat /\ failed \in BOOLEAN /\ pc = "delete"
  BY TasksType DEF DeleteTask, IInv, TypeOK
<1>5. pc' \in Step /\ i' \in 1..Len(Tasks) /\ failed' \in BOOLEAN
  <2>1. CASE res = "panic"
    BY <1>2, <1>4, <2>1 DEF AfterDelete, Step
  <2>2. CASE res = "err"
    BY <1>2, <1>4, <2>2 DEF AfterDelete, Step
  <2>3. CASE res = "ok" /\ i > 1
    BY <1>2, <1>4, <2>3 DEF AfterDelete, Step
  <2>4. CASE res = "ok" /\ ~(i > 1)
    BY <1>2, <1>4, <2>4 DEF AfterDelete, Step
  <2> QED BY <2>1, <2>2, <2>3, <2>4 DEF Result
<1> QED BY <1>3, <1>5, TaskStep DEF DeleteTask, IInv, ActiveStarted

LEMMA SaveStatusInv ==
  ASSUME IInv, SaveStatus
  PROVE  IInv'
<1>1. faults' \in 0..MaxFaults
  BY FaultsBounded DEF SaveStatus, IInv, TypeOK
<1>2. 1 \in 1..Len(Tasks)
  BY TasksType
<1>3. pc' \in {"idle", "finalize"} /\ i' = 1 /\ failed' = FALSE /\ mem' = NoRefs
       /\ want' = want /\ lastOp' \in {"Error", "Succeeded"} /\ saved' \in {saved, mem}
       /\ started' \in {started, TRUE} /\ hasState' \in {hasState, TRUE}
  BY DEF SaveStatus, Persist, ReturnError, Idle
<1>4. UNCHANGED <<deleting, gone, inputs, credentials, nsxtVars>>
  BY DEF SaveStatus, confVars
<1>5. started => started'
  BY <1>3
<1> QED BY <1>1, <1>2, <1>3, <1>4, <1>5, StatusStep DEF IInv, TypeOK, Step, ActiveStarted

LEMMA RemoveFinalizerInv ==
  ASSUME IInv, RemoveFinalizer
  PROVE  IInv'
<1>1. faults' \in 0..MaxFaults
  BY FaultsBounded DEF RemoveFinalizer, IInv, TypeOK
<1>2. 1 \in 1..Len(Tasks)
  BY TasksType
<1>3. pc' = "idle" /\ i' = 1 /\ failed' = FALSE /\ mem' = NoRefs
       /\ lastOp' = "Succeeded" /\ gone' \in BOOLEAN
  BY DEF RemoveFinalizer, Idle
<1>4. UNCHANGED <<want, deleting, started, hasState, saved, inputs, credentials, nsxtVars>>
  BY DEF RemoveFinalizer, confVars
<1> QED BY <1>1, <1>2, <1>3, <1>4, StatusStep DEF IInv, TypeOK, Step, ActiveStarted

LEMMA StopInv ==
  ASSUME IInv, Crash \/ Restart
  PROVE  IInv'
<1>1. faults' \in 0..MaxFaults
  BY FaultsBounded DEF Crash, Restart, IInv, TypeOK
<1>2. 1 \in 1..Len(Tasks)
  BY TasksType
<1>3. pc' = "idle" /\ i' = 1 /\ failed' = FALSE /\ mem' = NoRefs
  BY DEF Crash, Restart, Idle
<1>4. UNCHANGED <<want, deleting, gone, started, hasState, saved, lastOp, inputs, credentials, nsxtVars>>
  BY DEF Crash, Restart, confVars, infraVars
<1> QED BY <1>1, <1>2, <1>3, <1>4, StatusStep DEF IInv, TypeOK, Step, ActiveStarted

LEMMA RequestDeletionInv ==
  ASSUME IInv, RequestDeletion
  PROVE  IInv'
  BY StatusStep
     DEF RequestDeletion, confVars, procVars, ensurerVars, IInv, TypeOK, Step, ActiveStarted

LEMMA ConfigurationInv ==
  ASSUME IInv, ChangeInput \/ BreakCredentials \/ RepairCredentials
  PROVE  IInv'
<1>1. faults' \in 0..MaxFaults
  BY FaultsBounded
     DEF ChangeInput, BreakCredentials, RepairCredentials, ensurerVars, IInv, TypeOK
<1>2. inputs' \in [Input -> Name] /\ credentials' \in BOOLEAN
  BY DEF ChangeInput, BreakCredentials, RepairCredentials, IInv, TypeOK
<1>3. UNCHANGED <<mem, want, infraVars, procVars, nsxtVars>>
  BY DEF ChangeInput, BreakCredentials, RepairCredentials, ensurerVars
<1> QED BY <1>1, <1>2, <1>3, StatusStep
        DEF infraVars, procVars, IInv, TypeOK, Step, ActiveStarted

\* Someone else deletes objects, but only those of this shoot.
LEMMA LoseObjectsInv ==
  ASSUME IInv, LoseObjects
  PROVE  IInv'
<1>1. PICK S \in SUBSET UNION {Own(k) : k \in Losable} : nsxt' = nsxt \ S
  BY DEF LoseObjects
<1>2. \A o \in S : o \in nsxt => o.owner = "shoot"
  BY <1>1 DEF Own
<1>3. nsxt' \subseteq Object /\ nextId' \in Nat /\ OwnIds' /\ OthersUntouched'
  BY <1>1, <1>2, IInvEnsurer, RemoveOwn DEF LoseObjects
<1>4. faults' \in 0..MaxFaults
  BY FaultsBounded DEF LoseObjects, IInv, TypeOK
<1>5. TypeOK' /\ OwnRefs(mem)' /\ OwnRefs(saved)' /\ ActiveStarted'
  BY <1>3, <1>4
     DEF LoseObjects, infraVars, confVars, procVars, IInv, TypeOK, OwnRefs, IsExternal, ActiveStarted
<1>6. StartedBeforeCreated'
  BY <1>1 DEF LoseObjects, infraVars, IInv, StartedBeforeCreated, OwnManaged, Own
<1> QED BY <1>3, <1>5, <1>6 DEF IInv

LEMMA CreateLoadBalancerInv ==
  ASSUME IInv, CreateLoadBalancer
  PROVE  IInv'
<1>1. PICK g \in Own("t1") :
        Put([kind |-> "lb", id |-> nextId, parent |-> Nil, owner |-> "shoot",
             attrs |-> [a \in Attr |-> IF a = "t1" THEN g.id ELSE Nil]])
  BY DEF CreateLoadBalancer
<1> DEFINE new == [kind |-> "lb", id |-> nextId, parent |-> Nil, owner |-> "shoot",
                   attrs |-> [a \in Attr |-> IF a = "t1" THEN g.id ELSE Nil]]
<1>2. g \in Object /\ g.id \in Nat
  BY DEF Own, IInv, TypeOK, Object
<1>3. new \in Object /\ new.owner = "shoot" /\ new.id > ExtT1Id /\ new.kind = "lb"
  BY <1>2 DEF Object, Kind, Owner, Ref, Nil, IInv, TypeOK, OwnIds
<1>4. Put(new)
  BY <1>1
<1> HIDE DEF new
<1>5. nsxt' \subseteq Object /\ nextId' \in Nat /\ OwnIds' /\ OthersUntouched'
  BY <1>3, <1>4, IInvEnsurer, PutOwn
<1>6. faults' \in 0..MaxFaults
  BY FaultsBounded DEF CreateLoadBalancer, IInv, TypeOK
<1>7. TypeOK' /\ OwnRefs(mem)' /\ OwnRefs(saved)' /\ ActiveStarted'
  BY <1>5, <1>6
     DEF CreateLoadBalancer, infraVars, confVars, procVars, IInv, TypeOK, OwnRefs, IsExternal, ActiveStarted
<1>8. OwnManaged' \subseteq OwnManaged
  BY <1>3, <1>4 DEF Put, OwnManaged, Own, Managed, Advanced
<1>9. StartedBeforeCreated'
  BY <1>8 DEF CreateLoadBalancer, infraVars, IInv, StartedBeforeCreated
<1> QED BY <1>5, <1>7, <1>9 DEF IInv

LEMMA StutterInv ==
  ASSUME IInv, UNCHANGED vars
  PROVE  IInv'
  BY DEF vars, nsxtVars, ensurerVars, infraVars, confVars, procVars, IInv, TypeOK, OwnIds, OwnRefs,
         OthersUntouched, Foreign, ActiveStarted, StartedBeforeCreated, OwnManaged, Own, IsExternal
-----------------------------------------------------------------------------
(* The theorems.                                                           *)

\* Initially there are only the objects of others.
LEMMA InitIInv == Init => IInv
<1> SUFFICES ASSUME Init PROVE IInv
  OBVIOUS
<1>1. \A o \in Others : o \in Object /\ o.owner = "other"
  BY OthersAssumption
<1>2. OwnIds /\ OthersUntouched
  BY <1>1, ExtT1IdAssumption DEF Init, OwnIds, OthersUntouched, Foreign
<1>3. StartedBeforeCreated
  BY <1>1 DEF Init, StartedBeforeCreated, OwnManaged, Own
<1>4. 1 \in 1..Len(Tasks) /\ 0 \in 0..MaxFaults
  BY TasksType, MaxFaultsAssumption
<1>5. nsxt \subseteq Object /\ nextId \in Nat
  BY <1>1, ExtT1IdAssumption DEF Init
<1>6. want \in [Input -> Name] /\ inputs \in [Input -> Name]
  BY NameAssumption DEF Init
<1>7. mem \in [Task -> Ref] /\ saved \in [Task -> Ref]
  BY NoRefsType DEF Init
<1>8. {deleting, gone, started, hasState, credentials, failed} \subseteq BOOLEAN
  BY DEF Init
<1>9. TypeOK
  BY <1>4, <1>5, <1>6, <1>7, <1>8 DEF Init, TypeOK, Step
<1> QED BY <1>2, <1>3, <1>9, NoRefsType DEF Init, IInv, ActiveStarted

\* Every step preserves the inductive invariant.
LEMMA NextIInv == IInv /\ [Next]_vars => IInv'
<1> SUFFICES ASSUME IInv, [Next]_vars PROVE IInv'
  OBVIOUS
<1>1. CASE Reconcile
  BY <1>1, StartFirstReconcileInv, StartReconcileInv, NewStateWithVersionInv,
     RecoverTaskInv, EnsureTaskInv DEF Reconcile
<1>2. CASE Delete
  BY <1>2, NothingToDeleteInv, StartDeleteInv, RecoverBeforeDeleteInv, DeleteTaskInv,
     RemoveFinalizerInv DEF Delete
<1>3. CASE SaveStatus
  BY <1>3, SaveStatusInv
<1>4. CASE Environment \/ Restart
  BY <1>4, StopInv, RequestDeletionInv, ConfigurationInv, LoseObjectsInv,
     CreateLoadBalancerInv DEF Environment
<1>5. CASE Terminated \/ UNCHANGED vars
  BY <1>5, StutterInv DEF Terminated
<1> QED BY <1>1, <1>2, <1>3, <1>4, <1>5 DEF Next, Controller

\* The inductive invariant holds in every behaviour.
THEOREM Invariance == Spec => []IInv
  BY InitIInv, NextIInv, PTL DEF Spec

\* Every variable stays within its type: in particular the worker never runs
\* past the ends of the list of tasks.
THEOREM TypeCorrect == Spec => []TypeOK
<1>1. IInv => TypeOK
  BY DEF IInv
<1> QED BY <1>1, Invariance, PTL

\* Whatever goes wrong, the ensurer neither writes nor deletes an object of
\* another shoot: recovery by tags and recorded references reach only own ones.
THEOREM OthersAreUntouched == Spec => []OthersUntouched
<1>1. IInv => OthersUntouched
  BY DEF IInv
<1> QED BY <1>1, Invariance, PTL

\* No object is created before creationStarted = TRUE has been persisted.
THEOREM CreationIsAnnounced == Spec => []StartedBeforeCreated
<1>1. IInv => StartedBeforeCreated
  BY DEF IInv
<1> QED BY <1>1, Invariance, PTL
-----------------------------------------------------------------------------
(* The search by tags: nothing is created twice, out of reach or left.     *)

\* A List answers, and an IP allocation is looked for in the pool it is in.
SearchWorks == "list" \notin Faults /\ "pool" \notin Changeable

Regime == SearchWorks /\ NothingForgotten(Losable)

\* A run that creates, and the part of it that may have written objects.
Creating == {"version", "recover", "ensure", "save"}
Writing  == {"recover", "ensure", "save"}

\* What nobody else deletes does exist while the controller has not begun to delete.
Valid(refs) == \A k \in Required \ Losable : refs[k] # Nil => Own(k) # {}

Pool == inputs["pool"] = DefaultName /\ want["pool"] = DefaultName

\* A deletion once requested is not withdrawn; only then anything is deleted.
Phases == /\ pc \in {"recoverAll", "delete", "saveDeleted", "finalize"} => deleting
          /\ hasState => started
          /\ gone => deleting /\ pc = "idle"

References ==
  /\ Fixed(mem) /\ Fixed(saved) /\ Pool
  /\ Agree(mem)
  /\ pc \notin Writing \/ Losable = {} => Agree(saved)
  /\ pc \in Creating \/ ~deleting => Valid(saved)
  /\ pc \in Creating => Valid(mem)
  /\ pc = "idle" => mem = NoRefs

CreationProgress ==
  /\ pc \in {"version", "recover", "ensure"} =>
       \A k \in Before(i) \intersect Basic : Resolved(k)
  /\ pc = "ensure" /\ Tasks[i] \in Required /\ mem[Tasks[i]] = Nil => Own(Tasks[i]) = {}

DeletionProgress ==
  /\ pc = "recoverAll" => \A k \in Before(i) \intersect Basic : Found(k)
  /\ pc = "delete" =>
       /\ \A k \in Basic : Found(k)
       /\ \A k \in After(i) \intersect Required : Own(k) = {}
  /\ pc = "saveDeleted" /\ ~failed => OwnManaged = {}
  /\ (pc = "finalize" \/ gone) /\ hasState => OwnManaged = {}

RInv == /\ IInv /\ Placed /\ Unique /\ Phases /\ References /\ CreationProgress
        /\ LookupsWork => DeletionProgress
-----------------------------------------------------------------------------
(* What is built on what.                                                  *)

\* What an object is built on comes before it.
LEMMA NeedsBefore ==
  ASSUME NEW n \in 1..Len(Tasks), Tasks[n] \in Required
  PROVE  Depends[Tasks[n]] \subseteq Before(n) \intersect Required
<1> DEFINE k == Tasks[n]
<1>1. k \in Managed
  BY DEF Required, RequiredOf
<1>2. Required \intersect (NameLookup \union {"ip", "lsw", "net", "root"}) = {}
  BY DEF Required, RequiredOf, Managed, Advanced, NameLookup
<1>3. SUFFICES ASSUME NEW j \in Required,
                      j = Parents[k] \/ \E a \in Uses[k] : j = Target(a)
               PROVE  j \in Before(n)
  BY <1>1 DEF Depends
<1>4. CASE j = Parents[k]
  BY <1>2, <1>4, ParentBefore
<1>5. ASSUME NEW a \in Uses[k], j = Target(a)
      PROVE  j \in Before(n)
  <2>1. CASE k = "seg"
    BY <1>1, <1>2, <1>5, <2>1, TaskOrder DEF Uses, UsesOf, Target, NameLookup
  <2>2. CASE k # "seg"
    <3>1. \/ k = "rule" /\ a = "ip"
          \/ k = "srv" /\ a \in {"prof", "net"}
          \/ k = "port" /\ a \in {"lsw", "srv"}
          \/ a \in {"t0", "ec"}
      BY <1>1, <1>5, <2>2 DEF Uses, UsesOf
    <3> QED BY <1>2, <1>5, <3>1, TaskOrder DEF Target, NameLookup
  <2> QED BY <2>1, <2>2
<1> QED BY <1>3, <1>4, <1>5

\* What is built on an object comes after it.
LEMMA NeedersAfter ==
  ASSUME NEW n \in 1..Len(Tasks), NEW j \in Required, Tasks[n] \in Depends[j]
  PROVE  j \in After(n)
<1>1. j \in Basic
  BY DEF Basic
<1>2. PICK m \in 1..Len(Tasks) : Tasks[m] = j
  BY <1>1, BasicTasks
<1>3. Tasks[n] \in Before(m)
  BY <1>2, NeedsBefore
<1> QED BY <1>2, <1>3, TasksDiffer DEF Before, After
-----------------------------------------------------------------------------
(* Each step of the controller and its environment preserves RInv.         *)

\* RInv gives what the effects of the single operations rely on.
LEMMA RInvTask == RInv => TaskInv
  BY IInvEnsurer DEF RInv, References, Pool, TaskInv

\* What stays true when references are copied, kept or forgotten while no
\* object of a task comes or goes.
LEMMA SameObjects ==
  ASSUME RInv, \A k \in Managed : Own(k)' = Own(k), nextId' \in Nat, nextId' >= nextId
  PROVE  /\ Placed' /\ Unique' /\ OwnManaged' = OwnManaged
         /\ (mem' = mem /\ Agree(mem)) \/ (mem' = saved /\ Agree(saved)) \/ mem' = NoRefs
              => Agree(mem)'
         /\ (saved' = saved /\ Agree(saved)) \/ (saved' = mem /\ Agree(mem)) => Agree(saved)'
         /\ (mem' = mem /\ Valid(mem)) \/ (mem' = saved /\ Valid(saved)) => Valid(mem)'
         /\ (saved' = saved /\ Valid(saved)) \/ (saved' = mem /\ Valid(mem)) => Valid(saved)'
         /\ mem' \in {mem, saved, NoRefs} => Fixed(mem)'
         /\ saved' \in {mem, saved} => Fixed(saved)'
<1>1. Unique' /\ OwnManaged' = OwnManaged
  BY DEF RInv, Unique, OwnManaged
<1>2. Placed'
  <2> SUFFICES ASSUME NEW k \in Managed, NEW o \in Own(k)'
               PROVE  /\ k \in Required /\ o.id < nextId' /\ IsPlace(Parents[k], o.parent)'
                      /\ k = "ls" => o.parent = o.id
    BY DEF Placed, Required, RequiredOf, IsExternal
  <2>1. o \in Own(k) /\ o.id \in Nat /\ nextId \in Nat
    BY DEF RInv, IInv, TypeOK, Own, Object
  <2>2. /\ k \in Required /\ o.id < nextId /\ IsPlace(Parents[k], o.parent)
        /\ k = "ls" => o.parent = o.id
    BY <2>1 DEF RInv, Placed
  <2>3. Parents[k] \in Managed \union {"root", "pool"}
    BY DEF Parents, Managed, Advanced
  <2>4. IsPlace(Parents[k], o.parent)'
    BY <2>2, <2>3 DEF IsPlace, IsExternal
  <2> QED BY <2>1, <2>2, <2>4
<1>3. Required \subseteq Managed /\ Required \subseteq Task
  BY DEF Required, RequiredOf, Task
<1>4. /\ (mem' = mem /\ Agree(mem)) \/ (mem' = saved /\ Agree(saved)) \/ mem' = NoRefs
           => Agree(mem)'
      /\ (saved' = saved /\ Agree(saved)) \/ (saved' = mem /\ Agree(mem)) => Agree(saved)'
  BY <1>3 DEF Agree, NoRefs, Required, RequiredOf, IsExternal
<1>5. /\ (mem' = mem /\ Valid(mem)) \/ (mem' = saved /\ Valid(saved)) => Valid(mem)'
      /\ (saved' = saved /\ Valid(saved)) \/ (saved' = mem /\ Valid(mem)) => Valid(saved)'
  BY <1>3 DEF Valid, Required, RequiredOf, IsExternal
<1>6. /\ mem' \in {mem, saved, NoRefs} => Fixed(mem)'
      /\ saved' \in {mem, saved} => Fixed(saved)'
  BY DEF RInv, References, Fixed, NoRefs, Task, Lookup, NameLookup, Managed
<1> QED BY <1>1, <1>2, <1>4, <1>5, <1>6

\* A reconciliation starts with the persisted references.
LEMMA StartReconcileRInv ==
  ASSUME RInv, IInv', StartFirstReconcile \/ StartReconcile
  PROVE  RInv'
<1>1. /\ pc = "idle" /\ ~deleting /\ ~gone
      /\ UNCHANGED <<nsxtVars, deleting, gone, hasState, saved, inputs>>
      /\ \/ pc' = "idle" /\ mem' = NoRefs /\ want' = want
         \/ pc' \in {"version", "recover"} /\ mem' = saved /\ want' = inputs /\ i' = 1
      /\ started => started'
  BY DEF StartFirstReconcile, StartReconcile, FirstTaskStep, Begin, ReturnError, Idle,
         confVars, PersistStarted
<1>2. \A k \in Managed : Own(k)' = Own(k)
  BY <1>1 DEF Own, nsxtVars
<1>3. nextId \in Nat /\ nextId' = nextId
  BY <1>1 DEF RInv, IInv, TypeOK, nsxtVars
<1>4. Agree(saved) /\ Valid(saved) /\ Agree(saved)
  BY <1>1 DEF RInv, References, Writing
<1>5. Phases'
  BY <1>1 DEF RInv, Phases
<1>6. References'
  BY <1>1, <1>2, <1>3, <1>4, SameObjects DEF RInv, References, Pool, Creating, Writing
<1>7. CreationProgress'
  <2>1. 1 \in 1..Len(Tasks)
    BY TasksDiffer
  <2>2. pc' \in {"version", "recover", "ensure"} => Before(i') = {}
    BY <1>1, <2>1, BeforeAfter
  <2> QED BY <1>1, <2>2 DEF CreationProgress, Before
<1>8. DeletionProgress'
  BY <1>1 DEF DeletionProgress
<1> QED BY <1>2, <1>3, <1>5, <1>6, <1>7, <1>8, SameObjects DEF RInv, LookupsWork

\* Asking NSX-T for its version changes no reference.
LEMMA NewStateRInv ==
  ASSUME RInv, IInv', NewStateWithVersion
  PROVE  RInv'
<1>1. /\ pc = "version"
      /\ UNCHANGED <<nsxtVars, want, deleting, gone, started, hasState, saved, inputs>>
      /\ \/ pc' = "idle" /\ mem' = NoRefs
         \/ pc' = "recover" /\ mem' = mem /\ i' = i
  BY DEF NewStateWithVersion, ReturnError, Idle, confVars
<1>2. \A k \in Managed : Own(k)' = Own(k)
  BY <1>1 DEF Own, nsxtVars
<1>3. nextId \in Nat /\ nextId' = nextId
  BY <1>1 DEF RInv, IInv, TypeOK, nsxtVars
<1>4. Agree(mem) /\ Agree(saved) /\ Valid(mem) /\ Valid(saved)
  BY <1>1 DEF RInv, References, Writing, Creating
<1>5. Phases'
  BY <1>1 DEF RInv, Phases
<1>6. References'
  BY <1>1, <1>2, <1>3, <1>4, SameObjects DEF RInv, References, Pool, Creating, Writing
<1>7. CreationProgress'
  BY <1>1, <1>2 DEF RInv, CreationProgress, Before, Resolved, Required, RequiredOf
<1>8. DeletionProgress'
  BY <1>1 DEF RInv, Phases, DeletionProgress
<1> QED BY <1>2, <1>3, <1>5, <1>6, <1>7, <1>8, SameObjects DEF RInv, LookupsWork

\* After tryRecover a nil reference means that there is no object.
LEMMA RecoverTaskRInv ==
  ASSUME RInv, IInv', SearchWorks, RecoverTask
  PROVE  RInv'
<1> DEFINE k == Tasks[i]
<1>1. /\ pc = "recover" /\ pc' = "ensure" /\ tryRecover(k, FALSE, "ok")
      /\ UNCHANGED <<i, want, deleting, gone, started, hasState, saved, inputs>>
  BY DEF RecoverTask, infraVars, confVars
<1>2. i \in 1..Len(Tasks) /\ k \in Task /\ TaskInv /\ nextId \in Nat
  BY RInvTask, TasksType DEF RInv, IInv, TypeOK
<1>3. \A j \in Before(i) \intersect Basic : Resolved(j)
  BY <1>1 DEF RInv, CreationProgress
<1>4. /\ TaskInv' /\ UNCHANGED nsxtVars /\ OnlyTask(k)
      /\ k \in Required => (mem'[k] = Nil <=> Own(k) = {}) \/ (mem' = mem /\ mem[k] # Nil)
      /\ k \notin Required => mem' = mem
  <2>1. CASE k \in Required /\ mem[k] = Nil
    <3>1. RecoverObject(k, "ok")
      BY <1>1, <2>1 DEF tryRecover, Required, RequiredOf, Lookup, NameLookup, Managed, Advanced
    <3>2. Parents[k] # "root" => mem[Parents[k]] # Nil
      BY <1>2, <1>3, <2>1, ParentBefore DEF Resolved
    <3>3. /\ TaskInv' /\ UNCHANGED nsxtVars /\ OnlyTask(k)
          /\ mem'[k] = Nil <=> Own(k) = {}
      BY <1>1, <1>2, <2>1, <3>1, <3>2, RecoverEffect DEF SearchWorks
    <3> QED BY <2>1, <3>3
  <2>2. CASE ~(k \in Required /\ mem[k] = Nil)
    <3>1. mem' = mem /\ UNCHANGED nsxtVars
      BY <1>1, <1>2, <2>2, RequiredTask DEF tryRecover
    <3>2. TaskInv'
      <4>1. EnsurerInv'
        BY NameAssumption DEF IInv, TypeOK, EnsurerInv, EnsurerTypeOK
      <4>2. (\A j \in Managed : Own(j)' = Own(j)) /\ nextId' = nextId
        BY <3>1 DEF Own, nsxtVars
      <4>3. Placed' /\ Unique' /\ Fixed(mem)' /\ Agree(mem)'
        BY <1>2, <3>1, <4>2, SameObjects DEF TaskInv
      <4> QED BY <1>1, <1>2, <4>1, <4>3 DEF TaskInv
    <3>3. OnlyTask(k)
      BY <3>1 DEF OnlyTask, Own, nsxtVars
    <3> QED BY <2>2, <3>1, <3>2, <3>3
  <2> QED BY <2>1, <2>2
<1>5. \A j \in Managed : Own(j)' = Own(j)
  BY <1>4 DEF Own, nsxtVars
<1>6. nextId' = nextId
  BY <1>4 DEF nsxtVars
<1>7. References'
  <2>1. Agree(mem)' /\ Fixed(mem)'
    BY <1>4 DEF TaskInv
  <2>2. Valid(mem)'
    <3> SUFFICES ASSUME NEW j \in Required \ Losable, mem'[j] # Nil
                 PROVE  Own(j)' # {}
      BY DEF Valid, Required, RequiredOf, IsExternal
    <3>1. j \in Managed /\ j \in Basic
      BY DEF Required, RequiredOf, Basic
    <3>2. mem[j] # Nil => Own(j) # {}
      BY <1>1 DEF RInv, References, Creating, Valid
    <3> QED BY <1>4, <1>5, <3>1, <3>2 DEF OnlyTask
  <2>3. Fixed(saved)' /\ Valid(saved)' /\ (Losable = {} => Agree(saved)')
    BY <1>1, <1>2, <1>5, <1>6, SameObjects DEF RInv, References, Creating
  <2> QED BY <1>1, <2>1, <2>2, <2>3 DEF RInv, References, Pool, Creating, Writing
<1>8. CreationProgress'
  <2>1. \A j \in Before(i) \intersect Basic : Resolved(j)'
    <3> SUFFICES ASSUME NEW j \in Before(i) \intersect Basic
                 PROVE  Resolved(j)'
      OBVIOUS
    <3>1. j # k
      BY <1>2, BeforeAfter
    <3>2. mem'[j] = mem[j] /\ (j \in Required => Own(j)' = Own(j))
      BY <1>4, <1>5, <3>1 DEF OnlyTask, Required, RequiredOf
    <3> QED BY <1>3, <3>2 DEF Resolved, Required, RequiredOf, IsExternal
  <2>2. k \in Required /\ mem'[k] = Nil => Own(k)' = {}
    BY <1>1, <1>4, <1>5 DEF Required, RequiredOf
  <2> QED BY <1>1, <2>1, <2>2 DEF CreationProgress, Before
<1>9. DeletionProgress' /\ Phases'
  BY <1>1 DEF RInv, Phases, DeletionProgress
<1> QED BY <1>4, <1>7, <1>8, <1>9 DEF RInv, TaskInv, LookupsWork

\* A step of one task leaves the persisted references as good as they were,
\* unless it creates an object that one of them should lead to.
LEMMA SavedStep ==
  ASSUME NEW k, OnlyTask(k), UNCHANGED saved, k \in Required => Keeps(k)
  PROVE  /\ Valid(saved) => Valid(saved)'
         /\ Agree(saved) /\ (k \in Required /\ saved[k] # Nil => Own(k) # {}) => Agree(saved)'
<1>1. Required \subseteq Managed
  BY DEF Required, RequiredOf
<1>2. ASSUME Valid(saved) PROVE Valid(saved)'
  <2> SUFFICES ASSUME NEW j \in Required \ Losable, saved[j] # Nil
               PROVE  Own(j)' # {}
    BY DEF Valid
  <2>1. Own(j) # {}
    BY <1>2 DEF Valid
  <2> QED BY <1>1, <2>1 DEF OnlyTask, Keeps
<1>3. ASSUME Agree(saved), k \in Required /\ saved[k] # Nil => Own(k) # {}
      PROVE  Agree(saved)'
  <2> SUFFICES ASSUME NEW j \in Required, NEW o \in Own(j)'
               PROVE  saved[j] \in {Nil, o.id}
    BY DEF Agree
  <2>1. CASE j # k
    BY <1>1, <1>3, <2>1 DEF OnlyTask, Agree
  <2>2. CASE j = k /\ saved[k] # Nil
    <3>1. PICK p \in Own(k) : o.id = p.id
      BY <1>3, <2>2 DEF Keeps
    <3> QED BY <1>3, <2>2, <3>1 DEF Agree
  <2> QED BY <2>1, <2>2
<1> QED BY <1>2, <1>3

\* After Ensure the reference leads to the object, or the run ends.
LEMMA EnsureTaskRInv ==
  ASSUME RInv, IInv', NothingForgotten(Losable), EnsureTask
  PROVE  RInv'
<1>a. i \in 1..Len(Tasks) /\ Tasks[i] \in Task
  BY TasksType DEF RInv, IInv, TypeOK
<1>b. PICK k \in Task : k = Tasks[i]
  BY <1>a
<1>1. /\ pc = "ensure"
      /\ UNCHANGED <<want, deleting, gone, started, hasState, saved, inputs>>
  BY DEF EnsureTask, infraVars, confVars
<1>2. PICK res \in Result : Ensure(k, res) /\ AfterEnsure(res, Len(Tasks))
  BY <1>b DEF EnsureTask
<1>3. TaskInv /\ Len(Tasks) \in Nat
  BY RInvTask, TasksType
<1>4. \A j \in Before(i) \intersect Basic : Resolved(j)
  BY <1>1 DEF RInv, CreationProgress
<1>5. Valid(mem) /\ Valid(saved)
  BY <1>1 DEF RInv, References, Creating
<1>6. /\ TaskInv' /\ OnlyTask(k) /\ res # "panic"
      /\ k \in Required => Keeps(k)
      /\ res = "ok" /\ k \in Basic => mem'[k] # Nil /\ (k \in Required => Own(k)' # {})
      /\ k \in Required \ Losable /\ mem'[k] # Nil => Own(k)' # {}
  <2>1. k \in Required /\ mem[k] = Nil => Own(k) = {}
    BY <1>1, <1>b DEF RInv, CreationProgress
  <2>2. k \in Required \ Losable /\ mem[k] # Nil => Own(k) # {}
    BY <1>5 DEF Valid
  <2> QED BY <1>a, <1>b, <1>1, <1>2, <1>3, <1>4, <2>1, <2>2, EnsureEffect
<1>7. \/ pc' = "save"
      \/ pc' = "recover" /\ res = "ok" /\ i < Len(Tasks) /\ i' = i + 1
  BY <1>2, <1>6 DEF AfterEnsure
<1>8. Valid(mem)'
  <2> SUFFICES ASSUME NEW j \in Required \ Losable, mem'[j] # Nil
               PROVE  Own(j)' # {}
    BY DEF Valid
  <2>1. j \in Managed /\ j \in Basic
    BY DEF Required, RequiredOf, Basic
  <2> QED BY <1>5, <1>6, <2>1 DEF OnlyTask, Valid
<1>9. Valid(saved)' /\ (Losable = {} => Agree(saved)')
  <2>1. Losable = {} => Agree(saved) /\ (k \in Required /\ saved[k] # Nil => Own(k) # {})
    BY <1>5 DEF RInv, References, Valid
  <2> QED BY <1>1, <1>5, <1>6, <2>1, SavedStep
<1>10. Fixed(saved)'
  BY <1>1 DEF RInv, References, Fixed
<1>11. References'
  BY <1>1, <1>6, <1>7, <1>8, <1>9, <1>10
     DEF RInv, References, Pool, Writing, Creating, TaskInv
<1>12. CreationProgress'
  <2> SUFFICES ASSUME pc' = "recover", NEW j \in Before(i)' \intersect Basic
               PROVE  Resolved(j)'
    BY <1>7 DEF CreationProgress
  <2>1. i' = i + 1 /\ res = "ok"
    BY <1>7
  <2>2. Before(i + 1) = Before(i) \union {k}
    BY <1>a, <1>b, BeforeAfter
  <2>3. Before(i)' = Before(i + 1)
    BY <2>1 DEF Before
  <2>4. CASE j = k
    BY <1>6, <2>1, <2>4 DEF Resolved
  <2>5. CASE j # k
    <3>1. Resolved(j)
      BY <1>4, <2>2, <2>3, <2>5
    <3> QED BY <1>6, <2>5, <3>1 DEF Resolved, OnlyTask, Required, RequiredOf
  <2> QED BY <2>4, <2>5
<1>13. DeletionProgress' /\ Phases'
  BY <1>1, <1>7 DEF RInv, Phases, DeletionProgress
<1> QED BY <1>6, <1>11, <1>12, <1>13 DEF RInv, TaskInv

\* Steps that touch no object of a task and keep or drop the references in memory.
LEMMA QuietStep ==
  ASSUME RInv, IInv', \A k \in Managed : Own(k)' = Own(k), nextId' >= nextId,
         mem' \in {mem, saved, NoRefs}, mem' = saved => Agree(saved) \/ mem' = NoRefs,
         UNCHANGED <<want, inputs, saved>>,
         pc' \notin Creating, pc' = "idle" => mem' = NoRefs,
         pc \in Writing /\ pc' # pc => Agree(saved),
         deleting' \/ (~deleting /\ Valid(saved)), Phases', LookupsWork => DeletionProgress'
  PROVE  RInv'
<1>1. nextId' \in Nat
  BY DEF IInv, TypeOK
<1>2. Agree(mem) /\ Fixed(mem) /\ Fixed(saved) /\ Pool
  BY DEF RInv, References
<1>3. Agree(mem)' /\ Fixed(mem)' /\ Fixed(saved)'
  BY <1>1, <1>2, SameObjects
<1>4. pc' \notin Writing \/ Losable = {} => Agree(saved)'
  <2>1. Agree(saved)
    BY DEF RInv, References, Writing, Creating
  <2> QED BY <1>1, <2>1, SameObjects
<1>5. pc' \in Creating \/ ~deleting' => Valid(saved)'
  BY <1>1, SameObjects
<1>6. References'
  BY <1>2, <1>3, <1>4, <1>5 DEF References, Pool
<1>7. CreationProgress'
  BY DEF CreationProgress, Creating
<1> QED BY <1>1, <1>6, <1>7, SameObjects DEF RInv, LookupsWork

\* Without a persisted state a deletion goes straight to the finalizer.
LEMMA NothingToDeleteRInv ==
  ASSUME RInv, IInv', NothingToDelete
  PROVE  RInv'
<1>1. /\ pc = "idle" /\ pc' = "finalize" /\ deleting /\ ~gone /\ ~(hasState /\ started)
      /\ UNCHANGED <<mem, want, deleting, gone, started, hasState, saved, inputs, nsxt, nextId>>
  BY DEF NothingToDelete, confVars, nsxtVars
<1>2. (\A k \in Managed : Own(k)' = Own(k)) /\ nextId' >= nextId
  BY <1>1 DEF Own, RInv, IInv, TypeOK
<1>3. Phases'
  BY <1>1 DEF RInv, Phases
<1>4. DeletionProgress'
  BY <1>1 DEF RInv, Phases, DeletionProgress
<1>5. mem' = NoRefs
  BY <1>1 DEF RInv, References
<1> QED BY <1>1, <1>2, <1>3, <1>4, <1>5, QuietStep DEF Creating, Writing

\* A crash or a panic loses the references in memory; the persisted ones are right.
LEMMA StopRInv ==
  ASSUME RInv, IInv', NothingForgotten(Losable), Crash \/ Restart
  PROVE  RInv'
<1>1. /\ pc # "idle" /\ pc' = "idle" /\ mem' = NoRefs
      /\ UNCHANGED <<want, deleting, gone, started, hasState, saved, inputs, nsxt, nextId>>
      /\ pc = "panic" \/ "crash" \in Faults
  BY DEF Crash, Restart, Idle, Fault, infraVars, confVars, nsxtVars
<1>2. (\A k \in Managed : Own(k)' = Own(k)) /\ nextId' >= nextId
  BY <1>1 DEF Own, RInv, IInv, TypeOK
<1>3. Phases' /\ ~gone
  BY <1>1 DEF RInv, Phases
<1>4. DeletionProgress'
  BY <1>1, <1>3 DEF DeletionProgress
<1>5. pc \in Writing => Agree(saved)
  BY <1>1 DEF RInv, References, NothingForgotten, Writing
<1>6. deleting \/ Valid(saved)
  BY DEF RInv, References
<1> QED BY <1>1, <1>2, <1>3, <1>4, <1>5, <1>6, QuietStep DEF Creating

\* The resource vanishes only after a deletion that found everything.
LEMMA RemoveFinalizerRInv ==
  ASSUME RInv, IInv', RemoveFinalizer
  PROVE  RInv'
<1>1. /\ pc = "finalize" /\ pc' = "idle" /\ mem' = NoRefs
      /\ UNCHANGED <<want, deleting, started, hasState, saved, inputs, nsxt, nextId>>
  BY DEF RemoveFinalizer, Idle, confVars, nsxtVars
<1>2. (\A k \in Managed : Own(k)' = Own(k)) /\ nextId' >= nextId
  BY <1>1 DEF Own, RInv, IInv, TypeOK
<1>3. deleting /\ ~gone
  BY <1>1 DEF RInv, Phases
<1>4. Phases'
  BY <1>1, <1>3 DEF RInv, Phases
<1>5. LookupsWork => DeletionProgress'
  BY <1>1, <1>2 DEF RInv, DeletionProgress, OwnManaged
<1> QED BY <1>1, <1>2, <1>3, <1>4, <1>5, QuietStep DEF Creating, Writing

\* Deletion can be requested at any time, also while the tasks run.
LEMMA RequestDeletionRInv ==
  ASSUME RInv, IInv', RequestDeletion
  PROVE  RInv'
<1>1. /\ ~deleting /\ deleting'
      /\ UNCHANGED <<mem, want, faults, gone, started, hasState, saved, inputs, nsxt, nextId,
                     pc, i, failed>>
  BY DEF RequestDeletion, confVars, procVars, ensurerVars, nsxtVars
<1>2. (\A k \in Managed : Own(k)' = Own(k)) /\ nextId' \in Nat /\ nextId' >= nextId
  BY <1>1 DEF Own, RInv, IInv, TypeOK
<1>3. Phases'
  BY <1>1 DEF RInv, Phases
<1>4. References'
  BY <1>1, <1>2, SameObjects DEF RInv, References, Pool
<1>5. CreationProgress'
  BY <1>1, <1>2 DEF RInv, CreationProgress, Before, Resolved, Required, RequiredOf
<1>6. DeletionProgress'
  BY <1>1 DEF RInv, Phases, DeletionProgress
<1> QED BY <1>2, <1>3, <1>4, <1>5, <1>6, SameObjects DEF RInv, LookupsWork

\* Inputs and credentials can change at any time, except for the pool.
LEMMA ConfigurationRInv ==
  ASSUME RInv, IInv', SearchWorks, ChangeInput \/ BreakCredentials \/ RepairCredentials
  PROVE  RInv'
<1>1. UNCHANGED <<mem, want, deleting, gone, started, hasState, saved, nsxt, nextId, pc, i, failed>>
  BY DEF ChangeInput, BreakCredentials, RepairCredentials, infraVars, procVars, ensurerVars,
         nsxtVars
<1>2. (\A k \in Managed : Own(k)' = Own(k)) /\ nextId' \in Nat /\ nextId' >= nextId
  BY <1>1 DEF Own, RInv, IInv, TypeOK
<1>3. inputs'["pool"] = inputs["pool"]
  <2>1. "pool" \in Input /\ inputs \in [Input -> Name]
    BY DEF Input, NameLookup, RInv, IInv, TypeOK
  <2> QED BY <2>1 DEF ChangeInput, BreakCredentials, RepairCredentials, SearchWorks
<1>4. References'
  BY <1>1, <1>2, <1>3, SameObjects DEF RInv, References, Pool
<1>5. CreationProgress'
  BY <1>1, <1>2 DEF RInv, CreationProgress, Before, Resolved, Required, RequiredOf
<1>6. LookupsWork => DeletionProgress'
  BY <1>1, <1>2 DEF RInv, DeletionProgress, Before, After, Found, OwnManaged, Required, RequiredOf
<1>7. Phases'
  BY <1>1 DEF RInv, Phases
<1> QED BY <1>2, <1>4, <1>5, <1>6, <1>7, SameObjects DEF RInv, LookupsWork

\* A load balancer is no object of a task.
LEMMA CreateLoadBalancerRInv ==
  ASSUME RInv, IInv', CreateLoadBalancer
  PROVE  RInv'
<1>1. PICK g \in Own("t1") :
        Put([kind |-> "lb", id |-> nextId, parent |-> Nil, owner |-> "shoot",
             attrs |-> [a \in Attr |-> IF a = "t1" THEN g.id ELSE Nil]])
  BY DEF CreateLoadBalancer
<1> DEFINE new == [kind |-> "lb", id |-> nextId, parent |-> Nil, owner |-> "shoot",
                   attrs |-> [a \in Attr |-> IF a = "t1" THEN g.id ELSE Nil]]
<1>2. new.kind = "lb" /\ new.id = nextId /\ Put(new)
  BY <1>1
<1> HIDE DEF new
<1>3. /\ ~deleting
      /\ UNCHANGED <<mem, want, deleting, gone, started, hasState, saved, inputs, pc, i, failed>>
  BY DEF CreateLoadBalancer, infraVars, confVars, procVars
<1>4. \A k \in Managed : Own(k)' = Own(k)
  BY <1>2 DEF Put, At, Own, Managed, Advanced
<1>5. nextId' \in Nat /\ nextId' >= nextId
  BY <1>2 DEF Put, RInv, IInv, TypeOK
<1>6. References'
  BY <1>3, <1>4, <1>5, SameObjects DEF RInv, References, Pool
<1>7. CreationProgress'
  BY <1>3, <1>4 DEF RInv, CreationProgress, Before, Resolved, Required, RequiredOf
<1>8. Phases' /\ DeletionProgress'
  BY <1>3 DEF RInv, Phases, DeletionProgress
<1> QED BY <1>4, <1>5, <1>6, <1>7, <1>8, SameObjects DEF RInv, LookupsWork

\* A deletion starts with the persisted references and removes load balancers.
LEMMA StartDeleteRInv ==
  ASSUME RInv, IInv', StartDelete
  PROVE  RInv'
<1>1. /\ pc = "idle" /\ ~gone /\ deleting
      /\ UNCHANGED <<nextId, deleting, gone, started, hasState, saved, inputs>>
      /\ \/ pc' = "idle" /\ mem' = NoRefs /\ want' = want
         \/ pc' = "recoverAll" /\ mem' = saved /\ want' = inputs /\ i' = 1
      /\ nsxt' \in {nsxt, nsxt \ Own("lb")}
  BY DEF StartDelete, Begin, ReturnError, Idle, confVars, nsxtVars
<1>2. \A k \in Managed : Own(k)' = Own(k)
  BY <1>1 DEF Own, Managed, Advanced
<1>3. nextId' \in Nat /\ nextId' >= nextId /\ Agree(saved)
  BY <1>1 DEF RInv, IInv, TypeOK, References, Writing
<1>4. Phases'
  BY <1>1 DEF RInv, Phases
<1>5. References'
  BY <1>1, <1>2, <1>3, SameObjects DEF RInv, References, Pool, Creating, Writing
<1>6. CreationProgress'
  BY <1>1 DEF CreationProgress
<1>7. DeletionProgress'
  <2>1. 1 \in 1..Len(Tasks)
    BY TasksDiffer
  <2>2. pc' = "recoverAll" => Before(i') = {}
    BY <1>1, <2>1, BeforeAfter
  <2> QED BY <1>1, <2>2 DEF DeletionProgress, Before
<1> QED BY <1>2, <1>3, <1>4, <1>5, <1>6, <1>7, SameObjects DEF RInv, LookupsWork

\* What was in memory is persisted; a failed update keeps what was persisted.
LEMMA SaveStatusRInv ==
  ASSUME RInv, IInv', NothingForgotten(Losable), SaveStatus
  PROVE  RInv'
<1>1. /\ pc \in {"save", "saveDeleted"} /\ mem' = NoRefs
      /\ UNCHANGED <<want, deleting, gone, inputs, nsxt, nextId>>
      /\ \/ saved' = mem /\ hasState' /\ started'
         \/ UNCHANGED <<saved, hasState, started>> /\ "status" \in Faults /\ pc' = "idle"
      /\ \/ pc' = "idle"
         \/ pc' = "finalize" /\ pc = "saveDeleted" /\ ~failed
  BY DEF SaveStatus, Persist, ReturnError, Idle, confVars, nsxtVars, Fault
<1>2. (\A k \in Managed : Own(k)' = Own(k)) /\ nextId' \in Nat /\ nextId' >= nextId
  BY <1>1 DEF Own, RInv, IInv, TypeOK
<1>3. Phases'
  BY <1>1 DEF RInv, Phases
<1>4. Agree(mem) /\ (saved' = saved => Agree(saved) \/ saved' = mem)
  <2>1. pc \notin Writing \/ Losable = {} => Agree(saved)
    BY DEF RInv, References
  <2>2. "status" \in Faults => Losable = {}
    BY <1>1 DEF NothingForgotten
  <2> QED BY <1>1, <2>1, <2>2 DEF RInv, References, Writing
<1>5. ~deleting' => Valid(saved) /\ Valid(mem)
  BY <1>1 DEF RInv, References, Phases, Creating
<1>6. Agree(saved)' /\ Fixed(saved)' /\ Fixed(mem)' /\ Agree(mem)'
  BY <1>1, <1>2, <1>4, SameObjects
<1>7. ~deleting' => Valid(saved)'
  BY <1>1, <1>2, <1>5, SameObjects
<1>8. References'
  BY <1>1, <1>6, <1>7 DEF RInv, References, Pool, Creating
<1>9. CreationProgress'
  BY <1>1 DEF CreationProgress
<1>10. LookupsWork => DeletionProgress'
  <2>1. pc' = "finalize" /\ LookupsWork => OwnManaged = {}
    BY <1>1 DEF RInv, DeletionProgress
  <2>2. ~gone'
    BY <1>1 DEF RInv, Phases
  <2> QED BY <1>1, <1>2, <2>1, <2>2 DEF DeletionProgress, OwnManaged
<1> QED BY <1>2, <1>3, <1>8, <1>9, <1>10, SameObjects DEF RInv, LookupsWork

\* Objects deleted by others leave the rest of the tree in place.
LEMMA LoseObjectsRInv ==
  ASSUME RInv, IInv', LoseObjects
  PROVE  RInv'
<1>1. /\ pc = "idle" /\ ~gone
      /\ UNCHANGED <<nextId, mem, want, deleting, gone, started, hasState, saved, inputs,
                     pc, i, failed>>
  BY DEF LoseObjects, infraVars, confVars, procVars
<1>2. PICK S \in SUBSET UNION {Own(k) : k \in Losable} :
        /\ \A p \in nsxt \ S, o \in S : ~RefersTo(p, o, Tracked)
        /\ nsxt' = nsxt \ S
  BY DEF LoseObjects
<1>3. /\ \A k \in Managed : Own(k)' = Own(k) \ S
      /\ \A k \in Managed \ Losable : Own(k)' = Own(k)
  BY <1>2, LosableAssumption DEF Own
<1>4. Unique'
  BY <1>3 DEF RInv, Unique
<1>5. Placed'
  <2> SUFFICES ASSUME NEW j \in Managed, NEW p \in Own(j)'
               PROVE  /\ j \in Required /\ p.id < nextId' /\ IsPlace(Parents[j], p.parent)'
                      /\ j = "ls" => p.parent = p.id
    BY DEF Placed, Required, RequiredOf, IsExternal
  <2>1. p \in Own(j) /\ p \in nsxt \ S /\ p.kind = j
    BY <1>2, <1>3 DEF Own
  <2>2. /\ j \in Required /\ p.id < nextId /\ IsPlace(Parents[j], p.parent)
        /\ j = "ls" => p.parent = p.id
    BY <2>1 DEF RInv, Placed
  <2>3. IsPlace(Parents[j], p.parent)'
    <3>1. CASE Parents[j] \in {"root", "pool"} \/ IsExternal(Parents[j])
      BY <2>2, <3>1 DEF IsPlace, IsExternal
    <3>2. CASE Parents[j] \notin {"root", "pool"} /\ ~IsExternal(Parents[j])
      <4>1. PICK g \in Own(Parents[j]) : g.id = p.parent
        BY <2>2, <3>2 DEF IsPlace
      <4>2. RefersTo(p, g, Tracked)
        <5>1. ParentOf(p.kind) = Parents[j]
          BY <2>1 DEF ParentOf, Managed, Advanced
        <5> QED BY <4>1, <5>1 DEF RefersTo, Own
      <4>3. Parents[j] \in Managed
        BY <3>2 DEF Parents, Managed, Advanced
      <4>4. g \in Own(Parents[j])'
        BY <1>2, <1>3, <2>1, <4>1, <4>2, <4>3
      <4> QED BY <3>2, <4>1, <4>4 DEF IsPlace, IsExternal
    <3> QED BY <3>1, <3>2
  <2> QED BY <1>1, <2>1, <2>2, <2>3
<1>6. Required \subseteq Managed
  BY DEF Required, RequiredOf
<1>7. Agree(mem)' /\ Agree(saved)' /\ Fixed(mem)' /\ Fixed(saved)'
  BY <1>1, <1>3, <1>6 DEF RInv, References, Agree, Fixed, Writing
<1>8. Valid(saved) => Valid(saved)'
  BY <1>1, <1>3, <1>6 DEF Valid
<1>9. References'
  BY <1>1, <1>7, <1>8 DEF RInv, References, Pool, Creating
<1>10. CreationProgress' /\ DeletionProgress' /\ Phases'
  BY <1>1 DEF RInv, CreationProgress, DeletionProgress, Phases
<1> QED BY <1>4, <1>5, <1>9, <1>10 DEF RInv, LookupsWork

\* Before a deletion every object gets its reference back.
LEMMA RecoverBeforeDeleteRInv ==
  ASSUME RInv, IInv', SearchWorks, RecoverBeforeDelete
  PROVE  RInv'
<1>a. i \in 1..Len(Tasks) /\ Tasks[i] \in Task
  BY TasksType DEF RInv, IInv, TypeOK
<1>b. PICK k \in Task : k = Tasks[i]
  BY <1>a
<1>1. /\ pc = "recoverAll"
      /\ UNCHANGED <<failed, want, deleting, gone, started, hasState, saved, inputs>>
  BY DEF RecoverBeforeDelete, infraVars, confVars
<1>2. PICK res \in Result : tryRecover(k, TRUE, res) /\ AfterRecoverAll(res, Len(Tasks))
  BY <1>b DEF RecoverBeforeDelete
<1>3. TaskInv /\ Len(Tasks) \in Nat
  BY RInvTask, TasksType
<1>4. LookupsWork => \A j \in Before(i) \intersect Basic : Found(j)
  BY <1>1 DEF RInv, DeletionProgress
<1>5. deleting /\ ~gone
  BY <1>1 DEF RInv, Phases
<1>6. /\ TaskInv' /\ UNCHANGED nsxtVars /\ OnlyTask(k)
      /\ LookupsWork /\ k \in Basic /\ mem'[k] = Nil => k \in Required /\ Own(k) = {}
  <2>1. CASE k \in Required /\ mem[k] = Nil
    <3>1. RecoverObject(k, res)
      BY <1>2, <2>1 DEF tryRecover, Required, RequiredOf, Lookup, NameLookup, Managed, Advanced
    <3>2. /\ TaskInv' /\ UNCHANGED nsxtVars /\ OnlyTask(k)
          /\ (Parents[k] # "root" => mem[Parents[k]] # Nil) /\ Own(k) # {} => mem'[k] # Nil
      BY <1>1, <1>3, <2>1, <3>1, RecoverEffect DEF SearchWorks
    <3>3. LookupsWork /\ Parents[k] # "root" /\ mem[Parents[k]] = Nil => Own(k) = {}
      <4> SUFFICES ASSUME LookupsWork, Parents[k] # "root", mem[Parents[k]] = Nil
                   PROVE  Own(k) = {}
        OBVIOUS
      <4>1. Found(Parents[k])
        BY <1>a, <1>b, <1>4, <2>1, ParentBefore
      <4> QED BY <1>3, <2>1, <4>1, NoParentNoObject
    <3> QED BY <2>1, <3>2, <3>3
  <2>2. CASE mem[k] = Nil /\ (k \in Lookup \/ (k \in Managed /\ IsExternal(k)))
    <3>1. Ensure(k, res)
      BY <1>2, <2>2 DEF tryRecover, Lookup, NameLookup, Managed, Advanced
    <3>2. /\ TaskInv' /\ UNCHANGED nsxtVars /\ \A j \in Task \ {k} : mem'[j] = mem[j]
          /\ LookupsWork /\ k \in Basic => mem'[k] # Nil
      BY <1>1, <1>3, <2>2, <3>1, LookupEffect
    <3>3. OnlyTask(k)
      BY <3>2, BasicTasks DEF OnlyTask, Own, nsxtVars
    <3> QED BY <3>2, <3>3
  <2>3. CASE mem[k] # Nil
    <3>1. mem' = mem /\ UNCHANGED nsxtVars
      BY <1>2, <2>3 DEF tryRecover
    <3>2. EnsurerInv'
      BY NameAssumption DEF IInv, TypeOK, EnsurerInv, EnsurerTypeOK
    <3>3. (\A j \in Managed : Own(j)' = Own(j)) /\ nextId' = nextId /\ nextId \in Nat
      BY <3>1 DEF Own, nsxtVars, RInv, IInv, TypeOK
    <3>4. Placed' /\ Unique' /\ Fixed(mem)' /\ Agree(mem)'
      BY <1>3, <3>1, <3>3, SameObjects DEF TaskInv
    <3>5. TaskInv' /\ OnlyTask(k)
      BY <1>1, <1>3, <3>1, <3>2, <3>3, <3>4 DEF TaskInv, OnlyTask
    <3> QED BY <2>3, <3>1, <3>5
  <2>4. k \in Required \/ k \in Lookup \/ (k \in Managed /\ IsExternal(k))
    BY <1>a, <1>b, RequiredTask DEF Task
  <2> QED BY <2>1, <2>2, <2>3, <2>4
<1>7. \/ pc' = "panic"
      \/ pc' = "recoverAll" /\ i < Len(Tasks) /\ i' = i + 1
      \/ pc' = "delete" /\ i = Len(Tasks) /\ i' = i
  BY <1>a, <1>1, <1>2, <1>3 DEF AfterRecoverAll
<1>8. (\A j \in Managed : Own(j)' = Own(j)) /\ nextId' \in Nat /\ nextId' >= nextId
  BY <1>6 DEF Own, nsxtVars, RInv, IInv, TypeOK
<1>9. References'
  <2>1. Agree(saved)' /\ Fixed(saved)'
    <3>1. Agree(saved)
      BY <1>1 DEF RInv, References, Writing
    <3> QED BY <1>1, <1>8, <3>1, SameObjects
  <2> QED BY <1>1, <1>5, <1>6, <1>7, <2>1 DEF RInv, References, Pool, Writing, Creating, TaskInv
<1>10. CreationProgress' /\ Phases'
  BY <1>1, <1>5, <1>7 DEF RInv, Phases, CreationProgress
<1>11. ASSUME LookupsWork PROVE DeletionProgress'
  <2>1. \A j \in (Before(i) \union {k}) \intersect Basic : Found(j)'
    <3> SUFFICES ASSUME NEW j \in (Before(i) \union {k}) \intersect Basic
                 PROVE  Found(j)'
      OBVIOUS
    <3>1. CASE j = k
      BY <1>6, <1>8, <1>11, <3>1 DEF Found, Required, RequiredOf, IsExternal
    <3>2. CASE j # k
      BY <1>4, <1>6, <1>8, <1>11, <3>2 DEF Found, OnlyTask, Required, RequiredOf, IsExternal
    <3> QED BY <3>1, <3>2
  <2>2. Before(i + 1) = Before(i) \union {k}
    BY <1>a, <1>b, BeforeAfter
  <2>3. pc' = "recoverAll" => \A j \in Before(i)' \intersect Basic : Found(j)'
    BY <1>7, <2>1, <2>2 DEF Before
  <2>4. pc' = "delete" => (\A j \in Basic : Found(j)') /\ After(i)' = {}
    <3>1. ASSUME i = Len(Tasks)
          PROVE  Basic \subseteq Before(i) \union {k} /\ After(i) = {}
      BY <1>a, <1>b, <3>1, BeforeAfter
    <3> QED BY <1>7, <2>1, <3>1 DEF After
  <2> QED BY <1>5, <1>1, <1>7, <2>3, <2>4 DEF DeletionProgress
<1> QED BY <1>6, <1>9, <1>10, <1>11 DEF RInv, TaskInv, LookupsWork

\* Objects disappear in the reverse order of creation.
LEMMA DeleteTaskRInv ==
  ASSUME RInv, IInv', DeleteTask
  PROVE  RInv'
<1>a. i \in 1..Len(Tasks) /\ Tasks[i] \in Task
  BY TasksType DEF RInv, IInv, TypeOK
<1>b. PICK k \in Task : k = Tasks[i]
  BY <1>a
<1>1. /\ pc = "delete"
      /\ UNCHANGED <<want, deleting, gone, started, hasState, saved, inputs>>
  BY DEF DeleteTask, infraVars, confVars
<1>2. PICK res \in Result : EnsureDeleted(k, res) /\ AfterDelete(res, Len(Tasks))
  BY <1>b DEF DeleteTask
<1>3. TaskInv /\ Len(Tasks) \in Nat
  BY RInvTask, TasksType
<1>4. deleting /\ ~gone
  BY <1>1 DEF RInv, Phases
<1>5. /\ TaskInv' /\ OnlyTask(k)
      /\ k \in Required => Own(k)' \in {{}, Own(k)}
      /\ k \notin Required => UNCHANGED nsxtVars /\ \A j \in Basic : mem'[j] = mem[j]
      /\ (\A j \in Basic : Found(j)) /\ k \in Required =>
           (res = "ok" \/ mem'[k] = Nil => Own(k)' = {})
  BY <1>a, <1>b, <1>1, <1>2, <1>3, DeleteEffect
<1>6. \/ pc' = "panic"
      \/ pc' = "saveDeleted" /\ res = "err" /\ failed'
      \/ pc' = "delete" /\ res = "ok" /\ i > 1 /\ i' = i - 1
      \/ pc' = "saveDeleted" /\ res = "ok" /\ i = 1
  BY <1>a, <1>1, <1>2, <1>3 DEF AfterDelete, Result
<1>7. References'
  <2>1. Agree(saved)'
    <3> SUFFICES ASSUME NEW j \in Required, NEW o \in Own(j)'
                 PROVE  saved[j] \in {Nil, o.id}
      BY <1>1 DEF Agree, Required, RequiredOf, IsExternal
    <3>1. j \in Managed /\ Agree(saved)
      BY <1>1 DEF Required, RequiredOf, RInv, References, Writing
    <3>2. o \in Own(j)
      BY <1>5, <3>1 DEF OnlyTask
    <3> QED BY <3>1, <3>2 DEF Agree
  <2>2. Fixed(saved)'
    BY <1>1 DEF RInv, References, Fixed
  <2> QED BY <1>1, <1>4, <1>5, <1>6, <2>1, <2>2
          DEF RInv, References, Pool, Writing, Creating, TaskInv
<1>8. CreationProgress' /\ Phases'
  BY <1>1, <1>4, <1>6 DEF RInv, Phases, CreationProgress
<1>9. ASSUME LookupsWork PROVE DeletionProgress'
  <2>1. /\ \A j \in Basic : Found(j)
        /\ \A j \in After(i) \intersect Required : Own(j) = {}
    BY <1>1, <1>9 DEF RInv, DeletionProgress
  <2>2. ASSUME NEW j \in Basic PROVE Found(j)'
    <3>1. Found(j)
      BY <2>1
    <3>2. CASE j = k /\ k \in Required
      BY <1>5, <2>1, <3>2 DEF Found, Required, RequiredOf, IsExternal
    <3>3. CASE j # k
      BY <1>5, <3>1, <3>3 DEF Found, OnlyTask, Required, RequiredOf, IsExternal
    <3>4. CASE k \notin Required
      BY <1>5, <3>1, <3>4 DEF Found, Own, nsxtVars, Required, RequiredOf, IsExternal
    <3> QED BY <3>2, <3>3, <3>4
  <2>3. ASSUME res = "ok", NEW j \in (After(i) \union {k}) \intersect Required
        PROVE  Own(j)' = {}
    <3>1. CASE j = k
      BY <1>5, <2>1, <2>3, <3>1
    <3>2. CASE j # k
      BY <1>5, <2>1, <2>3, <3>2 DEF OnlyTask, Required, RequiredOf
    <3> QED BY <3>1, <3>2
  <2>4. CASE pc' = "delete"
    <3>1. After(i') = After(i) \union {k}
      BY <1>a, <1>b, <1>6, <2>4, BeforeAfter
    <3>2. \A j \in After(i') \intersect Required : Own(j)' = {}
      BY <1>6, <2>3, <2>4, <3>1
    <3> QED BY <1>1, <1>4, <2>2, <2>4, <3>2 DEF DeletionProgress, After
  <2>5. CASE pc' = "saveDeleted" /\ ~failed'
    <3>1. res = "ok" /\ i = 1
      BY <1>6, <2>5
    <3>2. Required \subseteq After(i) \union {k}
      BY <1>a, <1>b, <3>1, BeforeAfter DEF Basic
    <3>3. \A j \in Managed : Own(j)' = {}
      <4>1. ASSUME NEW j \in Managed, Own(j)' # {} PROVE j \in Required
        BY <1>5, <4>1 DEF TaskInv, Placed, Required, RequiredOf, IsExternal
      <4> QED BY <2>3, <3>1, <3>2, <4>1
    <3> QED BY <1>1, <1>4, <2>5, <3>3 DEF DeletionProgress, OwnManaged
  <2> QED BY <1>1, <1>4, <1>6, <2>4, <2>5 DEF DeletionProgress
<1> QED BY <1>5, <1>7, <1>8, <1>9 DEF RInv, TaskInv, LookupsWork

\* A stuttering step changes nothing.
LEMMA StutterRInv ==
  ASSUME RInv, IInv', UNCHANGED vars
  PROVE  RInv'
<1>1. UNCHANGED <<nsxt, nextId, mem, want, faults, deleting, gone, started, hasState, saved, lastOp,
                  inputs, credentials, pc, i, failed>>
  BY DEF vars, nsxtVars, ensurerVars, infraVars, confVars, procVars
<1>2. (\A k \in Managed : Own(k)' = Own(k)) /\ nextId' \in Nat /\ nextId' >= nextId
  BY <1>1 DEF Own, RInv, IInv, TypeOK
<1>3. References' /\ Phases'
  BY <1>1, <1>2, SameObjects DEF RInv, References, Pool, Phases
<1>4. CreationProgress'
  BY <1>1, <1>2 DEF RInv, CreationProgress, Before, Resolved, Required, RequiredOf
<1>5. LookupsWork => DeletionProgress'
  BY <1>1, <1>2 DEF RInv, DeletionProgress, Before, After, Found, OwnManaged, Required, RequiredOf
<1> QED BY <1>2, <1>3, <1>4, <1>5, SameObjects DEF RInv, LookupsWork
-----------------------------------------------------------------------------
(* The theorems.                                                           *)

\* Initially the shoot has neither objects nor references.
LEMMA InitRInv == Init => RInv
<1> SUFFICES ASSUME Init PROVE RInv
  OBVIOUS
<1>1. IInv
  BY InitIInv
<1>2. \A k \in Managed : Own(k) = {}
  BY OthersAssumption DEF Init, Own
<1>3. Placed /\ Unique
  BY <1>2 DEF Placed, Unique
<1>4. Phases /\ CreationProgress /\ DeletionProgress
  BY DEF Init, Phases, CreationProgress, DeletionProgress
<1>5. References
  <2>1. Fixed(NoRefs) /\ Agree(NoRefs) /\ Valid(NoRefs)
    BY DEF Fixed, Agree, Valid, NoRefs, Task, Managed, Lookup, NameLookup, Required, RequiredOf
  <2>2. Pool
    BY DEF Init, Pool, Input, NameLookup
  <2> QED BY <2>1, <2>2 DEF Init, References
<1> QED BY <1>1, <1>3, <1>4, <1>5 DEF RInv

\* Every step of the controller and of its environment preserves RInv.
LEMMA NextRInv == Regime /\ RInv /\ [Next]_vars => RInv'
<1> SUFFICES ASSUME Regime, RInv, [Next]_vars PROVE RInv'
  OBVIOUS
<1>1. IInv' /\ SearchWorks /\ NothingForgotten(Losable)
  BY NextIInv DEF RInv, Regime
<1>2. CASE Reconcile
  BY <1>1, <1>2, StartReconcileRInv, NewStateRInv, RecoverTaskRInv, EnsureTaskRInv DEF Reconcile
<1>3. CASE Delete
  BY <1>1, <1>3, NothingToDeleteRInv, StartDeleteRInv, RecoverBeforeDeleteRInv, DeleteTaskRInv,
     RemoveFinalizerRInv DEF Delete
<1>4. CASE SaveStatus
  BY <1>1, <1>4, SaveStatusRInv
<1>5. CASE Crash \/ Restart
  BY <1>1, <1>5, StopRInv
<1>6. CASE RequestDeletion \/ LoseObjects \/ CreateLoadBalancer
  BY <1>1, <1>6, RequestDeletionRInv, LoseObjectsRInv, CreateLoadBalancerRInv
<1>7. CASE ChangeInput \/ BreakCredentials \/ RepairCredentials
  BY <1>1, <1>7, ConfigurationRInv
<1>8. CASE UNCHANGED vars
  BY <1>1, <1>8, StutterRInv
<1> QED BY <1>2, <1>3, <1>4, <1>5, <1>6, <1>7, <1>8 DEF Next, Controller, Environment, Terminated

\* While the search by tags works, all parts of RInv hold in every state.
THEOREM Recovery ==
  ASSUME Regime
  PROVE  Spec => []RInv
<1>1. RInv /\ [Next]_vars => RInv'
  BY NextRInv
<1> QED BY <1>1, InitRInv, PTL DEF Spec

\* NoDuplicates: whatever tasks fail and wherever the process crashes, an
\* object is not created a second time, since tryRecover finds the first.
THEOREM NothingTwice ==
  ASSUME Regime
  PROVE  Spec => []NoDuplicates
<1>1. RInv => NoDuplicates
  <2> SUFFICES ASSUME RInv, NEW k \in Managed PROVE Cardinality(Own(k)) <= 1
    BY DEF NoDuplicates
  <2>1. CASE Own(k) = {}
    BY <2>1, FS_EmptySet
  <2>2. CASE Own(k) # {}
    <3>1. PICK o : o \in Own(k)
      BY <2>2
    <3>2. Own(k) = {o}
      BY <3>1 DEF RInv, Unique
    <3> QED BY <3>2, FS_Singleton
  <2> QED BY <2>1, <2>2
<1> QED BY <1>1, Recovery, PTL

\* NoOrphans: between two requests every object of the shoot is reachable, by
\* the recorded reference or by the search by tags.
THEOREM NothingOutOfReach ==
  ASSUME Regime
  PROVE  Spec => []NoOrphans
<1>1. RInv => NoOrphans
  <2> SUFFICES ASSUME RInv, pc = "idle", NEW o \in OwnManaged PROVE Reaches(saved, o)
    BY DEF NoOrphans
  <2>1. PICK k \in Managed : o \in Own(k)
    BY DEF OwnManaged
  <2>2. o.kind = k /\ k \in Required /\ Agree(saved)
    BY <2>1 DEF Own, RInv, Placed, References, Writing
  <2> QED BY <2>1, <2>2 DEF Agree, Reaches
<1> QED BY <1>1, Recovery, PTL

\* NothingLeftBehind: once a state has been persisted, EnsureInfrastructureDeleted
\* reports success only when every object is gone, recorded or not.
THEOREM NothingStays ==
  ASSUME Regime, LookupsWork
  PROVE  Spec => []NothingLeftBehind
<1>1. RInv => NothingLeftBehind
  BY DEF RInv, DeletionProgress, NothingLeftBehind
<1> QED BY <1>1, Recovery, PTL
-----------------------------------------------------------------------------
(* A reconciliation that succeeds is complete.                             *)

\* What the task k leaves to the later ones: its reference leads to what was asked
\* for, and its object has been updated to what it is built from.
Done(k) ==
  /\ k \in NameLookup => mem[k] = want[k]
  /\ k = "ip" => mem["ip"] = mem["alloc"]
  /\ k = "lsw" => mem["lsw"] = mem["seg"]
  /\ k = "t1" /\ ExternalT1 => mem["t1"] = ExtT1Id
  /\ k \in Required =>
       \E o \in Own(k) : o.id = mem[k] /\ \A a \in Uses[k] : o.attrs[a] = DesiredAttrs(k)[a]

\* The tasks that have succeeded in the run under way.
DoneTasks == IF pc \in {"version", "recover", "ensure"} THEN Before(i)
             ELSE IF pc = "save" /\ ~failed THEN {Tasks[n] : n \in 1..Len(Tasks)}
             ELSE {}

DInv == /\ \A k \in DoneTasks : Done(k)
        /\ pc \in Creating => lastOp = "Processing"

\* What an object is built from was looked up or ensured before.
LEMMA UsesBefore ==
  ASSUME NEW n \in 1..Len(Tasks)
  PROVE  /\ Tasks[n] \in Required => Uses[Tasks[n]] \subseteq Before(n) \union {"net"}
         /\ Tasks[n] = "ip" => "alloc" \in Before(n)
         /\ Tasks[n] = "lsw" => "seg" \in Before(n)
<1>1. ASSUME NEW m \in Nat, m >= 1, m < n
      PROVE  Tasks[m] \in Before(n)
  BY <1>1 DEF Before
<1>2. /\ Tasks[n] \in {"ls", "dhcp", "prof", "seg"} => n > 5
      /\ Tasks[n] = "t1" => n = 5
      /\ Tasks[n] = "ip" => n = IF NSXT3 THEN 10 ELSE 9
      /\ Tasks[n] = "rule" => n = IF NSXT3 THEN 11 ELSE 10
      /\ Tasks[n] = "port" => n = 14 /\ ~NSXT3
  <2>1. CASE NSXT3
    <3>1. Len(Tasks) = 11
      BY <2>1, TaskList
    <3> QED BY <2>1, <3>1, TaskList
  <2>2. CASE ~NSXT3
    <3>1. Len(Tasks) = 15
      BY <2>2, TaskList
    <3> QED BY <2>2, <3>1, TaskList
  <2> QED BY <2>1, <2>2
<1>3. /\ n > 4 => {"t0", "tz", "ec"} \subseteq Before(n)
      /\ n = (IF NSXT3 THEN 10 ELSE 9) => "alloc" \in Before(n)
      /\ n = (IF NSXT3 THEN 11 ELSE 10) => "ip" \in Before(n)
      /\ n = 14 /\ ~NSXT3 => "lsw" \in Before(n)
  <2>1. Tasks[1] = "t0" /\ Tasks[2] = "tz" /\ Tasks[3] = "ec"
    BY TaskList
  <2>2. n > 4 => {"t0", "tz", "ec"} \subseteq Before(n)
    BY <1>1, <2>1
  <2>3. CASE NSXT3
    <3>1. Tasks[9] = "alloc" /\ Tasks[10] = "ip"
      BY <2>3, TaskList
    <3> QED BY <1>1, <2>2, <2>3, <3>1
  <2>4. CASE ~NSXT3
    <3>1. Tasks[8] = "alloc" /\ Tasks[9] = "ip" /\ Tasks[11] = "lsw"
      BY <2>4, TaskList
    <3> QED BY <1>1, <2>2, <2>4, <3>1
  <2> QED BY <2>3, <2>4
<1>4. ASSUME Tasks[n] \in Required
      PROVE  Uses[Tasks[n]] \subseteq Before(n) \union {"net"}
  <2>1. PICK k \in Managed : k = Tasks[n]
    BY <1>4 DEF Required, RequiredOf
  <2>2. k = "seg" => "t1" \in Before(n) /\ (NSXT3 => "dhcp" \in Before(n))
    BY <2>1, TaskOrder
  <2>3. k = "srv" => "prof" \in Before(n)
    BY <2>1, TaskOrder
  <2>4. k = "port" => "srv" \in Before(n)
    BY <2>1, TaskOrder
  <2>5. CASE k \in {"t1", "ls", "dhcp", "prof", "seg"}
    <3>1. {"t0", "tz", "ec"} \subseteq Before(n)
      BY <1>2, <1>3, <2>1, <2>5
    <3> QED BY <2>1, <2>2, <2>5, <3>1 DEF Uses, UsesOf
  <2>6. CASE k \in {"rule", "srv", "port"}
    BY <1>2, <1>3, <2>1, <2>3, <2>4, <2>6 DEF Uses, UsesOf
  <2>7. CASE k \in {"alloc", "ipp"}
    BY <2>1, <2>7 DEF Uses, UsesOf
  <2> QED BY <2>5, <2>6, <2>7 DEF Managed, Advanced
<1> QED BY <1>2, <1>3, <1>4, TaskOrder

\* Only a segment depends on whether there is a reference of a DHCP config.
LEMMA UsesAreWritten ==
  ASSUME NEW k \in Managed, NEW a \in Uses[k], ~(k = "seg" /\ NSXT3 /\ mem["dhcp"] = Nil)
  PROVE  /\ a \in Attr
         /\ DesiredAttrs(k)[a] = IF a = "net" THEN want["net"] ELSE mem[a]
<1>1. a \in Attr
  BY DEF Uses, UsesOf, Attr, Task, Lookup, NameLookup, Managed, Advanced
<1>2. a \in UsesOf(mem["dhcp"] # Nil)[k]
  <2>1. CASE k = "seg"
    BY <2>1 DEF Uses, UsesOf
  <2>2. CASE k # "seg"
    BY <2>2 DEF Uses, UsesOf
  <2> QED BY <2>1, <2>2
<1> QED BY <1>1, <1>2 DEF DesiredAttrs

\* A task's attributes are the same in two states that agree on what it uses.
LEMMA SameAttrs ==
  ASSUME NEW k \in Managed, UNCHANGED want,
         \A a \in Uses[k] \ {"net"} : mem'[a] = mem[a]
  PROVE  \A a \in Uses[k] : DesiredAttrs(k)'[a] = DesiredAttrs(k)[a]
<1> SUFFICES ASSUME NEW a \in Uses[k]
             PROVE  DesiredAttrs(k)'[a] = DesiredAttrs(k)[a]
  OBVIOUS
<1>1. a \in Attr
  BY DEF Uses, UsesOf, Attr, Task, Lookup, NameLookup, Managed, Advanced
<1>2. a \in UsesOf(mem["dhcp"] # Nil)[k] <=> a \in UsesOf(mem["dhcp"] # Nil)'[k]
  <2>1. CASE k = "seg"
    <3>1. NSXT3 => mem'["dhcp"] = mem["dhcp"]
      BY <2>1 DEF Uses, UsesOf
    <3>2. ~NSXT3 => a \in {"t1", "tz"}
      BY <2>1 DEF Uses, UsesOf
    <3> QED BY <2>1, <3>1, <3>2 DEF UsesOf
  <2>2. CASE k # "seg"
    BY <2>2 DEF UsesOf
  <2> QED BY <2>1, <2>2
<1>3. a # "net" => mem'[a] = mem[a]
  OBVIOUS
<1> QED BY <1>1, <1>2, <1>3 DEF DesiredAttrs

\* A step of one task that does not fail changes no other reference.
LEMMA OneReference ==
  ASSUME mem \in [Task -> Ref], NEW k \in Task,
         Ensure(k, "ok") \/ tryRecover(k, FALSE, "ok")
  PROVE  \A j \in Task \ {k} : mem'[j] = mem[j]
<1>1. ASSUME NEW v, mem' = [mem EXCEPT ![k] = v]
      PROVE  \A j \in Task \ {k} : mem'[j] = mem[j]
  BY <1>1
<1>2. ASSUME Ensure(k, "ok")
      PROVE  mem' = mem \/ \E v : mem' = [mem EXCEPT ![k] = v]
  <2>1. CASE k \in Lookup /\ EnsureLookup(k, "ok")
    BY <2>1 DEF EnsureLookup, EnsureName, EnsureAddress, EnsureLogicalSwitch
  <2>2. CASE IsExternal(k) /\ EnsureExternal(k, "ok")
    BY <2>2 DEF EnsureExternal
  <2>3. CASE EnsureObject(k, "ok")
    <3>1. Create(k, "ok") => \E v : mem' = [mem EXCEPT ![k] = v]
      BY DEF Create
    <3>2. ASSUME NEW o, Update(k, o, "ok") PROVE mem' = mem
      BY <3>2 DEF Update
    <3>3. ~RecurseLocaleService("ok")
      BY DEF RecurseLocaleService
    <3> QED BY <2>3, <3>1, <3>2, <3>3 DEF EnsureObject
  <2> QED BY <1>2, <2>1, <2>2, <2>3 DEF Ensure
<1>3. ASSUME tryRecover(k, FALSE, "ok")
      PROVE  mem' = mem \/ \E v : mem' = [mem EXCEPT ![k] = v]
  BY <1>3 DEF tryRecover, RecoverObject
<1> QED BY <1>1, <1>2, <1>3

\* Ensure brings about Done.
LEMMA EnsureDone ==
  ASSUME TaskInv, NEW n \in 1..Len(Tasks), NEW k \in Task, k = Tasks[n],
         Ensure(k, "ok"), UNCHANGED want
  PROVE  Done(k)'
<1>1. mem \in [Task -> Ref] /\ \A j \in Task \ {k} : mem'[j] = mem[j]
  BY OneReference DEF TaskInv, EnsurerInv, EnsurerTypeOK
<1>2. k \in NameLookup => mem'[k] = want'[k]
  <2> SUFFICES ASSUME k \in NameLookup PROVE mem'[k] = want'[k]
    OBVIOUS
  <2>1. EnsureName(k, "ok")
    BY DEF Ensure, EnsureLookup, NameLookup, Managed, Advanced
  <2> QED BY <1>1, <2>1 DEF EnsureName
<1>3. k = "ip" => mem'["ip"] = mem'["alloc"]
  <2> SUFFICES ASSUME k = "ip" PROVE mem'["ip"] = mem'["alloc"]
    OBVIOUS
  <2>1. EnsureAddress("ok")
    BY DEF Ensure, EnsureLookup, NameLookup, Managed, Advanced
  <2>2. mem' = [mem EXCEPT !["ip"] = mem["alloc"]]
    BY <2>1 DEF EnsureAddress
  <2>3. "ip" \in Task /\ "alloc" \in Task \ {k}
    BY DEF Task, Lookup, Managed
  <2> QED BY <1>1, <2>2, <2>3
<1>4. k = "lsw" => mem'["lsw"] = mem'["seg"]
  <2> SUFFICES ASSUME k = "lsw" PROVE mem'["lsw"] = mem'["seg"]
    OBVIOUS
  <2>1. EnsureLogicalSwitch("ok")
    BY DEF Ensure, EnsureLookup, NameLookup, Managed, Advanced
  <2>2. mem' = [mem EXCEPT !["lsw"] = mem["seg"]]
    BY <2>1 DEF EnsureLogicalSwitch
  <2>3. "lsw" \in Task /\ "seg" \in Task \ {k}
    BY DEF Task, Lookup, Managed
  <2> QED BY <1>1, <2>2, <2>3
<1>5. k = "t1" /\ ExternalT1 => mem'["t1"] = ExtT1Id
  <2> SUFFICES ASSUME k = "t1", ExternalT1 PROVE mem'["t1"] = ExtT1Id
    OBVIOUS
  <2>1. EnsureExternal(k, "ok")
    BY DEF Ensure, IsExternal, Lookup, NameLookup
  <2> QED BY <1>1, <2>1 DEF EnsureExternal, TaskInv, Fixed
<1>6. ASSUME k \in Required
      PROVE  \E o \in Own(k)' : /\ o.id = mem'[k]
                                /\ \A a \in Uses[k] : o.attrs[a] = DesiredAttrs(k)'[a]
  <2>1. k \in Managed /\ ~IsExternal(k) /\ EnsureObject(k, "ok")
    BY <1>6 DEF Ensure, Required, RequiredOf, Lookup, NameLookup, Managed, Advanced
  <2>2. \A a \in Uses[k] : DesiredAttrs(k)'[a] = DesiredAttrs(k)[a]
    <3>1. ASSUME NEW a \in Uses[k] \ {"net"}
          PROVE  mem'[a] = mem[a]
      <4>1. a \in Attr
        BY <2>1 DEF Uses, UsesOf, Attr, Task, Lookup, NameLookup, Managed, Advanced
      <4>2. a \in Task /\ a # k
        BY <1>6, <3>1, <4>1, UsesBefore, BeforeAfter DEF Attr
      <4> QED BY <1>1, <4>2
    <3> QED BY <2>1, <3>1, SameAttrs
  <2>3. ASSUME NEW o, o \in Own(k)', o.id = mem'[k],
               k = "alloc" \/ o.attrs = DesiredAttrs(k)
        PROVE  \E p \in Own(k)' : /\ p.id = mem'[k]
                                  /\ \A a \in Uses[k] : p.attrs[a] = DesiredAttrs(k)'[a]
    <3>1. k = "alloc" => Uses[k] = {}
      BY <2>1 DEF Uses, UsesOf
    <3> QED BY <2>2, <2>3, <3>1
  <2>4. CASE Create(k, "ok")
    <3>1. PICK new : new = NewObject(k)
      OBVIOUS
    <3>2. Put(new) /\ mem' = [mem EXCEPT ![k] = new.id]
      BY <2>4, <3>1 DEF Create
    <3>3. new.kind = k /\ new.owner = "shoot" /\ new.attrs = DesiredAttrs(k)
      BY <3>1 DEF NewObject
    <3>4. new \in Own(k)'
      BY <3>2, <3>3 DEF Put, Own
    <3> QED BY <1>1, <2>3, <3>2, <3>3, <3>4
  <2>5. ASSUME mem[k] # Nil, NEW o \in Current(k), Update(k, o, "ok")
        PROVE  \E p \in Own(k)' : /\ p.id = mem'[k]
                                  /\ \A a \in Uses[k] : p.attrs[a] = DesiredAttrs(k)'[a]
    <3>1. o \in Own(k) /\ o.id = mem[k]
      BY <1>6, <2>5, OwnCurrent DEF Current, At
    <3>2. PICK new : new = [o EXCEPT !.attrs = DesiredAttrs(k)]
      OBVIOUS
    <3>3. Put(new) /\ mem' = mem
      BY <2>5, <3>2 DEF Update
    <3>4. o \in Object
      BY <3>1 DEF Own, TaskInv, EnsurerInv, EnsurerTypeOK
    <3>5. /\ new.kind = k /\ new.owner = "shoot" /\ new.id = o.id
          /\ new.attrs = DesiredAttrs(k)
      BY <3>1, <3>2, <3>4 DEF Own, Object
    <3>6. new \in Own(k)'
      BY <3>3, <3>5 DEF Put, Own
    <3> QED BY <2>3, <3>1, <3>3, <3>5, <3>6
  <2>6. ASSUME mem[k] # Nil, NEW o \in Current(k), ~NeedsUpdate(k, o), UNCHANGED <<mem, nsxtVars>>
        PROVE  \E p \in Own(k)' : /\ p.id = mem'[k]
                                  /\ \A a \in Uses[k] : p.attrs[a] = DesiredAttrs(k)'[a]
    <3>1. o \in Own(k) /\ o.id = mem[k]
      BY <1>6, <2>6, OwnCurrent DEF Current, At
    <3>2. o \in Own(k)'
      BY <2>6, <3>1 DEF Own, nsxtVars
    <3>3. k = "alloc" \/ o.attrs = DesiredAttrs(k)
      BY <2>6 DEF NeedsUpdate
    <3> QED BY <2>3, <2>6, <3>1, <3>2, <3>3
  <2>7. ~RecurseLocaleService("ok")
    BY DEF RecurseLocaleService
  <2> QED BY <2>1, <2>4, <2>5, <2>6, <2>7 DEF EnsureObject
<1> QED BY <1>2, <1>3, <1>4, <1>5, <1>6 DEF Done, Required, RequiredOf, IsExternal

\* What is done stays so while later tasks change their own references and objects.
LEMMA DoneStays ==
  ASSUME NEW T, NEW n \in 1..Len(Tasks), Tasks[n] \notin T, Before(n) \intersect T = {},
         Tasks[n] \in Task, Done(Tasks[n]), UNCHANGED want,
         \A j \in Task \ T : mem'[j] = mem[j],
         \A j \in Managed \ T : Own(j)' = Own(j)
  PROVE  Done(Tasks[n])'
<1>1. PICK k \in Task : k = Tasks[n]
  OBVIOUS
<1>2. Before(n) \subseteq Task
  BY TasksType DEF Before
<1>3. mem'[k] = mem[k] /\ \A j \in Before(n) : mem'[j] = mem[j]
  BY <1>1, <1>2
<1>4. k = "ip" => mem'["alloc"] = mem["alloc"]
  BY <1>1, <1>3, UsesBefore
<1>5. k = "lsw" => mem'["seg"] = mem["seg"]
  BY <1>1, <1>3, UsesBefore
<1>6. ASSUME k \in Required
      PROVE  \E o \in Own(k)' : o.id = mem'[k] /\ \A a \in Uses[k] : o.attrs[a] = DesiredAttrs(k)'[a]
  <2>1. k \in Managed /\ Own(k)' = Own(k)
    BY <1>1, <1>6 DEF Required, RequiredOf
  <2>2. \A a \in Uses[k] : DesiredAttrs(k)'[a] = DesiredAttrs(k)[a]
    <3>1. \A a \in Uses[k] \ {"net"} : mem'[a] = mem[a]
      BY <1>1, <1>3, <1>6, UsesBefore
    <3> QED BY <2>1, <3>1, SameAttrs
  <2>3. PICK o \in Own(k) : o.id = mem[k] /\ \A a \in Uses[k] : o.attrs[a] = DesiredAttrs(k)[a]
    BY <1>1, <1>6 DEF Done
  <2> QED BY <1>3, <2>1, <2>2, <2>3
<1>7. Done(k)'
  BY <1>1, <1>3, <1>4, <1>5, <1>6 DEF Done, Required, RequiredOf, IsExternal
<1> QED BY <1>1, <1>7

\* A step that goes on with the run, or waits, keeps what is done.
LEMMA KeepsDone ==
  ASSUME NEW n \in 1..(Len(Tasks) + 1), NEW m \in 1..Len(Tasks), n <= m,
         \A k \in Before(n) : Done(k), UNCHANGED want,
         \A j \in Task \ {Tasks[m]} : mem'[j] = mem[j],
         \A j \in Managed \ {Tasks[m]} : Own(j)' = Own(j)
  PROVE  \A k \in Before(n) : Done(k)'
<1> SUFFICES ASSUME NEW k \in Before(n) PROVE Done(k)'
  OBVIOUS
<1>1. PICK l \in 1..(n - 1) : Tasks[l] = k
  BY DEF Before
<1>2. l \in 1..Len(Tasks) /\ l < m /\ m \in Nat /\ Len(Tasks) \in Nat
  BY <1>1, TasksDiffer
<1>3. Tasks[l] # Tasks[m] /\ Tasks[m] \notin Before(l)
  <2>1. Tasks[l] # Tasks[m]
    BY <1>2, TasksDiffer
  <2>2. ASSUME NEW j \in 1..(l - 1) PROVE Tasks[j] # Tasks[m]
    BY <1>2, TasksDiffer
  <2> QED BY <2>1, <2>2 DEF Before
<1>4. Tasks[l] \in Task
  BY <1>2, TasksType
<1>5. Done(Tasks[l])
  BY <1>1
<1>6. Done(Tasks[l])'
  BY <1>2, <1>3, <1>4, <1>5, DoneStays
<1>7. Done(k)' <=> Done(Tasks[l])'
  BY <1>1
<1> QED BY <1>6, <1>7

\* Ensure adds its task to those that are done, or ends the run with an error.
LEMMA EnsureTaskDInv ==
  ASSUME RInv, DInv, NothingForgotten(Losable), EnsureTask
  PROVE  DInv'
<1>a. i \in 1..Len(Tasks) /\ Tasks[i] \in Task /\ Len(Tasks) \in Nat
  BY TasksType DEF RInv, IInv, TypeOK
<1>b. PICK k \in Task : k = Tasks[i]
  BY <1>a
<1>1. pc = "ensure" /\ UNCHANGED <<want, lastOp>>
  BY DEF EnsureTask, infraVars
<1>2. PICK res \in Result : Ensure(k, res) /\ AfterEnsure(res, Len(Tasks))
  BY <1>b DEF EnsureTask
<1>3. TaskInv /\ \A j \in Before(i) : Done(j)
  BY <1>1, RInvTask DEF DInv, DoneTasks
<1>4. OnlyTask(k) /\ res # "panic"
  <2>1. \A j \in Before(i) \intersect Basic : Resolved(j)
    BY <1>1 DEF RInv, CreationProgress
  <2>2. k \in Required /\ mem[k] = Nil => Own(k) = {}
    BY <1>1, <1>b DEF RInv, CreationProgress
  <2>3. k \in Required \ Losable /\ mem[k] # Nil => Own(k) # {}
    BY <1>1 DEF RInv, References, Creating, Valid
  <2> QED BY <1>a, <1>b, <1>1, <1>2, <1>3, <2>1, <2>2, <2>3, EnsureEffect
<1>5. lastOp' = "Processing"
  BY <1>1 DEF DInv, Creating
<1>6. CASE res = "ok"
  <2>1. Done(k)'
    BY <1>a, <1>b, <1>1, <1>2, <1>3, <1>6, EnsureDone
  <2>2. \A j \in Task \ {k} : mem'[j] = mem[j]
    BY <1>2, <1>3, <1>6, OneReference DEF TaskInv, EnsurerInv, EnsurerTypeOK
  <2>3. \A j \in Before(i) : Done(j)'
    <3>1. i \in 1..(Len(Tasks) + 1)
      BY <1>a
    <3> QED BY <1>a, <1>b, <1>1, <1>3, <1>4, <2>2, <3>1, KeepsDone DEF OnlyTask
  <2>4. \/ pc' = "recover" /\ i' = i + 1
        \/ pc' = "save" /\ i = Len(Tasks)
    BY <1>a, <1>2, <1>6 DEF AfterEnsure
  <2>5. \A j \in Before(i + 1) : Done(j)'
    BY <1>a, <1>b, <2>1, <2>3, BeforeAfter
  <2>6. DoneTasks' \subseteq Before(i + 1)
    BY <1>a, <2>4 DEF DoneTasks, Before
  <2> QED BY <1>5, <2>5, <2>6 DEF DInv
<1>7. CASE res = "err"
  <2>1. pc' = "save" /\ failed' = TRUE
    BY <1>2, <1>7 DEF AfterEnsure
  <2>2. DoneTasks' = {}
    BY <2>1 DEF DoneTasks
  <2> QED BY <1>5, <2>2 DEF DInv
<1> QED BY <1>4, <1>6, <1>7 DEF Result

\* tryRecover sets the reference of a task that is still to come.
LEMMA RecoverTaskDInv ==
  ASSUME RInv, DInv, RecoverTask
  PROVE  DInv'
<1>a. i \in 1..Len(Tasks) /\ i \in 1..(Len(Tasks) + 1) /\ Tasks[i] \in Task
  BY TasksType DEF RInv, IInv, TypeOK
<1>b. PICK k \in Task : k = Tasks[i]
  BY <1>a
<1>1. /\ pc = "recover" /\ pc' = "ensure" /\ UNCHANGED <<i, want, lastOp>>
      /\ tryRecover(k, FALSE, "ok")
  BY <1>b DEF RecoverTask, infraVars
<1>2. \A j \in Before(i) : Done(j)
  BY <1>1 DEF DInv, DoneTasks
<1>3. \A j \in Task \ {k} : mem'[j] = mem[j]
  BY <1>1, OneReference DEF RInv, IInv, TypeOK
<1>4. UNCHANGED nsxt
  BY <1>1 DEF tryRecover, RecoverObject, nsxtVars
<1>5. \A j \in Before(i) : Done(j)'
  BY <1>a, <1>b, <1>1, <1>2, <1>3, <1>4, KeepsDone DEF Own
<1>6. DoneTasks' = Before(i)
  BY <1>1 DEF DoneTasks, Before
<1> QED BY <1>1, <1>5, <1>6 DEF DInv, Creating

\* Steps of the environment while a run is under way leave it alone.
LEMMA BesidesDInv ==
  ASSUME DInv, UNCHANGED <<pc, i, failed, mem, want, lastOp>>,
         \A k \in Managed : Own(k)' = Own(k)
  PROVE  DInv'
<1>1. DoneTasks' = DoneTasks
  BY DEF DoneTasks, Before
<1>2. ASSUME NEW k, Done(k) PROVE Done(k)'
  BY <1>2 DEF Done, DesiredAttrs, Required, RequiredOf, IsExternal
<1> QED BY <1>1, <1>2 DEF DInv, Creating

\* Every step keeps what is done, or begins anew, or ends the run.
LEMMA NextDInv ==
  ASSUME Regime, RInv, DInv, [Next]_vars
  PROVE  DInv'
<1>1. CASE EnsureTask
  BY <1>1, EnsureTaskDInv DEF Regime
<1>2. CASE RecoverTask
  BY <1>2, RecoverTaskDInv
<1>3. CASE StartFirstReconcile \/ StartReconcile
  <2>1. \/ pc' = "idle"
        \/ pc' \in {"version", "recover"} /\ i' = 1 /\ lastOp' = "Processing"
    BY <1>3 DEF StartFirstReconcile, StartReconcile, FirstTaskStep, Begin, ReturnError, Idle
  <2>2. DoneTasks' = {}
    BY <2>1 DEF DoneTasks, Before
  <2> QED BY <2>1, <2>2 DEF DInv, Creating
<1>4. CASE NewStateWithVersion
  <2>1. CASE pc' = "idle"
    BY <2>1 DEF DInv, DoneTasks, Creating
  <2>2. CASE pc' # "idle"
    <3>1. /\ pc = "version" /\ pc' = "recover"
          /\ UNCHANGED <<i, mem, want, lastOp, nsxt>>
      BY <1>4, <2>2 DEF NewStateWithVersion, ReturnError, Idle, nsxtVars
    <3>2. DoneTasks' = DoneTasks
      BY <3>1 DEF DoneTasks, Before
    <3>3. ASSUME NEW k, Done(k) PROVE Done(k)'
      BY <3>1, <3>3 DEF Done, DesiredAttrs, Required, RequiredOf, IsExternal, Own
    <3> QED BY <3>1, <3>2, <3>3 DEF DInv, Creating
  <2> QED BY <2>1, <2>2
<1>5. CASE Delete \/ SaveStatus \/ Crash \/ Restart
  <2>1. pc' \notin Creating
    BY <1>5 DEF Delete, NothingToDelete, StartDelete, RecoverBeforeDelete, DeleteTask,
       RemoveFinalizer, SaveStatus, Crash, Restart, Idle, ReturnError, Begin, Creating,
       AfterRecoverAll, AfterDelete
  <2> QED BY <2>1 DEF DInv, DoneTasks, Creating
<1>6. CASE \/ RequestDeletion \/ ChangeInput \/ BreakCredentials \/ RepairCredentials
           \/ CreateLoadBalancer \/ UNCHANGED vars
  <2>1. UNCHANGED <<pc, i, failed, mem, want, lastOp>>
    BY <1>6 DEF RequestDeletion, ChangeInput, BreakCredentials, RepairCredentials,
       CreateLoadBalancer, vars, ensurerVars, procVars, infraVars
  <2>2. \A k \in Managed : Own(k)' = Own(k)
    <3>1. CASE CreateLoadBalancer
      BY <3>1 DEF CreateLoadBalancer, Put, At, Own, Managed, Advanced
    <3>2. CASE ~CreateLoadBalancer
      BY <1>6, <3>2 DEF RequestDeletion, ChangeInput, BreakCredentials, RepairCredentials,
         vars, nsxtVars, Own
    <3> QED BY <3>1, <3>2
  <2> QED BY <2>1, <2>2, BesidesDInv
<1>7. CASE LoseObjects
  <2>1. pc' = "idle"
    BY <1>7 DEF LoseObjects, procVars
  <2> QED BY <2>1 DEF DInv, DoneTasks, Creating
<1> QED BY <1>1, <1>2, <1>3, <1>4, <1>5, <1>6, <1>7
        DEF Next, Controller, Reconcile, Environment, Terminated

\* When all tasks are done, all objects are as the inputs want them.
LEMMA DoneIsComplete ==
  ASSUME RInv, DInv, pc = "save", ~failed, want = inputs
  PROVE  Complete
<1>1. \A k \in Basic \union NameLookup : Done(k)
  <2>1. \A k \in Basic : \E n \in 1..Len(Tasks) : Tasks[n] = k
    BY BasicTasks
  <2>2. \A k \in NameLookup : \E n \in 1..Len(Tasks) : Tasks[n] = k
    <3>1. Len(Tasks) \in {11, 15}
      BY TaskList
    <3> QED BY <3>1, TaskList DEF NameLookup
  <2> QED BY <2>1, <2>2 DEF DInv, DoneTasks
<1> SUFFICES ASSUME NEW k \in Required
             PROVE  Own(k) # {} /\ \A o \in Own(k) : UpToDate(o)
  BY DEF Complete
<1>2. k \in Managed /\ k \in Basic
  BY DEF Required, RequiredOf, Basic
<1>3. PICK n \in 1..Len(Tasks) : Tasks[n] = k
  BY <1>2, BasicTasks
<1>4. \A j \in Before(n) : Done(j)
  BY TasksDiffer DEF DInv, DoneTasks, Before
<1>5. PICK o \in Own(k) : o.id = mem[k] /\ \A a \in Uses[k] : o.attrs[a] = DesiredAttrs(k)[a]
  BY <1>1, <1>2 DEF Done
<1>6. o.kind = k /\ \A p \in Own(k) : p = o
  BY <1>2, <1>5 DEF Own, RInv, Unique
<1> DEFINE Points(a, v) == IF a \in Input THEN v = inputs[a]
                           ELSE IF IsExternal(a) THEN v = ExtT1Id
                           ELSE \E t \in Own(Target(a)) : t.id = v
<1>7. ASSUME NEW a \in Uses[k]
      PROVE  Points(a, o.attrs[a])
  <2>1. a \in Attr /\ o.attrs[a] = IF a = "net" THEN want["net"] ELSE mem[a]
    <3>1. k = "seg" /\ NSXT3 => "dhcp" \in Required
      <4> SUFFICES ASSUME k = "seg", NSXT3 PROVE "dhcp" \in Required
        OBVIOUS
      <4>1. "dhcp" \in Managed /\ ~IsExternal("dhcp") /\ "dhcp" \in Before(n)
        BY <1>3, TaskOrder DEF Managed, IsExternal
      <4>2. PICK m \in 1..Len(Tasks) : Tasks[m] = "dhcp"
        BY <4>1, TasksDiffer DEF Before
      <4> QED BY <4>1, <4>2, RequiredTask
    <3>2. k = "seg" /\ NSXT3 => mem["dhcp"] # Nil
      <4> SUFFICES ASSUME k = "seg", NSXT3 PROVE mem["dhcp"] # Nil
        OBVIOUS
      <4>1. PICK d \in Own("dhcp") : d.id = mem["dhcp"]
        BY <1>1, <3>1 DEF Basic, Done
      <4>2. d \in nsxt /\ EnsurerInv
        BY RInvTask DEF Own, TaskInv
      <4> QED BY <4>1, <4>2, NoNilObject
    <3> QED BY <1>2, <1>5, <3>2, UsesAreWritten
  <2>2. a # "net" => a \in Before(n) /\ Done(a)
    BY <1>3, <1>4, UsesBefore
  <2>3. CASE a = "net"
    BY <2>1, <2>3 DEF Input
  <2>4. CASE a \in NameLookup
    <3>1. a # "net" /\ a \in Input
      BY <2>4 DEF NameLookup, Input
    <3> QED BY <2>1, <2>2, <2>4, <3>1 DEF Done
  <2>5. CASE IsExternal(a)
    <3>1. a = "t1" /\ ExternalT1 /\ a \notin Input
      BY <1>2, <2>5 DEF IsExternal, Uses, UsesOf, Input, NameLookup
    <3> QED BY <2>1, <2>2, <2>5, <3>1 DEF Done
  <2>6. CASE a \in Managed /\ ~IsExternal(a)
    <3>1. a \notin Input /\ a # "net" /\ Target(a) = a
      BY <2>6 DEF Managed, Advanced, Input, NameLookup, Target
    <3>2. a \in Required
      <4>1. PICK m \in 1..Len(Tasks) : Tasks[m] = a
        BY <2>2, <3>1, TasksDiffer DEF Before
      <4> QED BY <2>6, <4>1, RequiredTask
    <3> QED BY <2>1, <2>2, <2>6, <3>1, <3>2 DEF Done
  <2>7. CASE a \in {"ip", "lsw"}
    <3>1. a \notin Input /\ a # "net" /\ ~IsExternal(a)
      BY <2>7 DEF Input, NameLookup, IsExternal
    <3>2. Target(a) \in {"alloc", "seg"} /\ mem[a] = mem[Target(a)]
      BY <2>2, <2>7, <3>1 DEF Done, Target
    <3>3. Target(a) \in Required
      <4>1. {"alloc", "seg"} \subseteq Managed /\ \A j \in {"alloc", "seg"} : ~IsExternal(j)
        BY DEF Managed, IsExternal
      <4>2. \A j \in {"alloc", "seg"} : \E m \in 1..Len(Tasks) : Tasks[m] = j
        <5>1. Len(Tasks) = IF NSXT3 THEN 11 ELSE 15
          BY TaskList
        <5> QED BY <5>1, TaskList
      <4> QED BY <3>2, <4>1, <4>2, RequiredTask
    <3>4. PICK t \in Own(Target(a)) : t.id = mem[Target(a)]
      BY <1>1, <3>3 DEF Basic, Done
    <3> QED BY <2>1, <3>1, <3>2, <3>4
  <2> QED BY <2>1, <2>3, <2>4, <2>5, <2>6, <2>7 DEF Attr, Task, Lookup
<1>8. ParentOf(k) # "root" => Points(ParentOf(k), o.parent)
  <2> SUFFICES ASSUME ParentOf(k) # "root" PROVE Points(ParentOf(k), o.parent)
    OBVIOUS
  <2>1. ParentOf(k) = Parents[k] /\ Parents[k] \in {"t1", "pool", "srv"}
    BY <1>2 DEF ParentOf, Parents, Managed, Advanced
  <2>2. IsPlace(Parents[k], o.parent)
    BY <1>2, <1>5 DEF RInv, Placed
  <2>3. inputs["pool"] = DefaultName /\ "pool" \in Input /\ {"t1", "srv"} \intersect Input = {}
    BY DEF RInv, References, Pool, Input, NameLookup
  <2> QED BY <2>1, <2>2, <2>3 DEF IsPlace, IsExternal, Target
<1>9. UpToDate(o)
  BY <1>6, <1>7, <1>8 DEF UpToDate
<1> QED BY <1>5, <1>6, <1>9

\* SuccessMeansComplete: a reconciliation is reported as succeeded only if every
\* object exists, in its place, and was updated to the references and inputs, since
\* what a task has ensured is not undone by those that come after it.
THEOREM SuccessIsComplete ==
  ASSUME Regime
  PROVE  Spec => SuccessMeansComplete
<1>1. Init => DInv
  BY DEF Init, DInv, DoneTasks, Creating
<1>2. RInv /\ DInv /\ [Next]_vars => DInv'
  BY NextDInv
<1>3. RInv /\ DInv /\ [Next]_vars =>
        [pc = "save" /\ lastOp' = "Succeeded" /\ want = inputs => Complete]_vars
  <2> SUFFICES ASSUME RInv, DInv, Next, pc = "save", lastOp' = "Succeeded", want = inputs
               PROVE  Complete
    BY DEF vars
  <2>1. lastOp = "Processing"
    BY DEF DInv, Creating
  <2>2. CASE SaveStatus
    <3>1. ~failed
      BY <2>2 DEF SaveStatus, ReturnError
    <3> QED BY <3>1, DoneIsComplete
  <2>3. CASE Environment \/ Terminated
    BY <2>1, <2>3 DEF Environment, Terminated, Crash, RequestDeletion, ChangeInput,
       BreakCredentials, RepairCredentials, LoseObjects, CreateLoadBalancer, infraVars, vars
  <2>4. ~Reconcile /\ ~Delete /\ ~Restart
    BY DEF Reconcile, StartFirstReconcile, StartReconcile, NewStateWithVersion, RecoverTask,
       EnsureTask, Delete, NothingToDelete, StartDelete, RecoverBeforeDelete, DeleteTask,
       RemoveFinalizer, Restart
  <2> QED BY <2>2, <2>3, <2>4 DEF Next, Controller
<1> QED BY <1>1, <1>2, <1>3, Recovery, PTL DEF Spec, SuccessMeansComplete
-----------------------------------------------------------------------------
(* The controller implements Lifecycle.                                    *)

Present == {k \in Required : Own(k) # {}}

\* A step which changes neither the set of objects nor the resource.
LEMMA Stutters ==
  ASSUME \A k \in Required : Own(k) # {} <=> Own(k)' # {}, UNCHANGED <<hasState, deleting, gone>>
  PROVE  UNCHANGED Abstract!vars
<1>1. Present' = Present
  BY DEF Present, Required, RequiredOf, IsExternal
<1> QED BY <1>1 DEF Abstract!vars, Present

\* What the ensurer creates is built on what it has ensured before.
LEMMA EnsureRefines ==
  ASSUME RInv, NothingForgotten(Losable), EnsureTask
  PROVE  [Abstract!Next]_(Abstract!vars)
<1>a. i \in 1..Len(Tasks) /\ Tasks[i] \in Task
  BY TasksType DEF RInv, IInv, TypeOK
<1>b. PICK k \in Task : k = Tasks[i]
  BY <1>a
<1>1. pc = "ensure" /\ UNCHANGED <<want, deleting, gone, hasState>>
  BY DEF EnsureTask, infraVars
<1>2. PICK res \in Result : Ensure(k, res)
  BY <1>b DEF EnsureTask
<1>3. TaskInv /\ ~gone
  BY <1>1, RInvTask DEF RInv, Phases
<1>4. \A j \in Before(i) \intersect Basic : Resolved(j)
  BY <1>1 DEF RInv, CreationProgress
<1>5. OnlyTask(k) /\ (k \in Required => Keeps(k))
  <2>1. k \in Required /\ mem[k] = Nil => Own(k) = {}
    BY <1>1, <1>b DEF RInv, CreationProgress
  <2>2. k \in Required \ Losable /\ mem[k] # Nil => Own(k) # {}
    BY <1>1 DEF RInv, References, Creating, Valid
  <2> QED BY <1>a, <1>b, <1>1, <1>2, <1>3, <1>4, <2>1, <2>2, EnsureEffect
<1>6. \A j \in Required \ {k} : Own(j)' = Own(j)
  BY <1>5 DEF OnlyTask, Required, RequiredOf
<1>7. CASE k \in Required /\ Own(k) = {} /\ Own(k)' # {}
  <2>1. Present' = Present \union {k} /\ k \notin Present
    BY <1>6, <1>7 DEF Present, Required, RequiredOf, IsExternal
  <2>2. Depends[k] \intersect Required \subseteq Present
    <3>1. Depends[k] \subseteq Before(i) \intersect Required
      BY <1>a, <1>b, <1>7, NeedsBefore
    <3> QED BY <1>4, <3>1 DEF Resolved, Present, Basic
  <2>3. Abstract!Create(k)
    BY <1>1, <1>3, <2>1, <2>2 DEF Abstract!Create, Present
  <2> QED BY <1>7, <2>3 DEF Abstract!Next
<1>8. CASE ~(k \in Required /\ Own(k) = {} /\ Own(k)' # {})
  <2>1. \A j \in Required : Own(j) # {} <=> Own(j)' # {}
    BY <1>5, <1>6, <1>8 DEF Keeps
  <2> QED BY <1>1, <2>1, Stutters
<1> QED BY <1>7, <1>8

\* What the ensurer deletes is no longer needed by an object that exists.
LEMMA DeleteRefines ==
  ASSUME RInv, LookupsWork, DeleteTask
  PROVE  [Abstract!Next]_(Abstract!vars)
<1>a. i \in 1..Len(Tasks) /\ Tasks[i] \in Task
  BY TasksType DEF RInv, IInv, TypeOK
<1>b. PICK k \in Task : k = Tasks[i]
  BY <1>a
<1>1. pc = "delete" /\ UNCHANGED <<want, deleting, gone, hasState>>
  BY DEF DeleteTask, infraVars
<1>2. PICK res \in Result : EnsureDeleted(k, res)
  BY <1>b DEF DeleteTask
<1>3. TaskInv /\ deleting /\ ~gone
  BY <1>1, RInvTask DEF RInv, Phases
<1>4. OnlyTask(k) /\ (k \in Required => Own(k)' \in {{}, Own(k)})
  BY <1>a, <1>b, <1>1, <1>2, <1>3, DeleteEffect
<1>5. \A j \in Required \ {k} : Own(j)' = Own(j)
  BY <1>4 DEF OnlyTask, Required, RequiredOf
<1>6. CASE k \in Required /\ Own(k) # {} /\ Own(k)' = {}
  <2>1. Present' = Present \ {k} /\ k \in Present
    BY <1>5, <1>6 DEF Present, Required, RequiredOf, IsExternal
  <2>2. ASSUME NEW j \in Present, k \in Depends[j]
        PROVE  FALSE
    <3>1. j \in After(i) /\ j \in Required /\ Own(j) # {}
      BY <1>a, <1>b, <2>2, NeedersAfter DEF Present
    <3> QED BY <1>1, <3>1 DEF RInv, DeletionProgress
  <2>3. Abstract!Remove(k)
    BY <1>1, <1>3, <2>1, <2>2 DEF Abstract!Remove, Present
  <2> QED BY <1>6, <2>3 DEF Abstract!Next
<1>7. CASE ~(k \in Required /\ Own(k) # {} /\ Own(k)' = {})
  <2>1. \A j \in Required : Own(j) # {} <=> Own(j)' # {}
    BY <1>4, <1>5, <1>7
  <2> QED BY <1>1, <2>1, Stutters
<1> QED BY <1>6, <1>7

\* Every step of the controller is a step of Lifecycle or a stutter.
LEMMA StepRefines ==
  ASSUME Losable = {}, SearchWorks, LookupsWork, RInv, [Next]_vars
  PROVE  [Abstract!Next]_(Abstract!vars)
<1>1. Required \subseteq Managed
  BY DEF Required, RequiredOf
<1>2. CASE EnsureTask
  BY <1>2, EnsureRefines DEF NothingForgotten
<1>3. CASE DeleteTask
  BY <1>3, DeleteRefines
<1>4. CASE StartFirstReconcile \/ StartReconcile \/ NewStateWithVersion \/ RecoverTask
             \/ NothingToDelete \/ RecoverBeforeDelete \/ Crash \/ Restart
  <2>1. UNCHANGED <<hasState, deleting, gone>>
    BY <1>4 DEF StartFirstReconcile, StartReconcile, NewStateWithVersion, RecoverTask,
                NothingToDelete, RecoverBeforeDelete, Crash, Restart, infraVars
  <2>2. UNCHANGED nsxt
    <3>1. CASE RecoverTask \/ RecoverBeforeDelete
      <4>1. PICK res : tryRecover(Tasks[i], FALSE, res) \/ tryRecover(Tasks[i], TRUE, res)
        BY <3>1 DEF RecoverTask, RecoverBeforeDelete
      <4>2. ASSUME Tasks[i] \in Lookup \/ IsExternal(Tasks[i]), Ensure(Tasks[i], res)
            PROVE  UNCHANGED nsxtVars
        BY <4>2 DEF Ensure, EnsureLookup, EnsureExternal, IsExternal,
                    Lookup, NameLookup, Managed, Advanced
      <4> QED BY <4>1, <4>2 DEF tryRecover, RecoverObject, nsxtVars
    <3>2. CASE ~(RecoverTask \/ RecoverBeforeDelete)
      BY <1>4, <3>2 DEF StartFirstReconcile, StartReconcile, NewStateWithVersion,
                        NothingToDelete, Crash, Restart, nsxtVars
    <3> QED BY <3>1, <3>2
  <2> QED BY <2>1, <2>2, Stutters DEF Own
<1>5. CASE StartDelete \/ CreateLoadBalancer
  <2>1. UNCHANGED <<hasState, deleting, gone>>
    BY <1>5 DEF StartDelete, CreateLoadBalancer, infraVars
  <2>2. \A k \in Managed : Own(k)' = Own(k)
    BY <1>5 DEF StartDelete, CreateLoadBalancer, nsxtVars, Put, At, Own, Managed, Advanced
  <2> QED BY <1>1, <2>1, <2>2, Stutters
<1>6. CASE SaveStatus
  <2>1. ~gone /\ UNCHANGED <<deleting, gone, nsxt>> /\ hasState' \in {hasState, TRUE}
    BY <1>6 DEF SaveStatus, Persist, nsxtVars, RInv, Phases
  <2>2. Present' = Present
    BY <2>1 DEF Present, Own, Required, RequiredOf, IsExternal
  <2>3. CASE hasState' = hasState
    BY <2>1, <2>2, <2>3 DEF Abstract!vars, Present
  <2>4. CASE hasState' = TRUE
    BY <2>1, <2>2, <2>4 DEF Abstract!Next, Abstract!Record, Present
  <2> QED BY <2>1, <2>3, <2>4
<1>7. CASE RequestDeletion
  <2>1. deleting' = TRUE /\ UNCHANGED <<hasState, gone, nsxt>>
    BY <1>7 DEF RequestDeletion, nsxtVars
  <2>2. Present' = Present
    BY <2>1 DEF Present, Own, Required, RequiredOf, IsExternal
  <2> QED BY <2>1, <2>2 DEF Abstract!Next, Abstract!Request, Present
<1>8. CASE RemoveFinalizer
  <2>1. pc = "finalize" /\ deleting /\ gone' \in {TRUE, FALSE} /\ ~gone
        /\ UNCHANGED <<hasState, deleting, nsxt>>
    BY <1>8 DEF RemoveFinalizer, nsxtVars, RInv, Phases
  <2>2. Present' = Present
    BY <2>1 DEF Present, Own, Required, RequiredOf, IsExternal
  <2>3. hasState => Present = {}
    BY <1>1, <2>1 DEF RInv, DeletionProgress, OwnManaged, Present
  <2>4. CASE gone' = TRUE
    BY <2>1, <2>2, <2>3, <2>4 DEF Abstract!Next, Abstract!Vanish, Present
  <2>5. CASE gone' = FALSE
    <3>1. gone' = gone
      BY <2>1, <2>5 DEF RInv, IInv, TypeOK
    <3> QED BY <2>1, <2>2, <3>1 DEF Abstract!vars, Present
  <2> QED BY <2>1, <2>4, <2>5
<1>9. CASE ChangeInput \/ BreakCredentials \/ RepairCredentials \/ UNCHANGED vars
  <2>1. UNCHANGED <<hasState, deleting, gone, nsxt>>
    BY <1>9 DEF ChangeInput, BreakCredentials, RepairCredentials, infraVars, nsxtVars, vars
  <2> QED BY <2>1, Stutters DEF Own
<1>10. CASE LoseObjects
  BY <1>10 DEF LoseObjects
<1> QED BY <1>2, <1>3, <1>4, <1>5, <1>6, <1>7, <1>8, <1>9, <1>10
        DEF Next, Controller, Reconcile, Delete, Environment, Terminated

\* Promise: with the search by tags and the lookups working and nobody else
\* deleting objects, the ensurer driven by the actuator implements Lifecycle:
\* creation on top of what exists, deletion in the reverse order and only on
\* request, and a resource that vanishes when nothing recorded is left.
THEOREM Implements ==
  ASSUME Losable = {}, SearchWorks, LookupsWork
  PROVE  Spec => Promise
<1>0. Regime
  BY DEF Regime, NothingForgotten
<1>1. Init => Abstract!Init
  <2> SUFFICES ASSUME Init PROVE Abstract!Init
    OBVIOUS
  <2>1. \A k \in Required : Own(k) = {}
    BY OthersAssumption DEF Init, Own
  <2> QED BY <2>1 DEF Init, Abstract!Init
<1>2. RInv /\ [Next]_vars => [Abstract!Next]_(Abstract!vars)
  BY StepRefines
<1> QED BY <1>0, <1>1, <1>2, Recovery, PTL DEF Spec, Promise, Abstract!Spec
=============================================================================
