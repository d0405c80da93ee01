---------------------------- MODULE InfraCLI_proofs ----------------------------
(***************************************************************************)
(* Proofs about the command line tool, for every number of commands, every *)
(* choice of faults and of objects of other shoots, and whether or not the *)
(* controller has built the infrastructure before.                         *)
(*                                                                         *)
(* A command that starts without references is a run of the ensurer like   *)
(* those of the controller: the references agree with the objects all the  *)
(* time. A destroy with a state file is not, for the file may be older     *)
(* than the objects; what is known then is only that its references are to *)
(* objects of the shoot, if to any, and that is enough not to harm others  *)
(* and to leave a state from which the next command can go on.             *)
(*                                                                         *)
(* The first part holds whatever versions of the tasks users fix. That     *)
(* what is created or destroyed is complete is proved for users who leave  *)
(* the version to be determined (OneVersion).                              *)
(***************************************************************************)
EXTENDS InfraCLI, Ensurer_proofs

Step == {"idle", "recover", "ensure", "save", "recoverAll", "delete", "saveDeleted",
         "write", "panic"}

References == [Task -> Ref]

TypeOK ==
  /\ nsxt \subseteq Object /\ nextId \in Nat
  /\ mem \in References /\ want = [n \in Input |-> DefaultName] /\ faults \in 0..MaxFaults
  /\ file \in StateFile \union {NoFile} /\ bak \in StateFile \union {NoFile}
  /\ version \in BOOLEAN /\ cmd \in Command
  /\ outcome \in {"none", "done", "failed"} /\ commands \in 0..MaxCommands
  /\ pc \in Step /\ i \in 1..Len(MyTasks) /\ failed \in BOOLEAN

\* Which command is at which step; the old file is out of the way before the
\* new one is written.
Stage ==
  /\ pc \in {"recover", "ensure", "save"} => cmd.op = "create"
  /\ pc \in {"recoverAll", "delete", "saveDeleted"} => cmd.op = "destroy"
  /\ pc = "write" => file = NoFile
  /\ pc = "idle" => mem = NoRefs

BInv == /\ TypeOK /\ OwnIds /\ OwnRefs(mem) /\ (file # NoFile => OwnRefs(file.refs))
        /\ OthersUntouched /\ Stage
-----------------------------------------------------------------------------
(* Each command preserves BInv.                                            *)

\* getTasks of the command at work is a list of tasks.
LEMMA MyTasksType ==
  ASSUME version \in BOOLEAN
  PROVE  /\ Len(MyTasks) \in Nat \ {0}
         /\ \A n \in 1..Len(MyTasks) : MyTasks[n] \in Task
  BY TasksOfType DEF MyTasks

\* BInv gives what the effects of the single operations rely on.
LEMMA BInvEnsurer == BInv => EnsurerInv /\ want["pool"] = DefaultName
<1> SUFFICES ASSUME BInv PROVE EnsurerInv /\ want["pool"] = DefaultName
  OBVIOUS
<1>1. "pool" \in Input
  BY DEF Input, NameLookup
<1>2. want \in [Input -> Nat \ {0}] /\ want["pool"] = DefaultName
  BY <1>1 DEF BInv, TypeOK, DefaultName
<1> QED BY <1>2 DEF BInv, TypeOK, References, EnsurerInv, EnsurerTypeOK

\* A step of the tasks, which leaves the files and the command alone.
LEMMA TaskStep ==
  ASSUME BInv, EnsurerInv', UNCHANGED <<want, fileVars, cliVars>>,
         pc' \in Step, i' \in 1..Len(MyTasks), failed' \in BOOLEAN, Stage'
  PROVE  BInv'
  BY DEF BInv, MyTasks, TypeOK, References, EnsurerInv, EnsurerTypeOK, fileVars, cliVars,
         OwnRefs, IsExternal

\* A step that leaves NSX-T alone and takes references from the file, puts
\* them there or forgets them.
LEMMA FileStep ==
  ASSUME BInv, UNCHANGED <<want, nsxtVars>>, faults' \in 0..MaxFaults,
         mem' \in {mem, NoRefs} \/ (file # NoFile /\ mem' = file.refs),
         file' \in {file, [version |-> version, refs |-> mem], NoFile}, bak' \in {bak, file},
         version' \in BOOLEAN, cmd' \in Command, outcome' \in {"none", "done", "failed"},
         commands' \in 0..MaxCommands,
         pc' \in Step, i' \in 1..Len(TasksOf(version')), failed' \in BOOLEAN, Stage'
  PROVE  BInv'
<1>1. mem' \in References /\ OwnRefs(mem)'
  BY NoRefsType DEF BInv, TypeOK, References, StateFile, OwnRefs, IsExternal
<1>2. /\ file' \in StateFile \union {NoFile} /\ bak' \in StateFile \union {NoFile}
      /\ [version |-> version, refs |-> mem].refs = mem
  BY DEF BInv, TypeOK, StateFile, References
<1>3. (file # NoFile => OwnRefs(file.refs))'
  BY <1>2 DEF BInv, OwnRefs, IsExternal
<1>4. OwnIds' /\ OthersUntouched'
  BY DEF BInv, OwnIds, OthersUntouched, Foreign, nsxtVars
<1> QED BY <1>1, <1>2, <1>3, <1>4 DEF BInv, TypeOK, References, MyTasks, nsxtVars

\* Both commands that run the tasks begin with a start that can fail.
LEMMA StartCreateBInv ==
  ASSUME BInv, StartCreate
  PROVE  BInv'
<1>1. faults' \in 0..MaxFaults
  BY FaultsBounded DEF StartCreate, StartFails, Run, BInv, TypeOK
<1>2. /\ cmd' \in Command /\ cmd'.op = "create" /\ commands' \in 0..MaxCommands
      /\ UNCHANGED <<want, file, bak, nsxtVars>>
  BY MaxCommandsAssumption DEF StartCreate, StartCommand, Command, fileVars, BInv, TypeOK
<1>3. /\ pc' \in {"idle", "recover"} /\ i' = 1 /\ failed' = FALSE /\ mem' = NoRefs
      /\ version' \in StateVersions \union {NSXT3} /\ outcome' \in {"failed", "none"}
  BY DEF StartCreate, StartFails, End, Run
<1>4. version' \in BOOLEAN /\ 1 \in 1..Len(TasksOf(version'))
  BY <1>3, StateVersionsAssumption, NSXT3Assumption, TasksOfType
<1>5. Stage'
  BY <1>2, <1>3 DEF Stage
<1> QED BY <1>1, <1>2, <1>3, <1>4, <1>5, FileStep DEF Step

LEMMA StartDestroyBInv ==
  ASSUME BInv, StartDestroy
  PROVE  BInv'
<1>1. PICK state \in BOOLEAN, spec \in BOOLEAN :
        /\ state \/ spec
        /\ state => file # NoFile
        /\ StartCommand("destroy", state, spec)
        /\ LET step == FirstStep(state, spec)
               v    == IF state THEN file.version ELSE NSXT3
           IN  \/ Run(step, IF step = "delete" THEN Len(TasksOf(v)) ELSE 1,
                      v, IF state THEN file.refs ELSE NoRefs)
               \/ StartFails(~state)
  BY DEF StartDestroy
<1>2. faults' \in 0..MaxFaults
  BY <1>1, FaultsBounded DEF StartFails, Run, BInv, TypeOK
<1>3. /\ cmd' \in Command /\ cmd'.op = "destroy" /\ commands' \in 0..MaxCommands
      /\ UNCHANGED <<want, file, bak, nsxtVars>>
  BY <1>1, MaxCommandsAssumption
     DEF StartDestroy, StartCommand, Command, fileVars, BInv, TypeOK
<1>4. /\ pc' \in {"idle", "recoverAll", "delete"} /\ i' \in {1, Len(TasksOf(version'))}
      /\ failed' = FALSE
      /\ version' = NSXT3 \/ (file # NoFile /\ version' = file.version)
      /\ mem' = NoRefs \/ (file # NoFile /\ mem' = file.refs)
      /\ pc' = "idle" => mem' = NoRefs
      /\ outcome' \in {"failed", "none"}
  BY <1>1 DEF StartFails, End, Run, FirstStep
<1>5. version' \in BOOLEAN
  BY <1>4, NSXT3Assumption DEF BInv, TypeOK, StateFile
<1>6. i' \in 1..Len(TasksOf(version'))
  BY <1>4, <1>5, TasksOfType
<1>7. Stage'
  BY <1>3, <1>4 DEF Stage
<1> QED BY <1>2, <1>3, <1>4, <1>5, <1>6, <1>7, FileStep DEF Step

LEMMA RecoverTaskBInv ==
  ASSUME BInv, RecoverTask
  PROVE  BInv'
<1>1. MyTasks[i] \in Task
  BY MyTasksType DEF BInv, TypeOK
<1>2. EnsurerInv'
  BY <1>1, BInvEnsurer, RecoverInv DEF RecoverTask
<1>3. Stage'
  BY DEF RecoverTask, BInv, Stage, cliVars
<1> QED BY <1>2, <1>3, TaskStep DEF RecoverTask, BInv, TypeOK, Step

\* What comes after a task that was ensured, by its result.
LEMMA AfterEnsureStep ==
  ASSUME BInv, pc = "ensure", NEW res \in Result, AfterEnsure(res, Len(MyTasks))
  PROVE  /\ pc' \in Step /\ i' \in 1..Len(MyTasks) /\ failed' \in BOOLEAN
         /\ \/ pc' = "panic" /\ res = "panic"
            \/ pc' = "save" /\ failed' /\ res = "err"
            \/ pc' = "save" /\ failed' = failed /\ res = "ok" /\ i = Len(MyTasks)
            \/ pc' = "recover" /\ failed' = failed /\ res = "ok" /\ i < Len(MyTasks) /\ i' = i + 1
<1>1. i \in 1..Len(MyTasks) /\ Len(MyTasks) \in Nat /\ failed \in BOOLEAN
  BY MyTasksType DEF BInv, TypeOK
<1>2. CASE res = "panic"
  BY <1>1, <1>2 DEF AfterEnsure, Step
<1>3. CASE res = "err"
  BY <1>1, <1>3 DEF AfterEnsure, Step
<1>4. CASE res = "ok" /\ i < Len(MyTasks)
  BY <1>1, <1>4 DEF AfterEnsure, Step
<1>5. CASE res = "ok" /\ ~(i < Len(MyTasks))
  BY <1>1, <1>5 DEF AfterEnsure, Step
<1> QED BY <1>2, <1>3, <1>4, <1>5 DEF Result

LEMMA EnsureTaskBInv ==
  ASSUME BInv, EnsureTask
  PROVE  BInv'
<1>1. MyTasks[i] \in Task
  BY MyTasksType DEF BInv, TypeOK
<1>2. PICK res \in Result : Ensure(MyTasks[i], res) /\ AfterEnsure(res, Len(MyTasks))
  BY DEF EnsureTask
<1>3. EnsurerInv'
  BY <1>1, <1>2, BInvEnsurer, EnsureInv DEF EnsureTask
<1>4. /\ pc' \in {"recover", "save", "panic"} /\ i' \in 1..Len(MyTasks) /\ failed' \in BOOLEAN
      /\ pc = "ensure"
  BY <1>2, AfterEnsureStep DEF EnsureTask
<1>5. Stage'
  BY <1>4 DEF EnsureTask, BInv, Stage, cliVars
<1> QED BY <1>3, <1>4, <1>5, TaskStep DEF EnsureTask, Step

LEMMA RecoverBeforeDeleteBInv ==
  ASSUME BInv, RecoverBeforeDelete
  PROVE  BInv'
<1>1. MyTasks[i] \in Task
  BY MyTasksType DEF BInv, TypeOK
<1>2. PICK res \in Result : tryRecover(MyTasks[i], TRUE, res) /\ AfterRecoverAll(res, Len(MyTasks))
  BY DEF RecoverBeforeDelete
<1>3. EnsurerInv'
  BY <1>1, <1>2, BInvEnsurer, RecoverInv DEF RecoverBeforeDelete
<1>4. pc = "recoverAll" /\ pc' \in {"recoverAll", "delete", "panic"} /\ i' \in 1..Len(MyTasks)
  BY <1>2, MyTasksType DEF AfterRecoverAll, RecoverBeforeDelete, BInv, TypeOK
<1>5. Stage'
  BY <1>4 DEF RecoverBeforeDelete, BInv, Stage, cliVars
<1> QED BY <1>3, <1>4, <1>5, TaskStep DEF RecoverBeforeDelete, BInv, TypeOK, Step

\* What comes after a task that was undone, by its result.
LEMMA AfterDeleteStep ==
  ASSUME BInv, pc = "delete", NEW res \in Result, AfterDelete(res, Len(MyTasks))
  PROVE  /\ pc' \in Step /\ i' \in 1..Len(MyTasks) /\ failed' \in BOOLEAN
         /\ \/ pc' = "panic" /\ res = "panic"
            \/ pc' = "saveDeleted" /\ failed' /\ res = "err"
            \/ pc' = "saveDeleted" /\ failed' = failed /\ res = "ok" /\ i = 1
            \/ pc' = "delete" /\ failed' = failed /\ res = "ok" /\ i > 1 /\ i' = i - 1
<1>1. i \in 1..Len(MyTasks) /\ Len(MyTasks) \in Nat /\ failed \in BOOLEAN
  BY MyTasksType DEF BInv, TypeOK
<1>2. CASE res = "panic"
  BY <1>1, <1>2 DEF AfterDelete, Step
<1>3. CASE res = "err"
  BY <1>1, <1>3 DEF AfterDelete, Step
<1>4. CASE res = "ok" /\ i > 1
  BY <1>1, <1>4 DEF AfterDelete, Step
<1>5. CASE res = "ok" /\ ~(i > 1)
  BY <1>1, <1>5 DEF AfterDelete, Step
<1> QED BY <1>2, <1>3, <1>4, <1>5 DEF Result

LEMMA DeleteTaskBInv ==
  ASSUME BInv, DeleteTask
  PROVE  BInv'
<1>1. MyTasks[i] \in Task
  BY MyTasksType DEF BInv, TypeOK
<1>2. PICK res \in Result : EnsureDeleted(MyTasks[i], res) /\ AfterDelete(res, Len(MyTasks))
  BY DEF DeleteTask
<1>3. EnsurerInv'
  BY <1>1, <1>2, BInvEnsurer, DeletedInv DEF DeleteTask
<1>4. /\ pc' \in {"delete", "saveDeleted", "panic"} /\ i' \in 1..Len(MyTasks)
      /\ failed' \in BOOLEAN /\ pc = "delete"
  BY <1>2, AfterDeleteStep DEF DeleteTask
<1>5. Stage'
  BY <1>4 DEF DeleteTask, BInv, Stage, cliVars
<1> QED BY <1>3, <1>4, <1>5, TaskStep DEF DeleteTask, Step

\* The load balancers of the cluster are the shoot's own.
LEMMA DestroyLoadBalancersBInv ==
  ASSUME BInv, DestroyLoadBalancers
  PROVE  BInv'
<1>1. faults' \in 0..MaxFaults
  BY FaultsBounded DEF DestroyLoadBalancers, BInv, TypeOK
<1>2. nsxt' \subseteq Object /\ nextId' \in Nat /\ OwnIds' /\ OthersUntouched'
  <2>1. CASE nsxt' = nsxt \ Own("lb")
    <3>1. \A o \in Own("lb") : o \in nsxt => o.owner = "shoot"
      BY DEF Own
    <3> QED BY <2>1, <3>1, BInvEnsurer, RemoveOwn DEF DestroyLoadBalancers
  <2>2. CASE UNCHANGED nsxt
    BY <2>2 DEF DestroyLoadBalancers, BInv, TypeOK, OwnIds, OthersUntouched, Foreign
  <2> QED BY <2>1, <2>2 DEF DestroyLoadBalancers
<1>3. NSXT3 \in BOOLEAN /\ 1 \in 1..Len(TasksOf(NSXT3))
  BY NSXT3Assumption, TasksOfType
<1>4. /\ cmd' \in Command /\ commands' \in 0..MaxCommands /\ UNCHANGED <<want, file, bak>>
      /\ pc' = "idle" /\ i' = 1 /\ failed' = FALSE /\ mem' = NoRefs /\ version' = NSXT3
      /\ outcome' \in {"done", "failed"}
  BY MaxCommandsAssumption
     DEF DestroyLoadBalancers, StartCommand, End, Command, fileVars, BInv, TypeOK
<1>5. Stage'
  BY <1>4 DEF Stage
<1>6. (file # NoFile => OwnRefs(file.refs))' /\ OwnRefs(mem)' /\ mem' \in References
  BY <1>4, NoRefsType DEF BInv, OwnRefs, IsExternal, References
<1> QED BY <1>1, <1>2, <1>3, <1>4, <1>5, <1>6 DEF BInv, TypeOK, MyTasks, Step

\* Saving moves references from one place to another.
LEMMA SaveStateBInv ==
  ASSUME BInv, SaveState
  PROVE  BInv'
<1>1. faults' \in 0..MaxFaults
  BY FaultsBounded DEF SaveState, EndUnsaved, RenameFile, WriteFile, BInv, TypeOK
<1>2. NSXT3 \in BOOLEAN /\ 1 \in 1..Len(TasksOf(NSXT3))
  BY NSXT3Assumption, TasksOfType
<1>3. /\ UNCHANGED <<want, nsxtVars>> /\ mem' \in {mem, NoRefs}
      /\ file' \in {file, [version |-> version, refs |-> mem], NoFile} /\ bak' \in {bak, file}
      /\ (version' = NSXT3 /\ i' = 1) \/ (version' = version /\ i' = i)
      /\ cmd' = cmd /\ commands' = commands /\ outcome' \in {outcome, "failed", "done"}
      /\ pc' \in {"idle", "write"} /\ (failed' = failed \/ failed' = FALSE)
      /\ pc' = "idle" => mem' = NoRefs
      /\ pc' = "write" => file' = NoFile
  <2>1. UNCHANGED <<want, nsxtVars>> /\ cmd' = cmd /\ commands' = commands
    BY DEF SaveState, EndUnsaved, RenameFile, WriteFile
  <2>2. file' \in {file, [version |-> version, refs |-> mem], NoFile} /\ bak' \in {bak, file}
    BY DEF SaveState, EndUnsaved, RenameFile, WriteFile, Rename, fileVars
  <2>3. CASE Finish
    <3>1. /\ pc' = "idle" /\ i' = 1 /\ failed' = FALSE /\ mem' = NoRefs /\ version' = NSXT3
          /\ outcome' \in {"failed", "done"}
      BY <2>3 DEF Finish, End
    <3>2. pc' # "write"
      BY <3>1
    <3> QED BY <2>1, <2>2, <3>1, <3>2
  <2>4. CASE ~Finish
    <3>1. RenameFile /\ pc' = "write" /\ UNCHANGED <<i, failed, mem, version, outcome>>
      BY <2>4 DEF SaveState, EndUnsaved, RenameFile, WriteFile
    <3>2. file' = NoFile
      BY <3>1 DEF RenameFile, Rename, fileVars, Finish, End
    <3> QED BY <2>1, <2>2, <3>1, <3>2
  <2> QED BY <2>3, <2>4
<1>4. Stage'
  BY <1>3 DEF Stage
<1>5. version' \in BOOLEAN /\ i' \in 1..Len(TasksOf(version'))
  BY <1>2, <1>3 DEF BInv, TypeOK, MyTasks
<1> QED BY <1>1, <1>3, <1>4, <1>5, FileStep DEF BInv, TypeOK, Step

\* The process ends.
LEMMA EndBInv ==
  ASSUME BInv, Panic \/ Kill
  PROVE  BInv'
<1>1. faults' \in 0..MaxFaults
  BY FaultsBounded DEF Panic, Kill, BInv, TypeOK
<1>2. NSXT3 \in BOOLEAN /\ 1 \in 1..Len(TasksOf(NSXT3))
  BY NSXT3Assumption, TasksOfType
<1>3. /\ UNCHANGED <<want, nsxtVars, file, bak, cmd, commands>> /\ mem' = NoRefs
      /\ version' = NSXT3
      /\ outcome' = "failed" /\ pc' = "idle" /\ i' = 1 /\ failed' = FALSE
  BY DEF Panic, Kill, End, fileVars
<1>4. Stage'
  BY <1>3 DEF Stage
<1> QED BY <1>1, <1>2, <1>3, <1>4, FileStep DEF BInv, TypeOK, Step

LEMMA StutterBInv ==
  ASSUME BInv, UNCHANGED vars
  PROVE  BInv'
  BY DEF vars, nsxtVars, ensurerVars, procVars, fileVars, cliVars, BInv, TypeOK, OwnIds,
         OwnRefs, OthersUntouched, Foreign, Stage, IsExternal, MyTasks
-----------------------------------------------------------------------------
(* What the controller has built satisfies the invariants.                 *)

\* The ids that the controller has handed out: one for each task, and one for
\* a gateway and its locale service together.
LEMMA BuiltId ==
  ASSUME NEW v \in BOOLEAN, NEW t, NEW m \in 1..Len(TasksOf(v)), TasksOf(v)[m] = t
  PROVE  LET id == ExtT1Id + (CHOOSE n \in DOMAIN TasksOf(v) : TasksOf(v)[n] = t)
         IN  id \in Nat /\ id > ExtT1Id /\ id <= ExtT1Id + Len(TasksOf(v))
<1>1. DOMAIN TasksOf(v) = 1..Len(TasksOf(v)) /\ Len(TasksOf(v)) \in Nat
  BY TasksOfSeq, LenProperties
<1>2. PICK c : c = CHOOSE n \in DOMAIN TasksOf(v) : TasksOf(v)[n] = t
  OBVIOUS
<1>3. c \in 1..Len(TasksOf(v))
  BY <1>1, <1>2
<1> QED BY <1>1, <1>2, <1>3, ExtT1IdAssumption

\* The references that the controller has exported.
LEMMA BuiltRefsAre ==
  ASSUME NEW v \in BOOLEAN, want = [n \in Input |-> DefaultName]
  PROVE  /\ BuiltRefs(v) \in References /\ OwnRefs(BuiltRefs(v))
         /\ \A k \in RequiredOf(TasksOf(v)) :
              /\ BuiltRefs(v)[k] \in Nat /\ BuiltRefs(v)[k] > ExtT1Id
              /\ BuiltRefs(v)[k] <= ExtT1Id + Len(TasksOf(v))
         /\ BuiltRefs(v)["pool"] = DefaultName
         /\ ExternalT1 => BuiltRefs(v)["t1"] = ExtT1Id
         /\ ~ExternalT1 => BuiltRefs(v)["ls"] = BuiltRefs(v)["t1"]
<1> DEFINE idOf(t) == ExtT1Id + (CHOOSE n \in DOMAIN TasksOf(v) : TasksOf(v)[n] = t)
           Listed(k) == \E n \in DOMAIN TasksOf(v) : TasksOf(v)[n] = k
           IsId(id) == id \in Nat /\ id > ExtT1Id /\ id <= ExtT1Id + Len(TasksOf(v))
<1>1. DOMAIN TasksOf(v) = 1..Len(TasksOf(v))
  BY TasksOfSeq, LenProperties
<1>2. ASSUME NEW t, Listed(t) PROVE IsId(idOf(t))
  BY <1>1, <1>2, BuiltId
<1>3. Listed("t1") /\ Listed("seg") /\ Listed("alloc") /\ Listed("ls")
  <2>1. /\ {5, 6} \subseteq 1..Len(TasksOf(v)) /\ TasksOf(v)[5] = "t1" /\ TasksOf(v)[6] = "ls"
    BY TaskListOf
  <2>2. CASE v
    <3>1. Len(TasksOf(v)) = 11 /\ TasksOf(v)[8] = "seg" /\ TasksOf(v)[9] = "alloc"
      BY <2>2, TaskListOf
    <3> QED BY <1>1, <2>1, <3>1
  <2>3. CASE ~v
    <3>1. Len(TasksOf(v)) = 15 /\ TasksOf(v)[7] = "seg" /\ TasksOf(v)[8] = "alloc"
      BY <2>3, TaskListOf
    <3> QED BY <1>1, <2>1, <3>1
  <2> QED BY <2>2, <2>3
<1> DEFINE Ref1(k) ==
      IF k \in NameLookup THEN want[k]
      ELSE IF IsExternal(k) THEN (IF k = "t1" THEN ExtT1Id ELSE Nil)
      ELSE IF \A n \in DOMAIN TasksOf(v) : TasksOf(v)[n] # k THEN Nil
      ELSE idOf(CASE k = "ls" -> "t1" [] k \in Lookup -> Target(k) [] OTHER -> k)
<1>4. BuiltRefs(v) = [k \in Task |-> Ref1(k)]
  BY DEF BuiltRefs
<1>5. \A k \in NameLookup : Ref1(k) = DefaultName
  BY DEF Input
<1>6. ASSUME NEW k \in Task \ NameLookup, ~IsExternal(k), Listed(k)
      PROVE  IsId(Ref1(k)) /\ (k = "ls" => Ref1(k) = idOf("t1"))
             /\ (k \notin Lookup \union {"ls"} => Ref1(k) = idOf(k))
  <2> HIDE DEF idOf, IsId
  <2>1. CASE k = "ls"
    <3>1. Ref1(k) = idOf("t1")
      BY <1>6, <2>1 DEF NameLookup, Lookup
    <3> QED BY <1>2, <1>3, <2>1, <3>1 DEF Lookup, NameLookup
  <2>2. CASE k \in {"ip", "lsw"}
    <3>1. Ref1(k) = idOf(Target(k)) /\ Target(k) \in {"alloc", "seg"}
      BY <1>6, <2>2 DEF NameLookup, Lookup, Target
    <3> QED BY <1>2, <1>3, <2>2, <3>1 DEF Lookup
  <2>3. CASE k \notin Lookup \union {"ls"}
    <3>1. Ref1(k) = idOf(k)
      BY <1>6, <2>3
    <3> QED BY <1>2, <1>6, <2>3, <3>1
  <2> QED BY <1>6, <2>1, <2>2, <2>3 DEF Lookup
<1>7. ASSUME NEW k \in Task \ NameLookup, IsExternal(k) \/ ~Listed(k)
      PROVE  Ref1(k) = IF k = "t1" /\ IsExternal(k) THEN ExtT1Id ELSE Nil
  <2> HIDE DEF idOf
  <2> QED BY <1>7
<1> HIDE DEF Ref1
<1>8. \A k \in Task : BuiltRefs(v)[k] = Ref1(k) /\ Ref1(k) \in Ref
  <2> SUFFICES ASSUME NEW k \in Task PROVE Ref1(k) \in Ref
    BY <1>4
  <2>1. CASE k \in NameLookup
    BY <1>5, <2>1 DEF Ref, DefaultName
  <2>2. CASE k \notin NameLookup /\ ~IsExternal(k) /\ Listed(k)
    BY <1>6, <2>2 DEF Ref
  <2>3. CASE k \notin NameLookup /\ (IsExternal(k) \/ ~Listed(k))
    <3>1. Ref1(k) \in {ExtT1Id, Nil}
      BY <1>7, <2>3
    <3> QED BY <3>1, ExtT1IdAssumption DEF Ref, Nil
  <2> QED BY <2>1, <2>2, <2>3
<1>9. BuiltRefs(v) \in References
  BY <1>4, <1>8 DEF References
<1>10. \A k \in RequiredOf(TasksOf(v)) : IsId(BuiltRefs(v)[k])
  <2> HIDE DEF IsId
  <2> SUFFICES ASSUME NEW k \in RequiredOf(TasksOf(v)) PROVE IsId(BuiltRefs(v)[k])
    OBVIOUS
  <2>1. k \in Task \ NameLookup /\ ~IsExternal(k) /\ Listed(k)
    BY DEF RequiredOf, Task, Managed, Advanced, NameLookup
  <2> QED BY <1>6, <1>8, <2>1
<1>11. OwnRefs(BuiltRefs(v))
  <2> SUFFICES ASSUME NEW k \in Managed, ~IsExternal(k)
               PROVE  BuiltRefs(v)[k] = Nil \/ BuiltRefs(v)[k] > ExtT1Id
    BY DEF OwnRefs
  <2>1. k \in Task \ NameLookup
    BY DEF Task, Managed, Advanced, NameLookup
  <2>2. CASE Listed(k)
    BY <1>6, <1>8, <2>1, <2>2
  <2>3. CASE ~Listed(k)
    BY <1>7, <1>8, <2>1, <2>3
  <2> QED BY <2>2, <2>3
<1>12. BuiltRefs(v)["pool"] = DefaultName
  BY <1>5, <1>8 DEF Task, Lookup, NameLookup
<1>13. ExternalT1 => BuiltRefs(v)["t1"] = ExtT1Id
  BY <1>7, <1>8 DEF Task, Managed, NameLookup, IsExternal
<1>14. ~ExternalT1 => BuiltRefs(v)["ls"] = BuiltRefs(v)["t1"]
  <2> HIDE DEF idOf, IsId
  <2>1. {"ls", "t1"} \subseteq Task \ NameLookup /\ "t1" \notin Lookup \union {"ls"}
    BY DEF Task, Managed, Lookup, NameLookup
  <2>2. ~ExternalT1 => ~IsExternal("ls") /\ ~IsExternal("t1")
    BY DEF IsExternal
  <2> QED BY <1>3, <1>6, <1>8, <2>1, <2>2
<1> QED BY <1>9, <1>10, <1>11, <1>12, <1>13, <1>14

\* What the object of a task looks like which the controller has built.
BuiltFor(v, k) ==
  [kind |-> k, id |-> BuiltRefs(v)[k], owner |-> "shoot",
   parent |-> IF Parents[k] = "root" THEN Nil ELSE BuiltRefs(v)[Parents[k]],
   attrs  |-> [a \in Attr |-> IF a \notin UsesOf(v)[k] THEN Nil
                              ELSE IF a = "net" THEN want[a] ELSE BuiltRefs(v)[a]]]

LEMMA BuiltObjects ==
  ASSUME NEW v \in BOOLEAN, want = [n \in Input |-> DefaultName]
  PROVE  /\ Built(v) = {BuiltFor(v, k) : k \in RequiredOf(TasksOf(v))}
         /\ \A k \in RequiredOf(TasksOf(v)) : BuiltFor(v, k) \in Object
<1>1. Built(v) = {BuiltFor(v, k) : k \in RequiredOf(TasksOf(v))}
  BY DEF Built, BuiltFor
<1>2. ASSUME NEW k \in RequiredOf(TasksOf(v)) PROVE BuiltFor(v, k) \in Object
  <2>1. k \in Managed /\ BuiltRefs(v)[k] \in Nat /\ BuiltRefs(v) \in [Task -> Ref]
    BY BuiltRefsAre DEF RequiredOf, References
  <2>2. Parents[k] = "root" \/ Parents[k] \in Task
    BY <2>1 DEF Parents, Task, Managed, Lookup, NameLookup, Advanced
  <2>3. (IF Parents[k] = "root" THEN Nil ELSE BuiltRefs(v)[Parents[k]]) \in Nat
    BY <2>1, <2>2 DEF Ref, Nil
  <2>4. ASSUME NEW a \in Attr
        PROVE  (IF a \notin UsesOf(v)[k] THEN Nil
                ELSE IF a = "net" THEN want[a] ELSE BuiltRefs(v)[a]) \in Ref
    <3>1. "net" \in Input => want["net"] \in Ref
      BY DEF DefaultName, Ref
    <3> QED BY <2>1, <3>1 DEF Attr, Ref, Nil, Input
  <2>5. [a \in Attr |-> IF a \notin UsesOf(v)[k] THEN Nil
                        ELSE IF a = "net" THEN want[a] ELSE BuiltRefs(v)[a]] \in [Attr -> Ref]
    BY <2>4
  <2> QED BY <2>1, <2>3, <2>5 DEF BuiltFor, Object, Kind, Owner
<1> QED BY <1>1, <1>2

LEMMA AttachedObject ==
  ASSUME NEW v \in BOOLEAN, want = [n \in Input |-> DefaultName], NEW o \in Attached(v)
  PROVE  o \in Object /\ o.owner = "shoot" /\ o.kind = "lb" /\ o.id = ExtT1Id + Len(TasksOf(v)) + 1
<1>1. BuiltRefs(v)["t1"] \in Ref /\ Nil \in Ref
  BY BuiltRefsAre DEF References, Task, Managed, Ref, Nil
<1>2. [a \in Attr |-> IF a = "t1" THEN BuiltRefs(v)["t1"] ELSE Nil] \in [Attr -> Ref]
  BY <1>1
<1>3. ExtT1Id + Len(TasksOf(v)) + 1 \in Nat
  BY ExtT1IdAssumption, TasksOfType
<1> QED BY <1>2, <1>3 DEF Attached, Object, Kind, Owner, Nil

\* Initially the shoot owns nothing, or what the controller has built.
LEMMA InitObjects ==
  ASSUME NEW v \in BOOLEAN, want = [n \in Input |-> DefaultName], InitInfra(v)
  PROVE  /\ nsxt \subseteq Object /\ OwnIds /\ OthersUntouched
         /\ \/ \A k \in Managed : Own(k) = {}
            \/ \A k \in Managed :
                 Own(k) = {BuiltFor(v, j) : j \in {j \in RequiredOf(TasksOf(v)) : j = k}}
<1>1. /\ nextId = ExtT1Id + Len(TasksOf(v)) + 2
      /\ nsxt \in {Others, Others \union Built(v), Others \union Built(v) \union Attached(v)}
  BY DEF InitInfra
<1>2. \A o \in Others : o \in Object /\ o.owner = "other"
  BY OthersAssumption
<1>3. \A o \in Built(v) : /\ o \in Object /\ o.owner = "shoot" /\ o.id > ExtT1Id
                          /\ o.kind \in RequiredOf(TasksOf(v)) /\ o = BuiltFor(v, o.kind)
  <2>1. \A k \in RequiredOf(TasksOf(v)) :
          /\ BuiltFor(v, k).kind = k /\ BuiltFor(v, k).owner = "shoot"
          /\ BuiltFor(v, k).id = BuiltRefs(v)[k]
    BY DEF BuiltFor
  <2>2. \A k \in RequiredOf(TasksOf(v)) : BuiltRefs(v)[k] > ExtT1Id
    BY BuiltRefsAre
  <2>3. /\ Built(v) = {BuiltFor(v, k) : k \in RequiredOf(TasksOf(v))}
        /\ \A k \in RequiredOf(TasksOf(v)) : BuiltFor(v, k) \in Object
    BY BuiltObjects
  <2> HIDE DEF Built
  <2> QED BY <2>1, <2>2, <2>3
<1>4. \A o \in Attached(v) : o \in Object /\ o.owner = "shoot" /\ o.id > ExtT1Id /\ o.kind = "lb"
  BY AttachedObject, ExtT1IdAssumption, TasksOfType
<1>5. nextId > ExtT1Id
  BY <1>1, ExtT1IdAssumption, TasksOfType
<1>6. nsxt \subseteq Object /\ OwnIds /\ OthersUntouched
  BY <1>1, <1>2, <1>3, <1>4, <1>5 DEF OwnIds, OthersUntouched, Foreign
<1>7. CASE nsxt = Others
  BY <1>2, <1>7, <1>6 DEF Own
<1>8. CASE nsxt \in {Others \union Built(v), Others \union Built(v) \union Attached(v)}
  <2>1. ASSUME NEW k \in Managed
        PROVE  Own(k) = {BuiltFor(v, j) : j \in {j \in RequiredOf(TasksOf(v)) : j = k}}
    <3>1. k # "lb"
      BY DEF Managed, Advanced
    <3>2. Own(k) = {o \in Built(v) : o.kind = k}
      BY <1>2, <1>3, <1>4, <1>8, <3>1 DEF Own
    <3>3. \A j \in RequiredOf(TasksOf(v)) :
            BuiltFor(v, j) \in Built(v) /\ BuiltFor(v, j).kind = j
      BY BuiltObjects DEF BuiltFor
    <3> QED BY <1>3, <3>2, <3>3
  <2> QED BY <1>6, <2>1
<1> QED BY <1>1, <1>6, <1>7, <1>8

\* The versions that the infrastructure can have in the beginning.
LEMMA InitVersion ==
  ASSUME Init
  PROVE  \E v \in BOOLEAN : v \in StateVersions \union {NSXT3} /\ InitInfra(v)
  BY StateVersionsAssumption, NSXT3Assumption DEF Init

LEMMA InitBInv == Init => BInv
<1> SUFFICES ASSUME Init PROVE BInv
  OBVIOUS
<1>1. PICK v \in BOOLEAN : InitInfra(v)
  BY InitVersion
<1>2. /\ want = [n \in Input |-> DefaultName]
      /\ mem = NoRefs /\ faults = 0 /\ bak = NoFile /\ version = NSXT3
      /\ cmd = NoCommand /\ outcome = "none" /\ commands = 0
      /\ pc = "idle" /\ i = 1 /\ failed = FALSE
  BY DEF Init
<1>3. nsxt \subseteq Object /\ OwnIds /\ OthersUntouched
  BY <1>1, <1>2, InitObjects
<1>4. /\ nextId = ExtT1Id + Len(TasksOf(v)) + 2
      /\ file \in {NoFile, [version |-> v, refs |-> BuiltRefs(v)]}
  BY <1>1 DEF InitInfra
<1>5. BuiltRefs(v) \in References /\ OwnRefs(BuiltRefs(v))
  BY <1>2, BuiltRefsAre
<1>6. file \in StateFile \union {NoFile} /\ (file # NoFile => OwnRefs(file.refs))
  BY <1>4, <1>5 DEF StateFile, References
<1>7. NSXT3 \in BOOLEAN /\ 1 \in 1..Len(TasksOf(NSXT3)) /\ nextId \in Nat
  BY <1>4, TasksOfType, ExtT1IdAssumption, NSXT3Assumption
<1>8. cmd \in Command /\ 0 \in 0..MaxFaults /\ 0 \in 0..MaxCommands
  BY <1>2, MaxFaultsAssumption, MaxCommandsAssumption DEF NoCommand, Command
<1>9. TypeOK
  BY <1>2, <1>3, <1>6, <1>7, <1>8, NoRefsType DEF TypeOK, References, MyTasks, Step
<1>10. OwnRefs(mem)
  BY <1>2, NoRefsType DEF OwnRefs
<1> QED BY <1>2, <1>3, <1>6, <1>9, <1>10 DEF BInv, Stage
-----------------------------------------------------------------------------
(* What holds whatever goes wrong.                                         *)

\* Every step preserves BInv.
LEMMA NextBInv == BInv /\ [Next]_vars => BInv'
<1> SUFFICES ASSUME BInv, [Next]_vars PROVE BInv'
  OBVIOUS
<1>1. CASE CreateInfra
  BY <1>1, StartCreateBInv, RecoverTaskBInv, EnsureTaskBInv DEF CreateInfra
<1>2. CASE DestroyInfra
  BY <1>2, StartDestroyBInv, RecoverBeforeDeleteBInv, DeleteTaskBInv, DestroyLoadBalancersBInv
     DEF DestroyInfra
<1>3. CASE SaveState \/ Panic \/ Kill
  BY <1>3, SaveStateBInv, EndBInv
<1>4. CASE Stop \/ UNCHANGED vars
  BY <1>4, StutterBInv DEF Stop
<1> QED BY <1>1, <1>2, <1>3, <1>4 DEF Next

\* BInv holds in every behaviour.
THEOREM Invariance == Spec => []BInv
  BY InitBInv, NextBInv, PTL DEF Spec

\* Every variable stays within its type: no command runs past the ends of the
\* list of tasks, and the file holds references or does not exist.
THEOREM TypeCorrect == Spec => []TypeOK
<1>1. BInv => TypeOK
  BY DEF BInv
<1> QED BY <1>1, Invariance, PTL

\* OthersUntouched: however stale the state file is, no command writes or
\* deletes an object of another shoot or the external gateway.
THEOREM OthersAreUntouched == Spec => []OthersUntouched
<1>1. BInv => OthersUntouched
  BY DEF BInv
<1> QED BY <1>1, Invariance, PTL

\* DestroyForgetsNothing: while a destroy runs, is killed or panics, what the
\* file records of an object is in the file or its backup afterwards, since
\* the file is replaced only after it has been renamed.
THEOREM NothingForgottenByDestroy == Spec => DestroyForgetsNothing
<1> DEFINE Act == cmd.op = "destroy" /\ pc # "idle" =>
              \A o \in OwnManaged \intersect nsxt' :
                Records(file, o) /\ cmd.state => Records(file', o) \/ Records(bak', o)
<1>1. BInv /\ [Next]_vars => [Act]_vars
  <2> SUFFICES ASSUME BInv, Next, cmd.op = "destroy", pc # "idle", NEW o, Records(file, o)
               PROVE  Records(file', o) \/ Records(bak', o)
    OBVIOUS
  <2>1. file # NoFile
    BY DEF Records
  <2>2. file' = file \/ bak' = file
    <3>1. CASE CreateInfra \/ DestroyInfra
      BY <3>1 DEF CreateInfra, StartCreate, RecoverTask, EnsureTask, DestroyInfra, StartDestroy,
                  RecoverBeforeDelete, DeleteTask, DestroyLoadBalancers, fileVars
    <3>2. CASE EndUnsaved \/ Panic \/ Kill
      BY <3>2 DEF EndUnsaved, Panic, Kill, fileVars
    <3>3. CASE RenameFile
      BY <3>3 DEF RenameFile, Rename, fileVars
    <3>4. ~WriteFile
      BY <2>1 DEF WriteFile, BInv, Stage
    <3>5. CASE Stop
      BY <3>5 DEF Stop
    <3> QED BY <3>1, <3>2, <3>3, <3>4, <3>5 DEF Next, SaveState
  <2> QED BY <2>2 DEF Records
<1> QED BY <1>1, Invariance, PTL DEF Spec, DestroyForgetsNothing
-----------------------------------------------------------------------------
(* While the search by tags works: creation and destruction from scratch.  *)

\* Users leave the version to be determined, or fix what would be determined.
OneVersion == StateVersions \subseteq {NSXT3}

\* A destroy given only the spec that ends without error leaves no object of the
\* shoot behind that any task creates.
DestroyLeavesNothing ==
  [][pc = "saveDeleted" /\ ~cmd.state /\ outcome' = "done" => OwnManaged = {}]_vars

\* No other version of the tasks is at work or in the file than the one that
\* is determined.
VInv == version = NSXT3 /\ (file # NoFile => file.version = NSXT3)

\* A List answers: recovery finds whatever the shoot has.
SearchWorks == "list" \notin Faults

\* A create is at work; what is at work did not begin with a state file.
Creates     == cmd.op = "create" /\ pc # "idle"
FromScratch == pc = "idle" \/ ~(cmd.op = "destroy" /\ cmd.state)

\* References found by the search lead to the objects.
KnownRefs == FromScratch => Fixed(mem) /\ Agree(mem)

\* Nothing is deleted while a create is at work.
ValidRefs == Creates => \A k \in Required : mem[k] # Nil => Own(k) # {}

CreationProgress ==
  /\ pc \in {"recover", "ensure"} => \A k \in Before(i) \intersect Basic : Resolved(k)
  /\ pc = "ensure" /\ Tasks[i] \in Required /\ mem[Tasks[i]] = Nil => Own(Tasks[i]) = {}
  /\ Creates /\ pc \in {"save", "write"} /\ ~failed => \A k \in Required : Resolved(k)

DeletionProgress == ~cmd.state =>
  /\ pc = "recoverAll" => \A k \in Before(i) \intersect Basic : Found(k)
  /\ pc = "delete" =>
       /\ \A k \in Basic : Found(k)
       /\ \A k \in After(i) \intersect Required : Own(k) = {}
  /\ pc = "saveDeleted" /\ ~failed => OwnManaged = {}

CInv == /\ BInv /\ VInv /\ Placed /\ Unique /\ KnownRefs /\ ValidRefs /\ CreationProgress
        /\ LookupsWork => DeletionProgress

LEMMA SameTasks == VInv => MyTasks = Tasks
  BY DEF VInv, MyTasks, Tasks

\* CInv gives what the effects of the single operations rely on.
LEMMA CInvTask == CInv /\ FromScratch => TaskInv
  BY BInvEnsurer DEF CInv, KnownRefs, TaskInv

\* What stays true while no object of a task comes or goes.
LEMMA SameObjects ==
  ASSUME CInv, \A k \in Managed : Own(k)' = Own(k), nextId' = nextId
  PROVE  /\ Placed' /\ Unique' /\ OwnManaged' = OwnManaged
         /\ mem' = mem /\ Agree(mem) => Agree(mem)'
         /\ mem' = NoRefs => Fixed(mem)' /\ Agree(mem)'
<1>1. Unique'
  BY DEF CInv, Unique
<1>2. Placed'
  <2> SUFFICES ASSUME NEW k \in Managed, NEW o \in Own(k)'
               PROVE  /\ k \in Required /\ o.id < nextId' /\ IsPlace(Parents[k], o.parent)'
                      /\ k = "ls" => o.parent = o.id
    BY DEF Placed, Required, RequiredOf, IsExternal
  <2>1. /\ k \in Required /\ o.id < nextId /\ IsPlace(Parents[k], o.parent)
        /\ k = "ls" => o.parent = o.id
    BY DEF CInv, Placed
  <2>2. Parents[k] \in Managed \union {"root", "pool"}
    BY DEF Parents, Managed, Advanced
  <2>3. IsPlace(Parents[k], o.parent)'
    BY <2>1, <2>2 DEF IsPlace, IsExternal
  <2> QED BY <2>1, <2>3
<1>3. Required \subseteq Managed /\ Required \subseteq Task
  BY DEF Required, RequiredOf, Task
<1>4. mem' = mem /\ Agree(mem) => Agree(mem)'
  BY <1>3 DEF Agree, Required, RequiredOf, IsExternal
<1>5. mem' = NoRefs => Fixed(mem)' /\ Agree(mem)'
  BY <1>3 DEF Agree, Fixed, NoRefs, Required, RequiredOf, IsExternal, Task, Lookup,
              NameLookup, Managed
<1>6. OwnManaged' = OwnManaged
  <2>1. OwnManaged = UNION {Own(k) : k \in Managed}
    BY DEF OwnManaged, AllOwn, Own
  <2>2. OwnManaged' = UNION {Own(k)' : k \in Managed}
    BY DEF OwnManaged, AllOwn, Own
  <2> QED BY <2>1, <2>2
<1> QED BY <1>1, <1>2, <1>4, <1>5, <1>6
-----------------------------------------------------------------------------
(* Each step of the tool preserves CInv.                                   *)

\* A command that ends, or fails to start, leaves nothing to be said.
LEMMA EndCInv ==
  ASSUME CInv, BInv', VInv', \A k \in Managed : Own(k)' = Own(k), nextId' = nextId, pc' = "idle"
  PROVE  CInv'
<1>1. mem' = NoRefs
  BY DEF BInv, Stage
<1>2. Placed' /\ Unique' /\ Fixed(mem)' /\ Agree(mem)'
  BY <1>1, SameObjects
<1>3. KnownRefs' /\ ValidRefs' /\ CreationProgress' /\ DeletionProgress'
  BY <1>2 DEF KnownRefs, ValidRefs, CreationProgress, DeletionProgress, Creates
<1> QED BY <1>2, <1>3 DEF CInv, LookupsWork

\* A create starts without references.
LEMMA StartCreateCInv ==
  ASSUME CInv, BInv', VInv', StartCreate
  PROVE  CInv'
<1>1. (\A k \in Managed : Own(k)' = Own(k)) /\ nextId' = nextId
  BY DEF StartCreate, nsxtVars, Own
<1>2. CASE pc' = "idle"
  BY <1>1, <1>2, EndCInv
<1>3. CASE \E v \in StateVersions \union {NSXT3} : Run("recover", 1, v, NoRefs)
  <2>1. pc' = "recover" /\ i' = 1 /\ mem' = NoRefs
    BY <1>3 DEF Run
  <2>2. Placed' /\ Unique' /\ Fixed(mem)' /\ Agree(mem)'
    BY <1>1, <2>1, SameObjects
  <2>3. ValidRefs'
    BY <2>1 DEF ValidRefs, NoRefs, Required, RequiredOf, Task, IsExternal
  <2>4. CreationProgress'
    <3>1. Before(i)' = {}
      BY <2>1 DEF Before
    <3> QED BY <2>1, <3>1 DEF CreationProgress
  <2>5. KnownRefs' /\ DeletionProgress'
    BY <2>1, <2>2 DEF KnownRefs, DeletionProgress
  <2> QED BY <2>2, <2>3, <2>4, <2>5 DEF CInv, LookupsWork
<1> QED BY <1>2, <1>3 DEF StartCreate, StartFails, End

\* A destroy starts without references, too, unless it is given a state file.
LEMMA StartDestroyCInv ==
  ASSUME CInv, BInv', VInv', StartDestroy
  PROVE  CInv'
<1>1. (\A k \in Managed : Own(k)' = Own(k)) /\ nextId' = nextId
  BY DEF StartDestroy, nsxtVars, Own
<1>2. CASE pc' = "idle"
  BY <1>1, <1>2, EndCInv
<1>3. CASE pc' # "idle"
  <2>1. PICK state \in BOOLEAN, spec \in BOOLEAN :
          /\ state \/ spec
          /\ cmd' = [op |-> "destroy", state |-> state, spec |-> spec]
          /\ LET step == FirstStep(state, spec)
                 v    == IF state THEN file.version ELSE NSXT3
             IN  Run(step, IF step = "delete" THEN Len(TasksOf(v)) ELSE 1,
                     v, IF state THEN file.refs ELSE NoRefs)
    BY <1>3 DEF StartDestroy, StartCommand, StartFails, End
  <2>2. /\ cmd'.op = "destroy" /\ pc' \in {"recoverAll", "delete"}
        /\ ~cmd'.state => pc' = "recoverAll" /\ i' = 1 /\ mem' = NoRefs
    BY <2>1 DEF Run, FirstStep
  <2>3. Placed' /\ Unique' /\ (mem' = NoRefs => Fixed(mem)' /\ Agree(mem)')
    BY <1>1, SameObjects
  <2>4. KnownRefs' /\ ValidRefs' /\ CreationProgress'
    BY <2>2, <2>3 DEF KnownRefs, FromScratch, ValidRefs, Creates, CreationProgress
  <2>5. DeletionProgress'
    <3>1. ~cmd'.state => Before(i)' = {}
      BY <2>2 DEF Before
    <3> QED BY <2>2, <3>1 DEF DeletionProgress
  <2> QED BY <2>3, <2>4, <2>5 DEF CInv, LookupsWork
<1> QED BY <1>2, <1>3

\* Saving changes neither objects nor references.
LEMMA SaveStateCInv ==
  ASSUME CInv, BInv', VInv', SaveState
  PROVE  CInv'
<1>1. UNCHANGED nsxtVars
  BY DEF SaveState, EndUnsaved, RenameFile, WriteFile
<1>2. (\A k \in Managed : Own(k)' = Own(k)) /\ nextId' = nextId
  BY <1>1 DEF nsxtVars, Own
<1>3. CASE pc' = "idle"
  BY <1>2, <1>3, EndCInv
<1>4. CASE pc' # "idle"
  <2>1. /\ pc' = "write" /\ UNCHANGED <<mem, failed, cmd>>
        /\ pc = "save" \/ pc = "saveDeleted"
    BY <1>4 DEF SaveState, EndUnsaved, RenameFile, WriteFile, Finish, End, MustSave
  <2>2. Placed' /\ Unique' /\ (Agree(mem) => Agree(mem)')
    BY <1>2, <2>1, SameObjects
  <2>3. KnownRefs'
    BY <2>1, <2>2 DEF CInv, KnownRefs, FromScratch, Fixed
  <2>4. ValidRefs' /\ CreationProgress'
    <3>1. Required \subseteq Managed
      BY DEF Required, RequiredOf
    <3>2. cmd.op = "create" => pc = "save"
      BY <2>1 DEF CInv, BInv, Stage
    <3> QED BY <1>2, <2>1, <3>1, <3>2
            DEF CInv, ValidRefs, CreationProgress, Creates, Resolved, Required, RequiredOf,
                IsExternal
  <2>5. DeletionProgress'
    BY <2>1 DEF DeletionProgress
  <2> QED BY <2>2, <2>3, <2>4, <2>5 DEF CInv, LookupsWork
<1> QED BY <1>3, <1>4

\* A process that ends, and the load balancers, leave the objects of the tasks.
LEMMA BesidesCInv ==
  ASSUME CInv, BInv', VInv', DestroyLoadBalancers \/ Panic \/ Kill
  PROVE  CInv'
<1>1. pc' = "idle" /\ nextId' = nextId
  BY DEF DestroyLoadBalancers, Panic, Kill, End, nsxtVars
<1>2. \A k \in Managed : Own(k)' = Own(k)
  BY DEF DestroyLoadBalancers, Panic, Kill, nsxtVars, Own, Managed, Advanced
<1> QED BY <1>1, <1>2, EndCInv

\* A stuttering step changes nothing.
LEMMA StutterCInv ==
  ASSUME CInv, BInv', VInv', UNCHANGED vars
  PROVE  CInv'
<1>1. UNCHANGED <<nsxt, nextId, mem, pc, i, failed, cmd>>
  BY DEF vars, nsxtVars, ensurerVars, procVars, cliVars
<1>2. (\A k \in Managed : Own(k)' = Own(k)) /\ nextId' = nextId
  BY <1>1 DEF Own
<1>3. Placed' /\ Unique' /\ OwnManaged' = OwnManaged /\ (Agree(mem) => Agree(mem)')
  BY <1>1, <1>2, SameObjects
<1>4. KnownRefs' /\ ValidRefs'
  BY <1>1, <1>3 DEF CInv, KnownRefs, ValidRefs, FromScratch, Creates, Fixed, Own,
                    Required, RequiredOf, IsExternal
<1>5. CreationProgress'
  BY <1>1, <1>2 DEF CInv, CreationProgress, Creates, Before, Resolved, Required, RequiredOf
<1>6. LookupsWork => DeletionProgress'
  BY <1>1, <1>2, <1>3 DEF CInv, DeletionProgress, Before, After, Found, Required, RequiredOf
<1> QED BY <1>3, <1>4, <1>5, <1>6 DEF CInv, LookupsWork

\* tryRecover: a nil reference is left only if there is no object.
LEMMA RecoverTaskCInv ==
  ASSUME CInv, BInv', VInv', SearchWorks, RecoverTask
  PROVE  CInv'
<1>a. MyTasks = Tasks /\ i \in 1..Len(Tasks) /\ Tasks[i] \in Task
  BY SameTasks, TasksType DEF CInv, BInv, TypeOK
<1>b. PICK k \in Task : k = Tasks[i]
  BY <1>a
<1>1. /\ pc = "recover" /\ pc' = "ensure" /\ tryRecover(k, FALSE, "ok")
      /\ UNCHANGED <<i, failed, want, cmd>> /\ cmd.op = "create"
  BY <1>a, <1>b DEF RecoverTask, cliVars, CInv, BInv, Stage
<1>2. TaskInv /\ Creates
  BY <1>1, CInvTask DEF FromScratch, Creates
<1>3. \A j \in Before(i) \intersect Basic : Resolved(j)
  BY <1>1 DEF CInv, CreationProgress
<1>4. /\ TaskInv' /\ UNCHANGED nsxtVars /\ OnlyTask(k)
      /\ k \in Required => (mem'[k] = Nil <=> Own(k) = {}) \/ (mem' = mem /\ mem[k] # Nil)
      /\ k \notin Required => mem' = mem
  <2>1. CASE k \in Required /\ mem[k] = Nil
    <3>1. RecoverObject(k, "ok")
      BY <1>1, <2>1 DEF tryRecover, Required, RequiredOf, Lookup, NameLookup, Managed, Advanced
    <3>2. Parents[k] # "root" => mem[Parents[k]] # Nil
      BY <1>a, <1>b, <1>3, <2>1, ParentBefore DEF Resolved
    <3>3. /\ TaskInv' /\ UNCHANGED nsxtVars /\ OnlyTask(k)
          /\ mem'[k] = Nil <=> Own(k) = {}
      BY <1>1, <1>2, <2>1, <3>1, <3>2, RecoverEffect DEF SearchWorks
    <3> QED BY <2>1, <3>3
  <2>2. CASE ~(k \in Required /\ mem[k] = Nil)
    <3>1. mem' = mem /\ UNCHANGED nsxtVars
      BY <1>a, <1>b, <1>1, <2>2, RequiredTask DEF tryRecover
    <3>2. (\A j \in Managed : Own(j)' = Own(j)) /\ nextId' = nextId
      BY <3>1 DEF Own, nsxtVars
    <3>3. Placed' /\ Unique' /\ Agree(mem)' /\ Fixed(mem)'
      BY <1>2, <3>1, <3>2, SameObjects DEF TaskInv, Fixed
    <3>4. TaskInv'
      BY <1>1, <1>2, <3>3, BInvEnsurer DEF TaskInv, BInv, TypeOK, References, EnsurerInv,
         EnsurerTypeOK
    <3> QED BY <2>2, <3>1, <3>2, <3>4 DEF OnlyTask
  <2> QED BY <2>1, <2>2
<1>5. \A j \in Managed : Own(j)' = Own(j)
  BY <1>4 DEF Own, nsxtVars
<1>6. ValidRefs'
  <2> SUFFICES ASSUME NEW j \in Required, mem'[j] # Nil
               PROVE  Own(j)' # {}
    BY DEF ValidRefs, Required, RequiredOf, IsExternal
  <2>1. j \in Managed /\ j \in Basic
    BY DEF Required, RequiredOf, Basic
  <2>2. mem[j] # Nil => Own(j) # {}
    BY <1>2 DEF CInv, ValidRefs
  <2> QED BY <1>4, <1>5, <2>1, <2>2 DEF OnlyTask
<1>7. CreationProgress'
  <2>1. \A j \in Before(i) \intersect Basic : Resolved(j)'
    <3> SUFFICES ASSUME NEW j \in Before(i) \intersect Basic
                 PROVE  Resolved(j)'
      OBVIOUS
    <3>1. j # k
      BY <1>a, <1>b, BeforeAfter
    <3>2. mem'[j] = mem[j] /\ (j \in Required => Own(j)' = Own(j))
      BY <1>4, <1>5, <3>1 DEF OnlyTask, Required, RequiredOf
    <3> QED BY <1>3, <3>2 DEF Resolved, Required, RequiredOf, IsExternal
  <2>2. k \in Required /\ mem'[k] = Nil => Own(k)' = {}
    BY <1>4, <1>5 DEF Required, RequiredOf
  <2> QED BY <1>b, <1>1, <2>1, <2>2 DEF CreationProgress, Before
<1>8. KnownRefs' /\ DeletionProgress'
  BY <1>1, <1>4 DEF TaskInv, KnownRefs, DeletionProgress
<1> QED BY <1>4, <1>6, <1>7, <1>8 DEF CInv, TaskInv, LookupsWork

\* After Ensure the reference leads to the object, or the run ends with an error.
LEMMA EnsureTaskCInv ==
  ASSUME CInv, BInv', VInv', EnsureTask
  PROVE  CInv'
<1>a. MyTasks = Tasks /\ i \in 1..Len(Tasks) /\ Tasks[i] \in Task
  BY SameTasks, TasksType DEF CInv, BInv, TypeOK
<1>b. PICK k \in Task : k = Tasks[i]
  BY <1>a
<1>1. pc = "ensure" /\ UNCHANGED <<want, cmd>> /\ cmd.op = "create"
  BY DEF EnsureTask, cliVars, CInv, BInv, Stage
<1>2. PICK res \in Result : Ensure(k, res) /\ AfterEnsure(res, Len(Tasks))
  BY <1>a, <1>b DEF EnsureTask
<1>3. TaskInv /\ Creates /\ Len(Tasks) \in Nat
  BY <1>1, CInvTask, TasksType DEF FromScratch, Creates
<1>4. /\ \A j \in Before(i) \intersect Basic : Resolved(j)
      /\ k \in Required /\ mem[k] = Nil => Own(k) = {}
      /\ \A j \in Required : mem[j] # Nil => Own(j) # {}
  BY <1>b, <1>1, <1>3 DEF CInv, CreationProgress, ValidRefs
<1>5. /\ TaskInv' /\ OnlyTask(k) /\ res # "panic"
      /\ res = "ok" /\ k \in Basic => mem'[k] # Nil /\ (k \in Required => Own(k)' # {})
      /\ k \in Required /\ mem'[k] # Nil => Own(k)' # {}
  <2>1. PICK Loss : Loss = {}
    OBVIOUS
  <2>2. NothingForgotten(Loss)
    BY <2>1 DEF NothingForgotten
  <2>3. Required \ Loss = Required
    BY <2>1
  <2> QED BY <1>a, <1>b, <1>1, <1>2, <1>3, <1>4, <2>2, <2>3, EnsureEffect
<1>6. \/ pc' = "save" /\ failed'
      \/ pc' = "save" /\ res = "ok" /\ i = Len(Tasks)
      \/ pc' = "recover" /\ res = "ok" /\ i < Len(Tasks) /\ i' = i + 1
  BY <1>a, <1>1, <1>2, <1>5, AfterEnsureStep DEF CInv
<1>7. ValidRefs'
  <2> SUFFICES ASSUME NEW j \in Required, mem'[j] # Nil
               PROVE  Own(j)' # {}
    BY DEF ValidRefs, Required, RequiredOf, IsExternal
  <2>1. j \in Managed /\ j \in Basic
    BY DEF Required, RequiredOf, Basic
  <2> QED BY <1>4, <1>5, <2>1 DEF OnlyTask
<1>8. ASSUME res = "ok", NEW j \in (Before(i) \union {k}) \intersect Basic
      PROVE  Resolved(j)'
  <2>1. CASE j = k
    BY <1>5, <1>8, <2>1 DEF Resolved, Required, RequiredOf, IsExternal
  <2>2. CASE j # k
    BY <1>4, <1>5, <1>8, <2>2 DEF Resolved, OnlyTask, Required, RequiredOf, IsExternal
  <2> QED BY <2>1, <2>2
<1>9. CreationProgress'
  <2>1. CASE pc' = "recover"
    <3>1. Before(i + 1) = Before(i) \union {k} /\ i' = i + 1 /\ res = "ok"
      BY <1>a, <1>b, <1>6, <2>1, BeforeAfter
    <3>2. Before(i)' = Before(i + 1)
      BY <3>1 DEF Before
    <3>3. \A j \in Before(i)' \intersect Basic : Resolved(j)'
      BY <1>8, <3>1, <3>2
    <3> QED BY <2>1, <3>3 DEF CreationProgress
  <2>2. CASE pc' = "save"
    <3>1. ~failed' => \A j \in Required : Resolved(j)'
      <4> SUFFICES ASSUME ~failed', NEW j \in Required PROVE Resolved(j)'
        OBVIOUS
      <4>1. res = "ok" /\ i = Len(Tasks) /\ j \in Basic
        BY <1>6, <2>2 DEF Basic
      <4>2. Basic \subseteq Before(i) \union {k}
        BY <1>a, <1>b, <4>1, BeforeAfter
      <4> QED BY <1>8, <4>1, <4>2
    <3> QED BY <2>2, <3>1 DEF CreationProgress, Required, RequiredOf, IsExternal
  <2> QED BY <1>6, <2>1, <2>2
<1>10. KnownRefs' /\ DeletionProgress'
  BY <1>5, <1>6 DEF TaskInv, KnownRefs, DeletionProgress
<1> QED BY <1>5, <1>7, <1>9, <1>10 DEF CInv, TaskInv, LookupsWork

\* Before a deletion from scratch every object gets its reference.
LEMMA RecoverBeforeDeleteCInv ==
  ASSUME CInv, BInv', VInv', SearchWorks, RecoverBeforeDelete
  PROVE  CInv'
<1>a. MyTasks = Tasks /\ i \in 1..Len(Tasks) /\ Tasks[i] \in Task
  BY SameTasks, TasksType DEF CInv, BInv, TypeOK
<1>b. PICK k \in Task : k = Tasks[i]
  BY <1>a
<1>1. pc = "recoverAll" /\ UNCHANGED <<failed, want, cmd>> /\ cmd.op = "destroy"
  BY DEF RecoverBeforeDelete, cliVars, CInv, BInv, Stage
<1>2. PICK res \in Result : tryRecover(k, TRUE, res) /\ AfterRecoverAll(res, Len(Tasks))
  BY <1>a, <1>b DEF RecoverBeforeDelete
<1>3. \/ pc' = "panic"
      \/ pc' = "recoverAll" /\ i < Len(Tasks) /\ i' = i + 1
      \/ pc' = "delete" /\ i = Len(Tasks) /\ i' = i
  BY <1>a, <1>1, <1>2, TasksType DEF AfterRecoverAll
<1>4. UNCHANGED nsxtVars
  BY <1>2 DEF tryRecover, RecoverObject, Ensure, EnsureLookup, EnsureExternal, IsExternal,
              Lookup, NameLookup, Managed, Advanced
<1>5. (\A j \in Managed : Own(j)' = Own(j)) /\ nextId' = nextId
  BY <1>4 DEF Own, nsxtVars
<1>6. Placed' /\ Unique' /\ (mem' = mem /\ Agree(mem) => Agree(mem)')
  BY <1>5, SameObjects
<1>7. ValidRefs' /\ CreationProgress'
  BY <1>1, <1>3 DEF ValidRefs, CreationProgress, Creates
<1>8. CASE cmd.state
  BY <1>1, <1>3, <1>6, <1>7, <1>8 DEF CInv, KnownRefs, FromScratch, DeletionProgress, LookupsWork
<1>9. CASE ~cmd.state
  <2>1. TaskInv
    BY <1>9, CInvTask DEF FromScratch
  <2>2. LookupsWork => \A j \in Before(i) \intersect Basic : Found(j)
    BY <1>1, <1>9 DEF CInv, DeletionProgress
  <2>3. /\ Fixed(mem)' /\ Agree(mem)' /\ OnlyTask(k)
        /\ LookupsWork /\ k \in Basic /\ mem'[k] = Nil => k \in Required /\ Own(k) = {}
    <3>1. CASE k \in Required /\ mem[k] = Nil
      <4>1. RecoverObject(k, res)
        BY <1>2, <3>1 DEF tryRecover, Required, RequiredOf, Lookup, NameLookup, Managed, Advanced
      <4>2. /\ TaskInv' /\ OnlyTask(k)
            /\ (Parents[k] # "root" => mem[Parents[k]] # Nil) /\ Own(k) # {} => mem'[k] # Nil
        BY <1>1, <2>1, <3>1, <4>1, RecoverEffect DEF SearchWorks
      <4>3. ASSUME LookupsWork, Parents[k] # "root", mem[Parents[k]] = Nil
            PROVE  Own(k) = {}
        <5>1. Found(Parents[k])
          BY <1>a, <1>b, <2>2, <3>1, <4>3, ParentBefore
        <5> QED BY <2>1, <3>1, <4>3, <5>1, NoParentNoObject
      <4> QED BY <3>1, <4>2, <4>3 DEF TaskInv
    <3>2. CASE mem[k] = Nil /\ (k \in Lookup \/ (k \in Managed /\ IsExternal(k)))
      <4>1. Ensure(k, res)
        BY <1>2, <3>2 DEF tryRecover, Lookup, NameLookup, Managed, Advanced
      <4>2. /\ TaskInv' /\ \A j \in Task \ {k} : mem'[j] = mem[j]
            /\ LookupsWork /\ k \in Basic => mem'[k] # Nil
        BY <1>1, <2>1, <3>2, <4>1, LookupEffect
      <4>3. OnlyTask(k)
        BY <1>5, <4>2, BasicTasks DEF OnlyTask
      <4> QED BY <4>2, <4>3 DEF TaskInv
    <3>3. CASE mem[k] # Nil
      <4>1. mem' = mem
        BY <1>2, <3>3 DEF tryRecover
      <4>2. Fixed(mem)' /\ Agree(mem)'
        BY <1>6, <2>1, <4>1 DEF TaskInv, Fixed
      <4> QED BY <1>5, <3>3, <4>1, <4>2 DEF OnlyTask
    <3>4. k \in Required \/ k \in Lookup \/ (k \in Managed /\ IsExternal(k))
      BY <1>a, <1>b, RequiredTask DEF Task
    <3> QED BY <3>1, <3>2, <3>3, <3>4
  <2>4. ASSUME LookupsWork PROVE DeletionProgress'
    <3>1. ASSUME NEW j \in (Before(i) \union {k}) \intersect Basic
          PROVE  Found(j)'
      <4>1. CASE j = k
        BY <1>5, <2>3, <2>4, <3>1, <4>1 DEF Found, Required, RequiredOf, IsExternal
      <4>2. CASE j # k
        BY <1>5, <2>2, <2>3, <2>4, <3>1, <4>2 DEF Found, OnlyTask, Required, RequiredOf, IsExternal
      <4> QED BY <4>1, <4>2
    <3>2. Before(i + 1) = Before(i) \union {k}
      BY <1>a, <1>b, BeforeAfter
    <3>3. pc' = "recoverAll" => \A j \in Before(i)' \intersect Basic : Found(j)'
      BY <1>3, <3>1, <3>2 DEF Before
    <3>4. pc' = "delete" => (\A j \in Basic : Found(j)') /\ After(i)' = {}
      <4>1. ASSUME i = Len(Tasks)
            PROVE  Basic \subseteq Before(i) \union {k} /\ After(i) = {}
        BY <1>a, <1>b, <4>1, BeforeAfter
      <4> QED BY <1>3, <3>1, <4>1 DEF After
    <3> QED BY <1>3, <3>3, <3>4 DEF DeletionProgress
  <2> QED BY <1>6, <1>7, <2>3, <2>4 DEF CInv, KnownRefs, LookupsWork
<1> QED BY <1>8, <1>9

\* Whatever a state file refers to, a task deletes at most the object of the
\* shoot that is its own, and nothing that others live below.
LEMMA DeleteByFile ==
  ASSUME EnsurerInv, Placed, Unique, NEW n \in 1..Len(Tasks), NEW k \in Task, k = Tasks[n],
         NEW res, EnsureDeleted(k, res)
  PROVE  Placed' /\ Unique'
<1>1. CASE UNCHANGED nsxtVars
  BY <1>1 DEF Placed, Unique, Own, IsPlace, Required, RequiredOf, IsExternal, nsxtVars
<1>2. CASE /\ k \in Managed /\ ~IsExternal(k) /\ mem[k] # Nil
           /\ \E o \in Current(k) : /\ ~Referenced(o, Tracked) /\ nsxt' = nsxt \ {o}
                                    /\ UNCHANGED nextId
  <2>1. PICK o \in Current(k) : /\ ~Referenced(o, Tracked) /\ nsxt' = nsxt \ {o}
                                /\ UNCHANGED nextId
    BY <1>2
  <2>2. k \in Required
    BY <1>2, RequiredTask
  <2>3. o \in nsxt /\ o.kind = k /\ o.id > ExtT1Id
    BY <1>2, <2>1 DEF Current, At, EnsurerInv, OwnRefs
  <2>4. o \in Own(k)
    BY <2>3, OwnById DEF Own
  <2> QED BY <2>1, <2>2, <2>4, RemoveObject
<1> QED BY <1>1, <1>2 DEF EnsureDeleted, DeleteMissing, DeleteObject, nsxtVars

\* Objects disappear in the reverse order of creation, and all of them if the
\* search before the deletion began from scratch.
LEMMA DeleteTaskCInv ==
  ASSUME CInv, BInv', VInv', DeleteTask
  PROVE  CInv'
<1>a. MyTasks = Tasks /\ i \in 1..Len(Tasks) /\ Tasks[i] \in Task
  BY SameTasks, TasksType DEF CInv, BInv, TypeOK
<1>b. PICK k \in Task : k = Tasks[i]
  BY <1>a
<1>1. pc = "delete" /\ UNCHANGED <<want, cmd>> /\ cmd.op = "destroy"
  BY DEF DeleteTask, cliVars, CInv, BInv, Stage
<1>2. PICK res \in Result : EnsureDeleted(k, res) /\ AfterDelete(res, Len(Tasks))
  BY <1>a, <1>b DEF DeleteTask
<1>3. \/ pc' = "panic"
      \/ pc' = "saveDeleted" /\ failed'
      \/ pc' = "saveDeleted" /\ res = "ok" /\ i = 1
      \/ pc' = "delete" /\ res = "ok" /\ i > 1 /\ i' = i - 1
  BY <1>a, <1>1, <1>2, AfterDeleteStep DEF CInv
<1>4. ValidRefs' /\ CreationProgress'
  BY <1>1, <1>3 DEF ValidRefs, CreationProgress, Creates
<1>5. CASE cmd.state
  <2>1. Placed' /\ Unique'
    BY <1>a, <1>b, <1>2, BInvEnsurer, DeleteByFile DEF CInv
  <2> QED BY <1>1, <1>3, <1>4, <1>5, <2>1
          DEF CInv, KnownRefs, FromScratch, DeletionProgress, LookupsWork
<1>6. CASE ~cmd.state
  <2>1. TaskInv
    BY <1>6, CInvTask DEF FromScratch
  <2>2. /\ TaskInv' /\ OnlyTask(k)
        /\ k \notin Required => UNCHANGED nsxtVars /\ \A j \in Basic : mem'[j] = mem[j]
        /\ (\A j \in Basic : Found(j)) /\ k \in Required =>
             (res = "ok" \/ mem'[k] = Nil => Own(k)' = {})
    BY <1>a, <1>b, <1>1, <1>2, <2>1, DeleteEffect
  <2>3. ASSUME LookupsWork PROVE DeletionProgress'
    <3>1. /\ \A j \in Basic : Found(j)
          /\ \A j \in After(i) \intersect Required : Own(j) = {}
      BY <1>1, <1>6, <2>3 DEF CInv, DeletionProgress
    <3>2. ASSUME NEW j \in Basic PROVE Found(j)'
      <4>1. Found(j)
        BY <3>1
      <4>2. CASE j = k /\ k \in Required
        BY <2>2, <3>1, <4>2 DEF Found, Required, RequiredOf, IsExternal
      <4>3. CASE j # k
        BY <2>2, <4>1, <4>3 DEF Found, OnlyTask, Required, RequiredOf, IsExternal
      <4>4. CASE k \notin Required
        BY <2>2, <4>1, <4>4 DEF Found, Own, nsxtVars, Required, RequiredOf, IsExternal
      <4> QED BY <4>2, <4>3, <4>4
    <3>3. ASSUME res = "ok", NEW j \in (After(i) \union {k}) \intersect Required
          PROVE  Own(j)' = {}
      <4>1. CASE j = k
        BY <2>2, <3>1, <3>3, <4>1
      <4>2. CASE j # k
        BY <2>2, <3>1, <3>3, <4>2 DEF OnlyTask, Required, RequiredOf
      <4> QED BY <4>1, <4>2
    <3>4. CASE pc' = "delete"
      <4>1. After(i') = After(i) \union {k} /\ res = "ok"
        BY <1>a, <1>b, <1>3, <3>4, BeforeAfter
      <4>2. \A j \in After(i') \intersect Required : Own(j)' = {}
        BY <3>3, <4>1
      <4> QED BY <3>2, <3>4, <4>2 DEF DeletionProgress, After
    <3>5. CASE pc' = "saveDeleted" /\ ~failed'
      <4>1. res = "ok" /\ i = 1
        BY <1>3, <3>5
      <4>2. Required \subseteq After(i) \union {k}
        BY <1>a, <1>b, <4>1, BeforeAfter DEF Basic
      <4>3. \A j \in Managed : Own(j)' = {}
        <5>1. ASSUME NEW j \in Managed, Own(j)' # {} PROVE j \in Required
          BY <2>2, <5>1 DEF TaskInv, Placed, Required, RequiredOf, IsExternal
        <5> QED BY <3>3, <4>1, <4>2, <5>1
      <4>4. OwnManaged' = {}
        BY <4>3 DEF OwnManaged, AllOwn, Own
      <4> QED BY <3>5, <4>4 DEF DeletionProgress
    <3> QED BY <1>3, <3>4, <3>5 DEF DeletionProgress
  <2> QED BY <1>4, <2>2, <2>3 DEF CInv, TaskInv, KnownRefs, LookupsWork
<1> QED BY <1>5, <1>6
-----------------------------------------------------------------------------
(* What holds while the search by tags works.                              *)

\* A version other than the determined one has to be fixed by someone.
LEMMA InitVInv ==
  ASSUME OneVersion
  PROVE  Init => VInv
  BY DEF Init, InitInfra, VInv, OneVersion

LEMMA NextVInv ==
  ASSUME OneVersion, VInv, [Next]_vars
  PROVE  VInv'
<1>1. CASE StartCreate
  BY <1>1 DEF StartCreate, StartFails, End, Run, VInv, OneVersion, fileVars
<1>2. CASE StartDestroy
  BY <1>2 DEF StartDestroy, StartFails, End, Run, VInv, fileVars
<1>3. CASE RecoverTask \/ EnsureTask \/ RecoverBeforeDelete \/ DeleteTask
  BY <1>3 DEF RecoverTask, EnsureTask, RecoverBeforeDelete, DeleteTask, VInv, fileVars, cliVars
<1>4. CASE DestroyLoadBalancers \/ Panic \/ Kill
  BY <1>4 DEF DestroyLoadBalancers, Panic, Kill, End, VInv, fileVars
<1>5. CASE SaveState
  <2>1. /\ version' = version \/ version' = NSXT3
        /\ file' \in {file, NoFile, [version |-> version, refs |-> mem]}
    BY <1>5 DEF SaveState, EndUnsaved, RenameFile, WriteFile, Rename, Finish, End, fileVars
  <2> QED BY <2>1 DEF VInv
<1>6. CASE Stop \/ UNCHANGED vars
  BY <1>6 DEF Stop, vars, fileVars, cliVars, VInv
<1> QED BY <1>1, <1>2, <1>3, <1>4, <1>5, <1>6 DEF Next, CreateInfra, DestroyInfra

\* What the controller has built is in its place and not there twice.
LEMMA InitCInv ==
  ASSUME OneVersion
  PROVE  Init => CInv
<1> SUFFICES ASSUME Init PROVE CInv
  OBVIOUS
<1>a. PICK v \in BOOLEAN : v = NSXT3
  BY NSXT3Assumption
<1>b. InitInfra(v) /\ TasksOf(v) = Tasks /\ RequiredOf(TasksOf(v)) = Required
  BY <1>a, InitVersion DEF OneVersion, Tasks, Required
<1>1. /\ want = [n \in Input |-> DefaultName] /\ nextId = ExtT1Id + Len(Tasks) + 2
      /\ mem = NoRefs /\ pc = "idle"
  BY <1>b DEF Init, InitInfra
<1>2. \A k \in Managed : \A o \in Own(k) : k \in Required /\ o = BuiltFor(v, k)
  BY <1>1, <1>b, InitObjects
<1>3. /\ \A k \in Required : /\ BuiltRefs(v)[k] \in Nat /\ BuiltRefs(v)[k] > ExtT1Id
                             /\ BuiltRefs(v)[k] <= ExtT1Id + Len(Tasks)
      /\ BuiltRefs(v)["pool"] = DefaultName
      /\ ExternalT1 => BuiltRefs(v)["t1"] = ExtT1Id
      /\ ~ExternalT1 => BuiltRefs(v)["ls"] = BuiltRefs(v)["t1"]
  BY <1>1, <1>b, BuiltRefsAre
<1>4. Placed
  <2> SUFFICES ASSUME NEW k \in Managed, NEW o \in Own(k)
               PROVE  /\ k \in Required /\ o.id < nextId /\ IsPlace(Parents[k], o.parent)
                      /\ k = "ls" => o.parent = o.id
    BY DEF Placed
  <2>1. k \in Required /\ o = BuiltFor(v, k)
    BY <1>2
  <2>2. /\ o.id = BuiltRefs(v)[k]
        /\ o.parent = IF Parents[k] = "root" THEN Nil ELSE BuiltRefs(v)[Parents[k]]
    BY <2>1 DEF BuiltFor
  <2>3. o.id < nextId
    BY <1>1, <1>3, <2>1, <2>2, ExtT1IdAssumption, TasksType
  <2>4. k = "ls" => o.parent = o.id
    <3>1. k = "ls" => Parents[k] = "t1" /\ ~ExternalT1
      BY <2>1 DEF Parents, Managed, Required, RequiredOf, IsExternal
    <3> QED BY <1>3, <2>2, <3>1
  <2>5. IsPlace(Parents[k], o.parent)
    <3>1. CASE Parents[k] = "root"
      BY <2>2, <3>1 DEF IsPlace
    <3>2. CASE Parents[k] = "pool"
      BY <1>3, <2>2, <3>2 DEF IsPlace
    <3>3. CASE Parents[k] # "root" /\ IsExternal(Parents[k])
      <4>1. Parents[k] = "t1" /\ ExternalT1
        BY <2>1, <3>3, ParentOfRequired DEF IsExternal, Basic, Required, RequiredOf
      <4> QED BY <1>3, <2>2, <3>3, <4>1 DEF IsPlace
    <3>4. CASE Parents[k] \notin {"root", "pool"} /\ ~IsExternal(Parents[k])
      <4>1. Parents[k] \in Required /\ Parents[k] \in Managed
        BY <2>1, <3>4, ParentOfRequired DEF IsExternal, Basic, Required, RequiredOf
      <4>2. \A j \in Managed : Own(j) = {BuiltFor(v, m) : m \in {m \in Required : m = j}}
        BY <1>1, <1>2, <1>b, <2>1, InitObjects
      <4>3. BuiltFor(v, Parents[k]) \in Own(Parents[k])
        BY <4>1, <4>2
      <4>4. BuiltFor(v, Parents[k]).id = o.parent
        BY <2>2, <3>4 DEF BuiltFor
      <4> QED BY <3>4, <4>3, <4>4 DEF IsPlace
    <3> QED BY <3>1, <3>2, <3>3, <3>4
  <2> QED BY <2>1, <2>3, <2>4, <2>5
<1>5. Unique
  BY <1>2 DEF Unique
<1>6. KnownRefs
  <2>1. Required \subseteq Task /\ "pool" \in Task /\ "t1" \in Task
    BY DEF Required, RequiredOf, Task, Lookup, NameLookup, Managed
  <2> QED BY <1>1, <2>1 DEF KnownRefs, Fixed, Agree, NoRefs
<1>7. ValidRefs /\ CreationProgress /\ DeletionProgress
  BY <1>1 DEF ValidRefs, CreationProgress, DeletionProgress, Creates
<1> QED BY <1>4, <1>5, <1>6, <1>7, InitBInv, InitVInv DEF CInv

\* Every step preserves CInv.
LEMMA NextCInv ==
  ASSUME OneVersion, SearchWorks, CInv, [Next]_vars
  PROVE  CInv'
<1>1. BInv' /\ VInv'
  BY NextBInv, NextVInv DEF CInv
<1>2. CASE CreateInfra
  BY <1>1, <1>2, StartCreateCInv, RecoverTaskCInv, EnsureTaskCInv DEF CreateInfra
<1>3. CASE DestroyInfra
  BY <1>1, <1>3, StartDestroyCInv, RecoverBeforeDeleteCInv, DeleteTaskCInv, BesidesCInv
     DEF DestroyInfra
<1>4. CASE SaveState \/ Panic \/ Kill
  BY <1>1, <1>4, SaveStateCInv, BesidesCInv
<1>5. CASE Stop \/ UNCHANGED vars
  BY <1>1, <1>5, StutterCInv DEF Stop
<1> QED BY <1>2, <1>3, <1>4, <1>5 DEF Next

\* While the search by tags works and no other version is used, all parts of
\* CInv hold in every state.
THEOREM Recovery ==
  ASSUME OneVersion, SearchWorks
  PROVE  Spec => []CInv
<1>1. CInv /\ [Next]_vars => CInv'
  BY NextCInv
<1> QED BY <1>1, InitCInv, PTL DEF Spec

\* NoDuplicates: a create that is repeated, or run on top of what the
\* controller has built, finds what exists, however often it fails, is killed
\* or follows a destroy with a stale state file.
THEOREM NothingTwice ==
  ASSUME OneVersion, SearchWorks
  PROVE  Spec => []NoDuplicates
<1>1. CInv => NoDuplicates
  <2> SUFFICES ASSUME CInv, NEW k \in Managed PROVE Cardinality(Own(k)) <= 1
    BY DEF NoDuplicates
  <2>1. CASE Own(k) = {}
    BY <2>1, FS_EmptySet
  <2>2. CASE Own(k) # {}
    <3>1. PICK o : o \in Own(k)
      BY <2>2
    <3>2. Own(k) = {o}
      BY <3>1 DEF CInv, Unique
    <3>3. Cardinality({o}) = 1
      BY FS_Singleton
    <3> QED BY <3>2, <3>3
  <2> QED BY <2>1, <2>2
<1> QED BY <1>1, Recovery, PTL

\* CreateIsComplete: the outcome of create is "done" only if each reference that
\* goes to the file leads to an object which exists.
THEOREM CreatedIsComplete ==
  ASSUME OneVersion, SearchWorks
  PROVE  Spec => CreateIsComplete
<1> DEFINE Act == pc = "write" /\ cmd.op = "create" /\ outcome' = "done" =>
              /\ \A k \in RequiredOf(MyTasks) : \E o \in Own(k) : o.id = mem[k]
              /\ file' \in {[version |-> version, refs |-> mem], NoFile}
<1>1. CInv /\ [Next]_vars => [Act]_vars
  <2> SUFFICES ASSUME CInv, Next, pc = "write", cmd.op = "create", outcome' = "done"
               PROVE  /\ \A k \in RequiredOf(MyTasks) : \E o \in Own(k) : o.id = mem[k]
                      /\ file' \in {[version |-> version, refs |-> mem], NoFile}
    OBVIOUS
  <2>a. RequiredOf(MyTasks) = Required
    BY SameTasks DEF CInv, Required
  <2>1. WriteFile
    BY DEF Next, CreateInfra, StartCreate, RecoverTask, EnsureTask, DestroyInfra, StartDestroy,
           StartCommand, RecoverBeforeDelete, DeleteTask, DestroyLoadBalancers, SaveState,
           EndUnsaved, RenameFile, MustSave, Panic, Kill, End, Stop
  <2>2. ~failed /\ file' \in {[version |-> version, refs |-> mem], file} /\ file = NoFile
    BY <2>1 DEF WriteFile, Finish, End, CInv, BInv, Stage
  <2>3. ASSUME NEW k \in Required PROVE \E o \in Own(k) : o.id = mem[k]
    <3>1. mem[k] # Nil /\ Own(k) # {}
      BY <2>2 DEF CInv, CreationProgress, Creates, Resolved
    <3>2. Agree(mem)
      BY DEF CInv, KnownRefs, FromScratch
    <3> QED BY <3>1, <3>2 DEF Agree
  <2> QED BY <2>a, <2>2, <2>3
<1> QED BY <1>1, Recovery, PTL DEF Spec, CreateIsComplete

\* DestroyIsComplete: a destroy from the spec alone is "done" only when no object
\* of the shoot is left that it has a task for; and none at all, as nobody has used
\* another version than the one that is determined, and as the pool and an external
\* gateway are found.
THEOREM DestroyedIsComplete ==
  ASSUME OneVersion, SearchWorks, LookupsWork
  PROVE  Spec => DestroyIsComplete /\ DestroyLeavesNothing
<1> DEFINE Act  == pc = "saveDeleted" /\ ~cmd.state /\ outcome' = "done" =>
                     \A k \in RequiredOf(MyTasks) : Own(k) = {}
           None == pc = "saveDeleted" /\ ~cmd.state /\ outcome' = "done" => OwnManaged = {}
<1>1. CInv /\ [Next]_vars => [Act]_vars /\ [None]_vars
  <2> SUFFICES ASSUME CInv, Next, pc = "saveDeleted", ~cmd.state, outcome' = "done"
               PROVE  (\A k \in RequiredOf(MyTasks) : Own(k) = {}) /\ OwnManaged = {}
    OBVIOUS
  <2>1. EndUnsaved
    BY DEF Next, CreateInfra, StartCreate, RecoverTask, EnsureTask, DestroyInfra, StartDestroy,
           StartCommand, RecoverBeforeDelete, DeleteTask, DestroyLoadBalancers, SaveState,
           RenameFile, WriteFile, MustSave, Panic, Kill, End, Stop
  <2>2. ~failed
    BY <2>1 DEF EndUnsaved, Finish, End
  <2>3. OwnManaged = {}
    BY <2>2 DEF CInv, DeletionProgress
  <2>4. \A k \in Managed : Own(k) \subseteq OwnManaged
    BY DEF OwnManaged, AllOwn, Own
  <2> QED BY <2>3, <2>4 DEF RequiredOf
<1> QED BY <1>1, Recovery, PTL DEF Spec, DestroyIsComplete, DestroyLeavesNothing
=============================================================================
