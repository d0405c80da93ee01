------------------------------- MODULE InfraCLI -------------------------------
(***************************************************************************)
(* The command line tool that creates and destroys the infrastructure of a *)
(* shoot by hand. It drives the ensurer of the infrastructure controller,  *)
(* without a shoot context, and keeps its state, the version of the tasks  *)
(* and the references, in a state file of which the previous one is kept   *)
(* as .bak. Commands are run one after the other; each is a process of its *)
(* own that can end at any step.                                           *)
(***************************************************************************)
EXTENDS EnsurerRun

CONSTANTS
  StateVersions,  \* versions that users fix instead of having them determined
  NoFile,         \* what is at a path without a file
  MaxCommands     \* how many commands a behaviour has

\* What a state file holds.
StateFile == [version: BOOLEAN, refs: [Task -> Ref]]

ASSUME StateVersionsAssumption == StateVersions \subseteq BOOLEAN
ASSUME MaxCommandsAssumption == MaxCommands \in Nat
ASSUME NoFileAssumption == NoFile \notin StateFile

VARIABLES
  file,      \* the state file, or NoFile
  bak,       \* the same for its backup
  version,   \* state.Version of the command at work: is it the one for NSX-T 3.0
  cmd,       \* the command at work and its options
  outcome,   \* how it ended
  commands   \* how many commands were started

fileVars == <<file, bak>>
cliVars  == <<version, cmd, outcome, commands>>
vars     == <<nsxtVars, ensurerVars, procVars, fileVars, cliVars>>

Command == [op: {"none", "create", "destroy", "destroyLoadBalancers"},
            state: BOOLEAN, spec: BOOLEAN]
NoCommand == [op |-> "none", state |-> FALSE, spec |-> FALSE]

\* getTasks: the tasks of the command at work.
MyTasks == TasksOf(version)

-----------------------------------------------------------------------------
(* What the infrastructure controller has built with version v, which was  *)
(* determined or is that of the shoot's annotation, and its references.    *)

BuiltRefs(v) == [k \in Task |->
  IF k \in NameLookup THEN want[k]
  ELSE IF IsExternal(k) THEN (IF k = "t1" THEN ExtT1Id ELSE Nil)
  ELSE IF \A n \in DOMAIN TasksOf(v) : TasksOf(v)[n] # k THEN Nil
  ELSE LET idOf(t) == ExtT1Id + (CHOOSE n \in DOMAIN TasksOf(v) : TasksOf(v)[n] = t)
       IN  idOf(CASE k = "ls" -> "t1" [] k \in Lookup -> Target(k) [] OTHER -> k)]

Built(v) == LET refs == BuiltRefs(v) IN
  {[kind |-> k, id |-> refs[k], owner |-> "shoot",
    parent |-> IF Parents[k] = "root" THEN Nil ELSE refs[Parents[k]],
    attrs  |-> [a \in Attr |-> IF a \notin UsesOf(v)[k] THEN Nil
                               ELSE IF a = "net" THEN want[a] ELSE refs[a]]] :
    k \in RequiredOf(TasksOf(v))}

\* A load balancer of the cluster that is attached to its own gateway.
Attached(v) ==
  {[kind |-> "lb", id |-> ExtT1Id + Len(TasksOf(v)) + 1, parent |-> Nil, owner |-> "shoot",
    attrs |-> [a \in Attr |-> IF a = "t1" THEN BuiltRefs(v)["t1"] ELSE Nil]]}

\* Nothing exists, or the controller has built the infrastructure, whose
\* state was exported to the file or not.
InitInfra(v) ==
  /\ nextId = ExtT1Id + Len(TasksOf(v)) + 2
  /\ \/ nsxt = Others /\ file = NoFile
     \/ nsxt \in {Others \union Built(v), Others \union Built(v) \union Attached(v)}
        /\ file \in {NoFile, [version |-> v, refs |-> BuiltRefs(v)]}

Init ==
  /\ want = [n \in Input |-> DefaultName] /\ mem = NoRefs /\ faults = 0
  /\ \E v \in StateVersions \union {NSXT3} : InitInfra(v)
  /\ bak = NoFile /\ version = NSXT3
  /\ cmd = NoCommand /\ outcome = "none" /\ commands = 0
  /\ pc = "idle" /\ i = 1 /\ failed = FALSE

-----------------------------------------------------------------------------
End(o) == /\ pc' = "idle" /\ i' = 1 /\ failed' = FALSE /\ mem' = NoRefs
          /\ version' = NSXT3 /\ outcome' = o

StartCommand(op, state, spec) ==
  /\ pc = "idle" /\ commands < MaxCommands /\ commands' = commands + 1
  /\ cmd' = [op |-> op, state |-> state, spec |-> spec]

\* The tool cannot connect, or the version is to be determined, in vain.
StartFails(determine) ==
  End("failed") /\ (Fault("connect") \/ (determine /\ Fault("version")))

Run(step, first, v, refs) ==
  /\ pc' = step /\ i' = first /\ failed' = FALSE /\ version' = v /\ mem' = refs
  /\ outcome' = "none" /\ NoFault

\* create always starts from an empty state, whatever the file holds, with the
\* version of --stateVersion or without it that of the manager.
StartCreate ==
  /\ StartCommand("create", TRUE, TRUE)
  /\ \/ \E v \in StateVersions \union {NSXT3} : Run("recover", 1, v, NoRefs)
     \/ StartFails(TRUE)
  /\ UNCHANGED <<want, fileVars, nsxtVars>>

RecoverTask ==
  /\ pc = "recover" /\ tryRecover(MyTasks[i], FALSE, "ok")
  /\ pc' = "ensure" /\ UNCHANGED <<i, failed, want, fileVars, cliVars>>

EnsureTask ==
  /\ pc = "ensure"
  /\ \E res \in Result : Ensure(MyTasks[i], res) /\ AfterEnsure(res, Len(MyTasks))
  /\ UNCHANGED <<want, fileVars, cliVars>>

-----------------------------------------------------------------------------
\* Only the spec allows to recover references before the deletion.
FirstStep(state, spec) == IF spec THEN "recoverAll" ELSE "delete"

\* The version comes with the state; from the spec alone it is determined anew.
StartDestroy ==
  /\ \E state, spec \in BOOLEAN :
       /\ state \/ spec
       /\ state => file # NoFile
       /\ StartCommand("destroy", state, spec)
       /\ LET step == FirstStep(state, spec)
              v    == IF state THEN file.version ELSE NSXT3
          IN  \/ Run(step, IF step = "delete" THEN Len(TasksOf(v)) ELSE 1,
                     v, IF state THEN file.refs ELSE NoRefs)
              \/ StartFails(~state)
  /\ UNCHANGED <<want, fileVars, nsxtVars>>

RecoverBeforeDelete ==
  /\ pc = "recoverAll"
  /\ \E res \in Result : tryRecover(MyTasks[i], TRUE, res) /\ AfterRecoverAll(res, Len(MyTasks))
  /\ UNCHANGED <<failed, want, fileVars, cliVars>>

DeleteTask ==
  /\ pc = "delete"
  /\ \E res \in Result : EnsureDeleted(MyTasks[i], res) /\ AfterDelete(res, Len(MyTasks))
  /\ UNCHANGED <<want, fileVars, cliVars>>

\* The load balancers are found by cluster name and owner and all removed,
\* or some of them.
DestroyLoadBalancers ==
  /\ StartCommand("destroyLoadBalancers", FALSE, FALSE)
  /\ \/ nsxt' = nsxt \ Own("lb") /\ End("done") /\ NoFault
     \/ Fault("lb") /\ End("failed") /\ UNCHANGED nsxt
  /\ UNCHANGED <<want, nextId, fileVars>>

-----------------------------------------------------------------------------
(* saveFile: after every create, and after a destroy that failed.          *)

Finish == End(IF failed THEN "failed" ELSE "done")

MustSave == pc = "save" \/ (pc = "saveDeleted" /\ failed /\ cmd.state)

\* The file of a successful destroy is left as it is; without a state file
\* the state is only shown.
EndUnsaved ==
  /\ pc = "saveDeleted" /\ ~MustSave /\ Finish /\ NoFault
  /\ UNCHANGED <<cmd, commands, want, fileVars, nsxtVars>>

\* Mutant: the old file is not kept.
Rename_Removes == file' = NoFile /\ UNCHANGED bak

Rename == bak' = file /\ file' = NoFile

RenameFile ==
  /\ MustSave
  /\ \/ /\ IF file = NoFile THEN UNCHANGED fileVars ELSE Rename
        /\ pc' = "write" /\ NoFault /\ UNCHANGED <<i, failed, mem, version, outcome>>
     \/ file # NoFile /\ Fault("status") /\ Finish /\ UNCHANGED fileVars
  /\ UNCHANGED <<cmd, commands, want, nsxtVars>>

\* That the state could not be saved is logged and does not change the outcome.
WriteFile ==
  /\ pc = "write" /\ Finish
  /\ \/ file' = [version |-> version, refs |-> mem] /\ NoFault
     \/ Fault("status") /\ UNCHANGED file
  /\ UNCHANGED <<cmd, commands, want, bak, nsxtVars>>

-----------------------------------------------------------------------------
\* A panic of a task ends the process before anything is saved.
Panic ==
  /\ pc = "panic" /\ End("failed") /\ NoFault
  /\ UNCHANGED <<cmd, commands, want, fileVars, nsxtVars>>

\* The process is killed.
Kill ==
  /\ pc \notin {"idle", "panic"} /\ Fault("crash") /\ End("failed")
  /\ UNCHANGED <<cmd, commands, want, fileVars, nsxtVars>>

\* All commands have been run.
Stop == pc = "idle" /\ commands = MaxCommands /\ UNCHANGED vars

CreateInfra  == StartCreate \/ RecoverTask \/ EnsureTask
DestroyInfra == StartDestroy \/ RecoverBeforeDelete \/ DeleteTask \/ DestroyLoadBalancers
SaveState    == EndUnsaved \/ RenameFile \/ WriteFile

Next == CreateInfra \/ DestroyInfra \/ SaveState \/ Panic \/ Kill \/ Stop

Spec == Init /\ [][Next]_vars

-----------------------------------------------------------------------------
OwnManaged == {o \in AllOwn : o.kind \in Managed}

Records(f, o) == f # NoFile /\ f.refs[o.kind] = o.id

\* However often create is run, with whatever versions, and whether or not the
\* controller or earlier commands have created anything before, no object is
\* created twice.
NoDuplicates == \A k \in Managed : Cardinality(Own(k)) <= 1

\* A create that ends without error has created all objects of its version and,
\* unless saving the state failed, written all their references to the file.
CreateIsComplete ==
  [][pc = "write" /\ cmd.op = "create" /\ outcome' = "done" =>
       /\ \A k \in RequiredOf(MyTasks) : \E o \in Own(k) : o.id = mem[k]
       /\ file' \in {[version |-> version, refs |-> mem], NoFile}]_vars

\* A destroy given only the spec that ends without error leaves no object of
\* the shoot behind that it has a task for, whoever created it and however
\* earlier commands ended. That is not all there can be: the spec does not hold
\* the version, and objects which only another version has are not looked for.
\* With a stale state file as well, what that hides is not recovered.
DestroyIsComplete ==
  [][pc = "saveDeleted" /\ ~cmd.state /\ outcome' = "done" =>
       \A k \in RequiredOf(MyTasks) : Own(k) = {}]_vars

\* A destroy, however it ends, loses no record of an object which is still
\* there: what the file recorded is found in the file or its backup, so that
\* destroying by state alone can be repeated until nothing is left.
DestroyForgetsNothing ==
  [][cmd.op = "destroy" /\ pc # "idle" =>
       \A o \in OwnManaged \intersect nsxt' :
         Records(file, o) /\ cmd.state => Records(file', o) \/ Records(bak', o)]_vars
=============================================================================
