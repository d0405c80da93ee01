----------------------------- MODULE NSXTEnsurer -----------------------------
(***************************************************************************)
(* What one task of the ensurer does: tryRecover, Ensure and EnsureDeleted *)
(* of each kind of task, on the infrastructure state held in memory and on *)
(* the NSX-T manager.  Every operation is an action with its result:       *)
(*   "ok"     it returned without error;                                   *)
(*   "err"    it returned an error;                                        *)
(*   "panic"  it dereferenced a nil pointer or recursed without end, which *)
(*            ends the process.                                            *)
(* Each call to NSX-T can fail; such faults are drawn from Faults, and     *)
(* MaxFaults bounds how many faults a behaviour has.                       *)
(***************************************************************************)
EXTENDS NSXT

CONSTANTS
  Faults,                \* the kinds of fault that can occur
  MaxFaults,             \* how many of them a behaviour can have
  DeleteReportsMissing,  \* policy API: deleting a missing object is an error
  ShootContext,          \* the ensurer knows the shoot and the garden it works for
  ExtT1Id,               \* the id in the configured tier-1 gateway path
  Others                 \* objects of other shoots, and the external tier-1 gateway

FaultKind == {"lookup", "list", "get", "write", "lost", "unrealized", "delete",
              "deleteLost",                                   \* calls to NSX-T
              "connect", "version", "status", "statusLost", "finalizer",
              "crash", "loss", "inputs", "credentials", "lb"} \* the controller and its environment

ASSUME FaultsAssumption == Faults \subseteq FaultKind
ASSUME MaxFaultsAssumption == MaxFaults \in Nat
ASSUME DeleteAssumption == DeleteReportsMissing \in BOOLEAN
ASSUME ShootContextAssumption == ShootContext \in BOOLEAN
ASSUME ExtT1IdAssumption == ExtT1Id \in Nat \ {0}
ASSUME OthersAssumption ==
  /\ Others \subseteq Object
  /\ \A o \in Others : o.owner = "other" /\ o.id \in 1..ExtT1Id

\* What an input of the spec is unless it is changed.
DefaultName == 1

VARIABLES
  mem,     \* NSXTInfraState in memory: the reference of each task
  want,    \* the prepared NSXTInfraSpec: the configured inputs
  faults   \* faults so far

ensurerVars == <<mem, want, faults>>

Result == {"ok", "err", "panic"}

Fault(f) == f \in Faults /\ faults < MaxFaults /\ faults' = faults + 1
NoFault  == UNCHANGED faults

NoRefs == [k \in Task |-> Nil]

-----------------------------------------------------------------------------
(* Lookup tasks.  They run on every Ensure, whether or not a reference is  *)
(* recorded.                                                               *)

EnsureName(k, res) ==
  \/ res = "ok"  /\ mem' = [mem EXCEPT ![k] = want[k]] /\ NoFault
  \/ res = "err" /\ Fault("lookup") /\ UNCHANGED mem

\* An address is realized for an existing allocation, or the wait times out.
EnsureAddress(res) ==
  \/ /\ res = "ok" /\ mem["alloc"] # Nil /\ Exists("alloc", mem["alloc"])
     /\ mem' = [mem EXCEPT !["ip"] = mem["alloc"]] /\ NoFault
  \/ /\ res = "err" /\ UNCHANGED mem
     /\ \/ (mem["alloc"] = Nil \/ ~Exists("alloc", mem["alloc"])) /\ NoFault
        \/ Fault("unrealized")

\* Needs the path of the segment without checking that there is one.
EnsureLogicalSwitch(res) ==
  \/ res = "panic" /\ mem["seg"] = Nil /\ NoFault /\ UNCHANGED mem
  \/ /\ res = "ok" /\ mem["seg"] # Nil /\ Exists("seg", mem["seg"])
     /\ mem' = [mem EXCEPT !["lsw"] = mem["seg"]] /\ NoFault
  \/ /\ res = "err" /\ UNCHANGED mem
     /\ \/ mem["seg"] # Nil /\ ~Exists("seg", mem["seg"]) /\ NoFault
        \/ Fault("lookup")

EnsureLookup(k, res) ==
  /\ UNCHANGED nsxtVars
  /\ \/ k \in NameLookup /\ EnsureName(k, res)
     \/ k = "ip"  /\ EnsureAddress(res)
     \/ k = "lsw" /\ EnsureLogicalSwitch(res)

-----------------------------------------------------------------------------
(* Managed objects.                                                        *)

\* Where the object of k is addressed: the locale service is addressed by
\* its own reference, which is the id of its tier-1 gateway.
ParentRef(k) == IF k = "ls" THEN mem["ls"]
                ELSE IF Parents[k] = "root" THEN Nil ELSE mem[Parents[k]]

Current(k) == At(k, ParentRef(k), mem[k])

\* The segment is written in the NSX-T 3 way if there is a reference of a
\* DHCP config, whatever the version in the state. An update replaces all of it.
DesiredAttrs(k) ==
  LET uses == UsesOf(mem["dhcp"] # Nil)[k]
  IN  [a \in Attr |-> IF a \notin uses THEN Nil
                      ELSE IF a = "net" THEN want["net"] ELSE mem[a]]

NewObject(k) ==
  LET id == IF k = "ls" THEN mem["t1"] ELSE nextId
  IN  [kind |-> k, id |-> id, owner |-> "shoot", attrs |-> DesiredAttrs(k),
       parent |-> IF k = "ls" THEN id ELSE ParentRef(k)]

\* A reference found dangling is dropped before the object is created anew.
Forget(k) == IF k = "alloc" THEN mem ELSE [mem EXCEPT ![k] = Nil]

\* Create: the call succeeds, fails, or succeeds but its answer is lost.
Create(k, res) ==
  LET new == NewObject(k) IN
  \/ /\ res = "ok" /\ Acceptable(new)
     /\ Put(new) /\ mem' = [mem EXCEPT ![k] = new.id] /\ NoFault
  \/ /\ res = "err" /\ Acceptable(new) /\ Fault("lost")
     /\ Put(new) /\ mem' = Forget(k)
  \/ /\ res = "err" /\ mem' = Forget(k) /\ UNCHANGED nsxtVars
     /\ (~Acceptable(new) /\ NoFault) \/ Fault("write")

\* Mutant: objects are not updated.
NeedsUpdate_Never(k, o) == k = "rule"

\* Patch if an attribute differs; the SNAT rule compares pointers and so is
\* patched always; an IP allocation is never updated.
NeedsUpdate(k, o) ==
  \/ k = "rule"
  \/ k # "alloc" /\ o.attrs # DesiredAttrs(k)

Update(k, o, res) ==
  LET new == [o EXCEPT !.attrs = DesiredAttrs(k)] IN
  /\ UNCHANGED mem
  /\ \/ res = "ok" /\ Acceptable(new) /\ Put(new) /\ NoFault
     \/ res = "err" /\ Acceptable(new) /\ Put(new) /\ Fault("lost")
     \/ /\ res = "err" /\ UNCHANGED nsxtVars
        /\ (~Acceptable(new) /\ NoFault) \/ Fault("write")

\* The locale service is gone: the code clears the reference of the tier-1
\* gateway instead and calls itself, until the stack overflows or a Get fails.
RecurseLocaleService(res) ==
  /\ mem' = [mem EXCEPT !["t1"] = Nil] /\ UNCHANGED nsxtVars
  /\ \/ res = "panic" /\ NoFault
     \/ res = "err" /\ Fault("get")

\* Mutant: a missing object is not created anew if it has a reference.
EnsureObject_Once(k, res) ==
  \/ mem[k] = Nil /\ Create(k, res)
  \/ res = "ok" /\ mem[k] # Nil /\ NoFault /\ UNCHANGED <<mem, nsxtVars>>

EnsureObject(k, res) ==
  \/ mem[k] = Nil /\ Create(k, res)
  \/ /\ mem[k] # Nil /\ Current(k) = {}
     /\ IF k = "ls" THEN RecurseLocaleService(res) ELSE Create(k, res)
  \/ /\ mem[k] # Nil
     /\ \E o \in Current(k) :
          \/ NeedsUpdate(k, o) /\ Update(k, o, res)
          \/ res = "ok" /\ ~NeedsUpdate(k, o) /\ NoFault /\ UNCHANGED <<mem, nsxtVars>>
  \/ /\ res = "err" /\ mem[k] # Nil /\ Fault("get") /\ UNCHANGED <<mem, nsxtVars>>

\* A foreign tier-1 gateway is only looked up, once, and its tags are checked
\* for the garden and the shoot: without these nothing is authorized.
EnsureExternal(k, res) ==
  /\ UNCHANGED nsxtVars
  /\ \/ /\ k = "t1" /\ mem["t1"] = Nil
        /\ \/ /\ res = "ok" /\ ShootContext
              /\ mem' = [mem EXCEPT !["t1"] = ExtT1Id] /\ NoFault
           \/ /\ res = "err" /\ UNCHANGED mem
              /\ (~ShootContext /\ NoFault) \/ Fault("lookup")
     \/ /\ res = "ok" /\ NoFault /\ UNCHANGED mem
        /\ k = "ls" \/ mem["t1"] # Nil

Ensure(k, res) ==
  \/ k \in Lookup /\ EnsureLookup(k, res)
  \/ k \in Managed /\ IsExternal(k) /\ EnsureExternal(k, res)
  \/ k \in Managed /\ ~IsExternal(k) /\ EnsureObject(k, res)

-----------------------------------------------------------------------------
(* tryRecover: without a reference, search the objects by their tags.      *)

\* Mutant: objects below another object are not searched.
Recoverable_TopLevel(k) == IF Parents[k] = "root" THEN Tagged(k, Nil) ELSE {}

\* The locale service is looked for below the tier-1 gateway; without the
\* reference of the parent, or if the List fails, nothing is found. The tasks
\* of the Advanced API read only the first page: an object beyond it is one
\* that a failed List does not find.
Recoverable(k) ==
  LET p == Parents[k]
  IN  IF p = "root" THEN Tagged(k, Nil)
      ELSE IF mem[p] = Nil THEN {} ELSE Tagged(k, mem[p])

RecoverObject(k, res) ==
  /\ res = "ok" /\ UNCHANGED nsxtVars
  /\ \/ \E o \in Recoverable(k) :
          mem' = [mem EXCEPT ![k] = o.id] /\ NoFault
     \/ Recoverable(k) = {} /\ NoFault /\ UNCHANGED mem
     \/ Fault("list") /\ UNCHANGED mem

\* lookup is TRUE before a deletion, which may need what lookup tasks find.
tryRecover(k, lookup, res) ==
  \/ /\ mem[k] = Nil /\ k \in Managed /\ ~IsExternal(k)
     /\ RecoverObject(k, res)
  \/ /\ mem[k] = Nil /\ lookup
     /\ k \in Lookup \/ IsExternal(k)
     /\ Ensure(k, res)
  \/ /\ mem[k] # Nil \/ (~lookup /\ (k \in Lookup \/ IsExternal(k)))
     /\ res = "ok" /\ NoFault /\ UNCHANGED <<mem, nsxtVars>>

-----------------------------------------------------------------------------
(* EnsureDeleted.                                                          *)

\* Address and logical switch go with the objects they come from.
Drop(k) == [t \in Task |-> IF t = k \/ (k = "alloc" /\ t = "ip") THEN Nil ELSE mem[t]]

\* Delete answers "not found": tolerated by the Advanced API tasks, and by
\* the locale service, which asks again with Get.
DeleteMissing(k, res) ==
  /\ UNCHANGED nsxtVars /\ NoFault
  /\ IF k \in Advanced \union {"ls"} \/ ~DeleteReportsMissing
     THEN res = "ok" /\ mem' = Drop(k)
     ELSE res = "err" /\ UNCHANGED mem

\* Mutant: the Advanced API tasks tolerate every error of Delete.
DeleteObject_Tolerant(k, o, res) ==
  \/ /\ res = "ok" /\ ~Referenced(o, Tracked) /\ NoFault
     /\ nsxt' = nsxt \ {o} /\ UNCHANGED nextId /\ mem' = Drop(k)
  \/ /\ UNCHANGED nsxtVars
     /\ IF k \in Advanced THEN res = "ok" /\ mem' = Drop(k)
        ELSE res = "err" /\ UNCHANGED mem
     /\ (Referenced(o, Tracked) /\ NoFault) \/ Fault("delete")

DeleteObject(k, o, res) ==
  \/ /\ res = "ok" /\ ~Referenced(o, Tracked) /\ NoFault
     /\ nsxt' = nsxt \ {o} /\ UNCHANGED nextId /\ mem' = Drop(k)
  \/ /\ ~Referenced(o, Tracked) /\ Fault("deleteLost")
     /\ nsxt' = nsxt \ {o} /\ UNCHANGED nextId
     /\ IF k = "ls" THEN res = "ok" /\ mem' = Drop(k)
        ELSE res = "err" /\ UNCHANGED mem
  \/ /\ res = "err" /\ UNCHANGED <<mem, nsxtVars>>
     /\ (Referenced(o, Tracked) /\ NoFault) \/ Fault("delete")

EnsureDeleted(k, res) ==
  \/ /\ k \in Lookup \/ IsExternal(k) \/ mem[k] = Nil
     /\ res = "ok" /\ NoFault /\ UNCHANGED <<mem, nsxtVars>>
  \/ /\ k \in Managed /\ ~IsExternal(k) /\ mem[k] # Nil
     /\ IF k # "ls" /\ Parents[k] # "root" /\ ParentRef(k) = Nil
        THEN res = "panic" /\ NoFault /\ UNCHANGED <<mem, nsxtVars>>
        ELSE \/ Current(k) = {} /\ DeleteMissing(k, res)
             \/ \E o \in Current(k) : DeleteObject(k, o, res)
-----------------------------------------------------------------------------
\* Objects of other shoots, also those below a shared gateway or in the shared
\* IP pool, are never written or deleted: recovery goes by both tags.
OthersUntouched == Foreign = Others
=============================================================================
