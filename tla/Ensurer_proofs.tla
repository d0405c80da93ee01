----------------------------- MODULE Ensurer_proofs -----------------------------
(***************************************************************************)
(* What one task of the ensurer does to the objects in NSX-T and to the    *)
(* references in memory, for every choice of faults and of objects of      *)
(* other shoots. The proofs about the infrastructure controller and about  *)
(* the command line tool, which both drive the ensurer, rest on it.        *)
(*                                                                         *)
(* What belongs to the shoot is told from what does not by the ids: the    *)
(* ids of other shoots' objects are at most ExtT1Id, whatever the shoot    *)
(* owns or refers to has a greater id.                                     *)
(***************************************************************************)
EXTENDS EnsurerRun, SequenceTheorems, FiniteSetTheorems, TLAPS

\* Whatever the shoot owns has an id which no foreign object has.
OwnIds == nextId > ExtT1Id /\ \A o \in nsxt : o.owner = "shoot" => o.id > ExtT1Id

\* A reference to an object that the shoot has to own is nil or such an id.
OwnRefs(refs) == \A k \in Managed : IsExternal(k) \/ refs[k] = Nil \/ refs[k] > ExtT1Id

\* The part of the type invariant about what the tasks work on.
EnsurerTypeOK ==
  /\ nsxt \subseteq Object /\ nextId \in Nat
  /\ mem \in [Task -> Ref] /\ want \in [Input -> Nat \ {0}] /\ faults \in 0..MaxFaults

EnsurerInv == EnsurerTypeOK /\ OwnIds /\ OwnRefs(mem) /\ OthersUntouched

\* Of the kinds in Loss objects can be deleted by someone else: none; or not a
\* gateway or its locale service, and no reference of an object just written is lost.
NothingForgotten(Loss) ==
  \/ Loss = {}
  \/ Loss \intersect {"t1", "ls"} = {} /\ Faults \intersect {"lost", "crash", "status"} = {}

\* Before a deletion, the pool and an external gateway are found.
LookupsWork == "lookup" \notin Faults /\ (ExternalT1 => ShootContext)
-----------------------------------------------------------------------------
(* The tasks, the place of an object and its reference.                   *)

Before(n) == {Tasks[j] : j \in 1..(n - 1)}
After(n)  == {Tasks[j] : j \in (n + 1)..Len(Tasks)}

\* ref is the reference under which the children of p live.
IsPlace(p, ref) ==
  IF p = "root" THEN ref = Nil
  ELSE IF p = "pool" THEN ref = DefaultName
  ELSE IF IsExternal(p) THEN ref = ExtT1Id
  ELSE \E g \in Own(p) : g.id = ref

\* Every object of the shoot belongs to a task and lives where its task looks.
Placed == \A k \in Managed : \A o \in Own(k) :
  /\ k \in Required /\ o.id < nextId /\ IsPlace(Parents[k], o.parent)
  /\ k = "ls" => o.parent = o.id

Unique == \A k \in Managed : \A o, p \in Own(k) : o = p

\* The pool and an external gateway never change.
Fixed(refs) == /\ refs["pool"] \in {Nil, DefaultName}
               /\ ExternalT1 => refs["t1"] \in {Nil, ExtT1Id}

\* A reference is nil or leads to the object, if there is one.
Agree(refs) == \A k \in Required : \A o \in Own(k) : refs[k] \in {Nil, o.id}

\* The tasks whose references others are built on.
Resolved(k) == mem[k] # Nil /\ (k \in Required => Own(k) # {})
Basic == Required \union {"pool"} \union (IF ExternalT1 THEN {"t1"} ELSE {})

\* Before deleting: what has no reference does not exist.
Found(k) == mem[k] = Nil => k \in Required /\ Own(k) = {}
-----------------------------------------------------------------------------
(* Constants, tasks and faults.                                            *)

\* getTasks: for each version the order is a sequence of tasks.
LEMMA TasksOfSeq ==
  ASSUME NEW v \in BOOLEAN
  PROVE  TasksOf(v) \in Seq(Task) /\ Len(TasksOf(v)) \in Nat \ {0}
<1> DEFINE a == <<"t0", "tz", "ec", "pool", "t1", "ls">>
           b == IF v THEN <<"dhcp">> ELSE << >>
           c == <<"seg", "alloc", "ip", "rule">>
           d == IF v THEN << >> ELSE <<"lsw", "prof", "srv", "port", "ipp">>
<1>1. a \in Seq(Task) /\ Len(a) = 6
  BY DEF Task, Managed, Lookup, NameLookup, Advanced
<1>2. b \in Seq(Task)
  <2>1. <<"dhcp">> \in Seq(Task)
    BY DEF Task, Managed
  <2> QED BY <2>1, EmptySeq
<1>3. c \in Seq(Task)
  BY DEF Task, Managed, Lookup, NameLookup, Advanced
<1>4. d \in Seq(Task)
  <2>1. <<"lsw", "prof", "srv", "port", "ipp">> \in Seq(Task)
    BY DEF Task, Managed, Lookup, Advanced
  <2> QED BY <2>1, EmptySeq
<1> HIDE DEF a, b, c, d
<1>5. a \o b \in Seq(Task) /\ Len(a \o b) = Len(a) + Len(b)
  BY <1>1, <1>2, ConcatProperties
<1>6. a \o b \o c \in Seq(Task) /\ Len(a \o b \o c) = Len(a \o b) + Len(c)
  BY <1>5, <1>3, ConcatProperties
<1>7. a \o b \o c \o d \in Seq(Task) /\ Len(a \o b \o c \o d) = Len(a \o b \o c) + Len(d)
  BY <1>6, <1>4, ConcatProperties
<1>8. Len(b) \in Nat /\ Len(c) \in Nat /\ Len(d) \in Nat
  BY <1>2, <1>3, <1>4, LenProperties
<1>9. TasksOf(v) = a \o b \o c \o d
  BY DEF TasksOf, a, b, c, d
<1> QED BY <1>1, <1>5, <1>6, <1>7, <1>8, <1>9

LEMMA TasksSeq == Tasks \in Seq(Task) /\ Len(Tasks) \in Nat \ {0}
  BY TasksOfSeq, NSXT3Assumption DEF Tasks

LEMMA TasksOfType ==
  ASSUME NEW v \in BOOLEAN
  PROVE  Len(TasksOf(v)) \in Nat \ {0} /\ (\A n \in 1..Len(TasksOf(v)) : TasksOf(v)[n] \in Task)
  BY TasksOfSeq, ElementOfSeq

LEMMA TasksType == Len(Tasks) \in Nat \ {0} /\ (\A n \in 1..Len(Tasks) : Tasks[n] \in Task)
  BY TasksSeq, ElementOfSeq

\* A fault leaves the counter within its bound.
LEMMA FaultsBounded ==
  ASSUME faults \in 0..MaxFaults, NEW f, NoFault \/ Fault(f)
  PROVE  faults' \in 0..MaxFaults
  BY MaxFaultsAssumption DEF NoFault, Fault

\* The element types of the state are as the tasks expect them.
LEMMA NoRefsType == NoRefs \in [Task -> Ref] /\ OwnRefs(NoRefs)
  BY DEF NoRefs, Ref, Nil, OwnRefs, Task
-----------------------------------------------------------------------------
(* Reads and writes of NSX-T objects.                                      *)

\* Whatever a managed task writes into its object is a reference or an input.
LEMMA DesiredAttrsType ==
  ASSUME EnsurerTypeOK, NEW k \in Managed
  PROVE  DesiredAttrs(k) \in [Attr -> Ref] /\ ParentRef(k) \in Nat
<1>1. ASSUME NEW a \in Attr
      PROVE  (IF a \notin UsesOf(mem["dhcp"] # Nil)[k] THEN Nil
              ELSE IF a = "net" THEN want["net"] ELSE mem[a]) \in Ref
  <2>1. CASE a = "net"
    BY <2>1 DEF EnsurerTypeOK, Ref, Nil, Input
  <2>2. CASE a # "net"
    BY <2>2 DEF EnsurerTypeOK, Ref, Nil, Attr
  <2> QED BY <2>1, <2>2
<1>2. DesiredAttrs(k) \in [Attr -> Ref]
  BY <1>1 DEF DesiredAttrs
<1>3. Parents[k] # "root" => Parents[k] \in Task
  BY DEF Parents, Task, Managed, Lookup, NameLookup, Advanced
<1>4. ParentRef(k) \in Nat
  BY <1>3 DEF ParentRef, EnsurerTypeOK, Ref, Nil, Task, Managed
<1> QED BY <1>2, <1>4

\* What the own references lead to is an own object.
LEMMA OwnById ==
  ASSUME EnsurerInv, NEW o \in nsxt, o.id > ExtT1Id
  PROVE  o.owner = "shoot" /\ o \in Object
<1>1. o \in Object
  BY DEF EnsurerInv, EnsurerTypeOK
<1>2. o.id \in Nat /\ o.owner \in {"shoot", "other"}
  BY <1>1 DEF Object, Owner
<1>3. o \notin Others
  BY <1>2, OthersAssumption, ExtT1IdAssumption
<1>4. o.owner # "other"
  BY <1>3 DEF EnsurerInv, OthersUntouched, Foreign
<1> QED BY <1>1, <1>2, <1>4

\* No object has the nil reference as its id.
LEMMA NoNilObject ==
  ASSUME EnsurerInv, NEW o \in nsxt
  PROVE  o.id # Nil
<1>1. o \in Object /\ o.owner \in {"shoot", "other"}
  BY DEF EnsurerInv, EnsurerTypeOK, Object, Owner
<1>2. CASE o.owner = "shoot"
  BY <1>2, ExtT1IdAssumption DEF EnsurerInv, OwnIds, Nil
<1>3. CASE o.owner = "other"
  <2>1. o \in Others
    BY <1>3 DEF EnsurerInv, OthersUntouched, Foreign
  <2> QED BY <2>1, OthersAssumption, ExtT1IdAssumption DEF Nil
<1> QED BY <1>1, <1>2, <1>3

\* Writing an own object with an own id does not touch foreign objects.
LEMMA PutOwn ==
  ASSUME EnsurerInv, NEW o \in Object, o.owner = "shoot", o.id > ExtT1Id, Put(o)
  PROVE  nsxt' \subseteq Object /\ nextId' \in Nat /\ OwnIds' /\ OthersUntouched'
<1>1. o.id \in Nat
  BY DEF Object
<1>2. nsxt' \subseteq Object /\ nextId' \in Nat
  BY <1>1 DEF Put, EnsurerInv, EnsurerTypeOK
<1>3. OwnIds'
  BY <1>1, ExtT1IdAssumption DEF Put, EnsurerInv, EnsurerTypeOK, OwnIds
<1>4. ASSUME NEW p \in At(o.kind, o.parent, o.id)
      PROVE  p \in nsxt /\ p.owner = "shoot"
  BY OwnById DEF At
<1>5. Foreign' = Foreign
  BY <1>4 DEF Put, Foreign
<1> QED BY <1>2, <1>3, <1>5 DEF EnsurerInv, OthersUntouched

\* Deleting own objects does not touch foreign ones.
LEMMA RemoveOwn ==
  ASSUME EnsurerInv, NEW S, \A o \in S : o \in nsxt => o.owner = "shoot",
         nsxt' = nsxt \ S, UNCHANGED nextId
  PROVE  nsxt' \subseteq Object /\ nextId' \in Nat /\ OwnIds' /\ OthersUntouched'
<1>1. Foreign' = Foreign
  BY DEF Foreign
<1> QED BY <1>1 DEF EnsurerInv, EnsurerTypeOK, OwnIds, OthersUntouched
-----------------------------------------------------------------------------
(* Each operation of a task preserves EnsurerInv.                          *)

\* A step that writes no object and sets references only to own ids.
LEMMA RefsOnly ==
  ASSUME EnsurerInv, UNCHANGED <<nsxtVars, want>>, mem' \in [Task -> Ref],
         \A k \in Managed : IsExternal(k) \/ mem'[k] = Nil
                              \/ mem'[k] = mem[k] \/ mem'[k] > ExtT1Id,
         faults' \in 0..MaxFaults
  PROVE  EnsurerInv'
<1>1. OwnRefs(mem)'
  BY DEF EnsurerInv, OwnRefs, IsExternal
<1> QED BY <1>1 DEF EnsurerInv, EnsurerTypeOK, OwnIds, OthersUntouched, Foreign, nsxtVars

\* What Create writes is an own object with an own id.
LEMMA NewObjectOwn ==
  ASSUME EnsurerInv, NEW k \in Managed, ~IsExternal(k), Acceptable(NewObject(k))
  PROVE  LET new == NewObject(k)
         IN  new \in Object /\ new.owner = "shoot" /\ new.kind = k /\ new.id > ExtT1Id
<1> DEFINE new == NewObject(k)
<1>1. new.owner = "shoot" /\ new.kind = k
  BY DEF NewObject
<1>2. CASE k # "ls"
  <2>1. new.id = nextId /\ new.parent = ParentRef(k) /\ new.attrs = DesiredAttrs(k)
    BY <1>2 DEF NewObject
  <2>2. new \in Object
    BY <1>1, <1>2, <2>1, DesiredAttrsType
       DEF NewObject, Object, Kind, Owner, EnsurerInv, EnsurerTypeOK
  <2> QED BY <1>1, <2>1, <2>2 DEF EnsurerInv, OwnIds
<1>3. CASE k = "ls"
  <2>1. new.id = mem["t1"] /\ new.parent = mem["t1"] /\ new.attrs = DesiredAttrs(k)
    BY <1>3 DEF NewObject
  <2>2. "t1" \in Managed /\ "t1" \in Task /\ ~IsExternal("t1")
    BY <1>3 DEF Managed, Task, IsExternal
  <2>3. ParentOf(new.kind) = "t1"
    BY <1>1, <1>3 DEF ParentOf, Parents, Managed
  <2>4. \E o \in nsxt : o.id = mem["t1"]
    BY <2>1, <2>2, <2>3 DEF Acceptable, Exists
  <2>5. mem["t1"] # Nil
    BY <2>4, NoNilObject
  <2>6. mem["t1"] > ExtT1Id
    BY <2>2, <2>5 DEF EnsurerInv, OwnRefs
  <2>7. mem["t1"] \in Nat
    BY <2>2 DEF EnsurerInv, EnsurerTypeOK, Ref
  <2>8. new \in Object
    BY <1>1, <1>3, <2>1, <2>7, DesiredAttrsType
       DEF NewObject, Object, Kind, Owner, EnsurerInv, EnsurerTypeOK
  <2> QED BY <1>1, <2>1, <2>6, <2>8
<1> HIDE DEF new
<1> QED BY <1>1, <1>2, <1>3 DEF new

\* A step that writes or deletes objects and sets one reference.
LEMMA ObjectsAndRef ==
  ASSUME EnsurerInv, NEW k \in Managed, NEW v \in Ref,
         v = Nil \/ v > ExtT1Id \/ v = mem[k],
         nsxt' \subseteq Object, nextId' \in Nat, OwnIds', OthersUntouched',
         mem' = [mem EXCEPT ![k] = v], UNCHANGED want, faults' \in 0..MaxFaults
  PROVE  EnsurerInv'
<1>1. mem' \in [Task -> Ref]
  BY DEF EnsurerInv, EnsurerTypeOK
<1>2. OwnRefs(mem)'
  BY DEF EnsurerInv, EnsurerTypeOK, OwnRefs, IsExternal, Task
<1> QED BY <1>1, <1>2 DEF EnsurerInv, EnsurerTypeOK

\* Without a reference or an object, Ensure creates one.
LEMMA CreateInv ==
  ASSUME EnsurerInv, NEW k \in Managed, ~IsExternal(k), NEW res, Create(k, res),
         UNCHANGED want
  PROVE  EnsurerInv'
<1> DEFINE new == NewObject(k)
<1>0. faults' \in 0..MaxFaults
  BY FaultsBounded DEF Create, EnsurerInv, EnsurerTypeOK
<1>a. k \in Task /\ mem[k] \in Ref /\ Nil \in Ref
  BY DEF EnsurerInv, EnsurerTypeOK, Task, Ref, Nil
<1>b. Forget(k) = [mem EXCEPT ![k] = IF k = "alloc" THEN mem[k] ELSE Nil]
  BY <1>a DEF Forget, EnsurerInv, EnsurerTypeOK
<1> DEFINE old == IF k = "alloc" THEN mem[k] ELSE Nil
<1>c. old \in Ref /\ (old = Nil \/ old > ExtT1Id \/ old = mem[k])
  BY <1>a
<1>1. CASE Acceptable(new) /\ Put(new)
           /\ (mem' = [mem EXCEPT ![k] = new.id] \/ mem' = Forget(k))
  <2>1. new \in Object /\ new.owner = "shoot" /\ new.id > ExtT1Id
    BY <1>1, NewObjectOwn
  <2> HIDE DEF new
  <2>2. nsxt' \subseteq Object /\ nextId' \in Nat /\ OwnIds' /\ OthersUntouched'
    BY <1>1, <2>1, PutOwn
  <2>3. new.id \in Ref
    BY <2>1 DEF Object, Ref
  <2>4. CASE mem' = [mem EXCEPT ![k] = new.id]
    BY <2>1, <2>2, <2>3, <2>4, <1>0, ObjectsAndRef
  <2>5. CASE mem' = Forget(k)
    <3> HIDE DEF old
    <3>1. mem' = [mem EXCEPT ![k] = old]
      BY <2>5, <1>b DEF old
    <3> QED BY <2>2, <3>1, <1>0, <1>c, ObjectsAndRef
  <2> QED BY <1>1, <2>4, <2>5
<1>2. CASE mem' = Forget(k) /\ UNCHANGED nsxtVars
  <2>1. nsxt' \subseteq Object /\ nextId' \in Nat /\ OwnIds' /\ OthersUntouched'
    BY <1>2 DEF EnsurerInv, EnsurerTypeOK, OwnIds, OthersUntouched, Foreign, nsxtVars
  <2> HIDE DEF old
  <2>2. mem' = [mem EXCEPT ![k] = old]
    BY <1>2, <1>b DEF old
  <2> QED BY <2>1, <2>2, <1>0, <1>c, ObjectsAndRef
<1> QED BY <1>1, <1>2 DEF Create

\* An object is patched only under its own reference.
LEMMA UpdateInv ==
  ASSUME EnsurerInv, NEW k \in Managed, ~IsExternal(k), mem[k] # Nil,
         NEW o \in Current(k), NEW res, Update(k, o, res), UNCHANGED want
  PROVE  EnsurerInv'
<1> DEFINE new == [o EXCEPT !.attrs = DesiredAttrs(k)]
<1>0. faults' \in 0..MaxFaults
  BY FaultsBounded DEF Update, EnsurerInv, EnsurerTypeOK
<1>1. mem' = mem
  BY DEF Update
<1>2. o \in nsxt /\ o.id > ExtT1Id
  BY DEF Current, At, EnsurerInv, OwnRefs
<1>3. o \in Object /\ o.owner = "shoot"
  BY <1>2, OwnById
<1>4. new \in Object /\ new.owner = "shoot" /\ new.id > ExtT1Id
  BY <1>2, <1>3, DesiredAttrsType DEF Object, EnsurerInv
<1> HIDE DEF new
<1>5. CASE Put(new)
  BY <1>0, <1>1, <1>4, <1>5, PutOwn DEF EnsurerInv, EnsurerTypeOK
<1>6. CASE UNCHANGED nsxtVars
  BY <1>0, <1>1, <1>6
     DEF EnsurerInv, EnsurerTypeOK, OwnIds, OthersUntouched, Foreign, nsxtVars
<1> QED BY <1>5, <1>6 DEF Update, new

\* Ensure of any task, whatever its result.
LEMMA EnsureInv ==
  ASSUME EnsurerInv, NEW k \in Task, NEW res, Ensure(k, res), UNCHANGED want
  PROVE  EnsurerInv'
<1>1. CASE k \in Lookup /\ EnsureLookup(k, res)
  <2>0. UNCHANGED nsxtVars
    BY <1>1 DEF EnsureLookup
  <2>1. k \notin Managed
    BY <1>1 DEF Lookup, NameLookup, Managed, Advanced
  <2>2. CASE k \in NameLookup /\ EnsureName(k, res)
    <3>1. faults' \in 0..MaxFaults
      BY <2>2, FaultsBounded DEF EnsureName, EnsurerInv, EnsurerTypeOK
    <3>2. want[k] \in Ref
      BY <2>2 DEF EnsurerInv, EnsurerTypeOK, Input, Ref
    <3>3. mem' \in [Task -> Ref] /\ \A t \in Managed : mem'[t] = mem[t]
      BY <2>1, <2>2, <3>2 DEF EnsureName, EnsurerInv, EnsurerTypeOK, Task
    <3> QED BY <2>0, <3>1, <3>3, RefsOnly
  <2>3. CASE EnsureAddress(res)
    <3>1. faults' \in 0..MaxFaults
      BY <2>3, FaultsBounded DEF EnsureAddress, EnsurerInv, EnsurerTypeOK
    <3>2. mem' \in [Task -> Ref] /\ \A t \in Managed : mem'[t] = mem[t]
      BY <2>3 DEF EnsureAddress, EnsurerInv, EnsurerTypeOK, Task, Managed, Advanced
    <3> QED BY <2>0, <3>1, <3>2, RefsOnly
  <2>4. CASE EnsureLogicalSwitch(res)
    <3>1. faults' \in 0..MaxFaults
      BY <2>4, FaultsBounded DEF EnsureLogicalSwitch, EnsurerInv, EnsurerTypeOK
    <3>2. mem' \in [Task -> Ref] /\ \A t \in Managed : mem'[t] = mem[t]
      BY <2>4 DEF EnsureLogicalSwitch, EnsurerInv, EnsurerTypeOK, Task, Managed, Advanced
    <3> QED BY <2>0, <3>1, <3>2, RefsOnly
  <2> QED BY <1>1, <2>2, <2>3, <2>4 DEF EnsureLookup
<1>2. CASE k \in Managed /\ IsExternal(k) /\ EnsureExternal(k, res)
  <2>1. faults' \in 0..MaxFaults
    BY <1>2, FaultsBounded DEF EnsureExternal, EnsurerInv, EnsurerTypeOK
  <2>2. mem' \in [Task -> Ref]
    BY <1>2, ExtT1IdAssumption DEF EnsureExternal, EnsurerInv, EnsurerTypeOK, Ref
  <2>3. \A t \in Managed : IsExternal(t) \/ mem'[t] = mem[t]
    BY <1>2 DEF EnsureExternal, EnsurerInv, EnsurerTypeOK, IsExternal, Task
  <2> QED BY <1>2, <2>1, <2>2, <2>3, RefsOnly DEF EnsureExternal
<1>3. CASE k \in Managed /\ ~IsExternal(k) /\ EnsureObject(k, res)
  <2>1. CASE Create(k, res)
    BY <1>3, <2>1, CreateInv
  <2>2. CASE k = "ls" /\ RecurseLocaleService(res)
    <3>1. faults' \in 0..MaxFaults
      BY <2>2, FaultsBounded DEF RecurseLocaleService, EnsurerInv, EnsurerTypeOK
    <3>2. mem' \in [Task -> Ref]
           /\ \A t \in Managed : mem'[t] = mem[t] \/ mem'[t] = Nil
      BY <2>2 DEF RecurseLocaleService, EnsurerInv, EnsurerTypeOK, Task, Ref, Nil
    <3> QED BY <2>2, <3>1, <3>2, RefsOnly DEF RecurseLocaleService
  <2>3. ASSUME mem[k] # Nil, NEW o \in Current(k), Update(k, o, res)
        PROVE  EnsurerInv'
    BY <1>3, <2>3, UpdateInv
  <2>4. CASE UNCHANGED <<mem, nsxtVars>> /\ (NoFault \/ Fault("get"))
    <3>1. faults' \in 0..MaxFaults
      BY <2>4, FaultsBounded DEF EnsurerInv, EnsurerTypeOK
    <3> QED BY <2>4, <3>1, RefsOnly DEF EnsurerInv, EnsurerTypeOK
  <2> QED BY <1>3, <2>1, <2>2, <2>3, <2>4 DEF EnsureObject
<1> QED BY <1>1, <1>2, <1>3 DEF Ensure

\* tryRecover finds nothing but the shoot's own objects.
LEMMA RecoverInv ==
  ASSUME EnsurerInv, NEW k \in Task, NEW lookup, NEW res,
         tryRecover(k, lookup, res), UNCHANGED want
  PROVE  EnsurerInv'
<1>1. CASE k \in Managed /\ ~IsExternal(k) /\ RecoverObject(k, res)
  <2>1. faults' \in 0..MaxFaults
    BY <1>1, FaultsBounded DEF RecoverObject, EnsurerInv, EnsurerTypeOK
  <2>2. ASSUME NEW o \in Recoverable(k)
        PROVE  o.id \in Ref /\ o.id > ExtT1Id
    <3>1. o \in nsxt /\ o.owner = "shoot"
      BY DEF Recoverable, Tagged
    <3> QED BY <3>1 DEF EnsurerInv, EnsurerTypeOK, OwnIds, Object, Ref
  <2>3. /\ mem' \in [Task -> Ref]
        /\ \A t \in Managed : mem'[t] = mem[t] \/ mem'[t] > ExtT1Id
    BY <1>1, <2>2 DEF RecoverObject, EnsurerInv, EnsurerTypeOK, Task
  <2> QED BY <1>1, <2>1, <2>3, RefsOnly DEF RecoverObject
<1>2. CASE Ensure(k, res)
  BY <1>2, EnsureInv
<1>3. CASE NoFault /\ UNCHANGED <<mem, nsxtVars>>
  BY <1>3, RefsOnly DEF NoFault, EnsurerInv, EnsurerTypeOK
<1> QED BY <1>1, <1>2, <1>3 DEF tryRecover

\* EnsureDeleted deletes nothing but what the shoot's own references lead to.
LEMMA DeletedInv ==
  ASSUME EnsurerInv, NEW k \in Task, NEW res, EnsureDeleted(k, res), UNCHANGED want
  PROVE  EnsurerInv'
<1>0. faults' \in 0..MaxFaults
  BY FaultsBounded
     DEF EnsureDeleted, DeleteMissing, DeleteObject, EnsurerInv, EnsurerTypeOK
<1>1. mem' \in [Task -> Ref] /\ \A t \in Managed : mem'[t] = mem[t] \/ mem'[t] = Nil
  <2>1. mem' = mem \/ mem' = Drop(k)
    BY DEF EnsureDeleted, DeleteMissing, DeleteObject
  <2> QED BY <2>1 DEF Drop, EnsurerInv, EnsurerTypeOK, Task, Ref, Nil
<1>2. CASE UNCHANGED nsxtVars
  BY <1>0, <1>1, <1>2, RefsOnly DEF EnsureDeleted
<1>3. ASSUME NEW o \in Current(k), k \in Managed, ~IsExternal(k), mem[k] # Nil,
             nsxt' = nsxt \ {o}, UNCHANGED nextId
      PROVE  EnsurerInv'
  <2>1. o \in nsxt /\ o.id > ExtT1Id
    BY <1>3 DEF Current, At, EnsurerInv, OwnRefs
  <2>2. o.owner = "shoot"
    BY <2>1, OwnById
  <2>3. nsxt' \subseteq Object /\ nextId' \in Nat /\ OwnIds' /\ OthersUntouched'
    <3> DEFINE S == {o}
    <3>1. \A p \in S : p \in nsxt => p.owner = "shoot"
      BY <2>2
    <3>2. nsxt' = nsxt \ S /\ UNCHANGED nextId
      BY <1>3
    <3> HIDE DEF S
    <3> QED BY <3>1, <3>2, RemoveOwn
  <2>4. OwnRefs(mem)'
    BY <1>1 DEF EnsurerInv, OwnRefs, IsExternal
  <2> QED BY <1>0, <1>1, <2>3, <2>4 DEF EnsurerInv, EnsurerTypeOK
<1> QED BY <1>2, <1>3 DEF EnsureDeleted, DeleteMissing, DeleteObject
-----------------------------------------------------------------------------
(* The order of the tasks.                                                 *)

\* The length and the elements of a concatenation of tasks.
LEMMA Concat ==
  ASSUME NEW s \in Seq(Task), NEW t \in Seq(Task)
  PROVE  /\ s \o t \in Seq(Task) /\ Len(s \o t) = Len(s) + Len(t)
         /\ \A n \in 1..(Len(s) + Len(t)) :
              (s \o t)[n] = IF n <= Len(s) THEN s[n] ELSE t[n - Len(s)]
<1>1. s \o t \in Seq(Task) /\ Len(s \o t) = Len(s) + Len(t)
  BY ConcatProperties
<1>2. \A n \in 1..(Len(s) + Len(t)) : (s \o t)[n] = IF n <= Len(s) THEN s[n] ELSE t[n - Len(s)]
  BY ConcatProperties, Zenon
<1> QED BY <1>1, <1>2

\* The tasks of getTasks one by one, for each version of NSX-T.
LEMMA TaskListOf ==
  ASSUME NEW v \in BOOLEAN
  PROVE  LET tasks == TasksOf(v) IN
    /\ tasks[1] = "t0" /\ tasks[2] = "tz" /\ tasks[3] = "ec" /\ tasks[4] = "pool"
    /\ tasks[5] = "t1" /\ tasks[6] = "ls"
    /\ v => /\ Len(tasks) = 11 /\ tasks[7] = "dhcp" /\ tasks[8] = "seg"
            /\ tasks[9] = "alloc" /\ tasks[10] = "ip" /\ tasks[11] = "rule"
    /\ ~v => /\ Len(tasks) = 15 /\ tasks[7] = "seg" /\ tasks[8] = "alloc"
             /\ tasks[9] = "ip" /\ tasks[10] = "rule" /\ tasks[11] = "lsw"
             /\ tasks[12] = "prof" /\ tasks[13] = "srv" /\ tasks[14] = "port"
             /\ tasks[15] = "ipp"
<1> DEFINE tasks == TasksOf(v)
           a == <<"t0", "tz", "ec", "pool", "t1", "ls">>
           b == IF v THEN <<"dhcp">> ELSE << >>
           c == <<"seg", "alloc", "ip", "rule">>
           d == IF v THEN << >> ELSE <<"lsw", "prof", "srv", "port", "ipp">>
<1>1. a \in Seq(Task) /\ Len(a) = 6 /\ a[1] = "t0" /\ a[2] = "tz" /\ a[3] = "ec"
       /\ a[4] = "pool" /\ a[5] = "t1" /\ a[6] = "ls"
  BY DEF Task, Managed, Lookup, NameLookup, Advanced
<1>2. b \in Seq(Task) /\ (v => Len(b) = 1 /\ b[1] = "dhcp") /\ (~v => Len(b) = 0)
  <2>1. <<"dhcp">> \in Seq(Task) /\ Len(<<"dhcp">>) = 1 /\ <<"dhcp">>[1] = "dhcp"
    BY DEF Task, Managed, Lookup, NameLookup, Advanced
  <2>2. << >> \in Seq(Task) /\ Len(<< >>) = 0
    BY EmptySeq
  <2> QED BY <2>1, <2>2
<1>3. c \in Seq(Task) /\ Len(c) = 4 /\ c[1] = "seg" /\ c[2] = "alloc" /\ c[3] = "ip"
       /\ c[4] = "rule"
  BY DEF Task, Managed, Lookup, NameLookup, Advanced
<1>4. /\ d \in Seq(Task) /\ (v => Len(d) = 0)
      /\ ~v => Len(d) = 5 /\ d[1] = "lsw" /\ d[2] = "prof" /\ d[3] = "srv"
                    /\ d[4] = "port" /\ d[5] = "ipp"
  <2> DEFINE e == <<"lsw", "prof", "srv", "port", "ipp">>
  <2>1. e \in Seq(Task) /\ Len(e) = 5 /\ e[1] = "lsw" /\ e[2] = "prof" /\ e[3] = "srv"
         /\ e[4] = "port" /\ e[5] = "ipp"
    BY DEF Task, Managed, Lookup, NameLookup, Advanced
  <2>2. << >> \in Seq(Task) /\ Len(<< >>) = 0
    BY EmptySeq
  <2> HIDE DEF e
  <2>3. d = IF v THEN << >> ELSE e
    BY DEF e
  <2> QED BY <2>1, <2>2, <2>3
<1> HIDE DEF tasks, a, b, c, d
<1> DEFINE ab == a \o b
           abc == ab \o c
           abcd == abc \o d
<1>5. /\ ab \in Seq(Task) /\ Len(ab) = Len(a) + Len(b)
      /\ \A n \in 1..(Len(a) + Len(b)) : ab[n] = IF n <= Len(a) THEN a[n] ELSE b[n - Len(a)]
  BY <1>1, <1>2, Concat, Zenon
<1> HIDE DEF ab
<1>6. /\ abc \in Seq(Task) /\ Len(abc) = Len(ab) + Len(c)
      /\ \A n \in 1..(Len(ab) + Len(c)) : abc[n] = IF n <= Len(ab) THEN ab[n] ELSE c[n - Len(ab)]
  BY <1>3, <1>5, Concat, Zenon
<1> HIDE DEF abc
<1>7. /\ Len(abcd) = Len(abc) + Len(d)
      /\ \A n \in 1..(Len(abc) + Len(d)) :
           abcd[n] = IF n <= Len(abc) THEN abc[n] ELSE d[n - Len(abc)]
  BY <1>4, <1>6, Concat, Zenon
<1> HIDE DEF abcd
<1>8. tasks = abcd
  BY DEF tasks, TasksOf, a, b, c, d, ab, abc, abcd
<1>9. CASE v
  <2>0. Len(b) = 1 /\ b[1] = "dhcp" /\ Len(d) = 0
    BY <1>2, <1>4, <1>9, Zenon
  <2>1. /\ ab[1] = "t0" /\ ab[2] = "tz" /\ ab[3] = "ec" /\ ab[4] = "pool" /\ ab[5] = "t1"
        /\ ab[6] = "ls" /\ ab[7] = "dhcp" /\ Len(ab) = 7
    BY <1>1, <1>5, <2>0
  <2>2. /\ \A n \in 1..7 : abc[n] = ab[n]
        /\ abc[8] = "seg" /\ abc[9] = "alloc" /\ abc[10] = "ip" /\ abc[11] = "rule"
        /\ Len(abc) = 11
    BY <1>3, <1>6, <2>1
  <2>3. Len(tasks) = 11
    BY <1>7, <1>8, <2>0, <2>2
  <2>4. \A n \in 1..11 : tasks[n] = abc[n]
    BY <1>7, <1>8, <2>0, <2>2
  <2>5. /\ tasks[1] = "t0" /\ tasks[2] = "tz" /\ tasks[3] = "ec" /\ tasks[4] = "pool"
        /\ tasks[5] = "t1" /\ tasks[6] = "ls" /\ tasks[7] = "dhcp" /\ tasks[8] = "seg"
        /\ tasks[9] = "alloc" /\ tasks[10] = "ip" /\ tasks[11] = "rule"
    BY <2>1, <2>2, <2>4
  <2> QED BY <1>9, <2>3, <2>5 DEF tasks
<1>10. CASE ~v
  <2>0. /\ Len(b) = 0 /\ Len(d) = 5 /\ d[1] = "lsw" /\ d[2] = "prof" /\ d[3] = "srv"
        /\ d[4] = "port" /\ d[5] = "ipp"
    BY <1>2, <1>4, <1>10, Zenon
  <2>1. /\ ab[1] = "t0" /\ ab[2] = "tz" /\ ab[3] = "ec" /\ ab[4] = "pool" /\ ab[5] = "t1"
        /\ ab[6] = "ls" /\ Len(ab) = 6
    BY <1>1, <1>5, <2>0
  <2>2. /\ \A n \in 1..6 : abc[n] = ab[n]
        /\ abc[7] = "seg" /\ abc[8] = "alloc" /\ abc[9] = "ip" /\ abc[10] = "rule"
        /\ Len(abc) = 10
    BY <1>3, <1>6, <2>1
  <2>3. Len(tasks) = 15 /\ \A n \in 1..10 : tasks[n] = abc[n]
    BY <1>7, <1>8, <2>0, <2>2
  <2>4. /\ tasks[11] = "lsw" /\ tasks[12] = "prof" /\ tasks[13] = "srv"
        /\ tasks[14] = "port" /\ tasks[15] = "ipp"
    BY <1>7, <1>8, <2>0, <2>2
  <2> QED BY <1>10, <2>1, <2>2, <2>3, <2>4 DEF tasks
<1> QED BY <1>9, <1>10 DEF tasks

\* The same for the version that is determined from the manager.
LEMMA TaskList ==
  /\ Tasks[1] = "t0" /\ Tasks[2] = "tz" /\ Tasks[3] = "ec" /\ Tasks[4] = "pool"
  /\ Tasks[5] = "t1" /\ Tasks[6] = "ls"
  /\ NSXT3 => /\ Len(Tasks) = 11 /\ Tasks[7] = "dhcp" /\ Tasks[8] = "seg"
              /\ Tasks[9] = "alloc" /\ Tasks[10] = "ip" /\ Tasks[11] = "rule"
  /\ ~NSXT3 => /\ Len(Tasks) = 15 /\ Tasks[7] = "seg" /\ Tasks[8] = "alloc"
               /\ Tasks[9] = "ip" /\ Tasks[10] = "rule" /\ Tasks[11] = "lsw"
               /\ Tasks[12] = "prof" /\ Tasks[13] = "srv" /\ Tasks[14] = "port"
               /\ Tasks[15] = "ipp"
  BY TaskListOf, NSXT3Assumption DEF Tasks

\* No task comes twice.
LEMMA TasksDiffer ==
  /\ Len(Tasks) \in Nat \ {0}
  /\ \A m, n \in 1..Len(Tasks) : Tasks[m] = Tasks[n] => m = n
<1> DEFINE rank(k) ==
       CASE k = "t0" -> 1 [] k = "tz" -> 2 [] k = "ec" -> 3 [] k = "pool" -> 4
         [] k = "t1" -> 5 [] k = "ls" -> 6 [] k = "dhcp" -> 7
         [] k = "seg" -> IF NSXT3 THEN 8 ELSE 7
         [] k = "alloc" -> IF NSXT3 THEN 9 ELSE 8
         [] k = "ip" -> IF NSXT3 THEN 10 ELSE 9
         [] k = "rule" -> IF NSXT3 THEN 11 ELSE 10
         [] k = "lsw" -> 11 [] k = "prof" -> 12 [] k = "srv" -> 13
         [] k = "port" -> 14 [] OTHER -> 15
<1>1. Len(Tasks) \in Nat \ {0}
  BY TaskList
<1>2. \A n \in 1..Len(Tasks) : rank(Tasks[n]) = n
  <2>1. /\ rank("t0") = 1 /\ rank("tz") = 2 /\ rank("ec") = 3 /\ rank("pool") = 4
        /\ rank("t1") = 5 /\ rank("ls") = 6 /\ rank("dhcp") = 7
        /\ rank("lsw") = 11 /\ rank("prof") = 12 /\ rank("srv") = 13
        /\ rank("port") = 14 /\ rank("ipp") = 15
    OBVIOUS
  <2>2. CASE NSXT3
    <3>1. rank("seg") = 8 /\ rank("alloc") = 9 /\ rank("ip") = 10 /\ rank("rule") = 11
      BY <2>2
    <3> HIDE DEF rank
    <3>2. Len(Tasks) = 11
      BY <2>2, TaskList
    <3> QED BY <2>1, <2>2, <3>1, <3>2, TaskList
  <2>3. CASE ~NSXT3
    <3>1. rank("seg") = 7 /\ rank("alloc") = 8 /\ rank("ip") = 9 /\ rank("rule") = 10
      BY <2>3
    <3> HIDE DEF rank
    <3>2. Len(Tasks) = 15
      BY <2>3, TaskList
    <3> QED BY <2>1, <2>3, <3>1, <3>2, TaskList
  <2> QED BY <2>2, <2>3
<1> HIDE DEF rank
<1> QED BY <1>1, <1>2

\* What others are built on is among the tasks.
LEMMA BasicTasks ==
  /\ Basic \subseteq Task
  /\ \A k \in Basic : \E n \in 1..Len(Tasks) : Tasks[n] = k
<1>1. \A k \in Required : k \in Task /\ \E n \in DOMAIN Tasks : Tasks[n] = k
  BY DEF Required, RequiredOf, Task
<1>2. DOMAIN Tasks = 1..Len(Tasks)
  BY TasksSeq, LenProperties
<1>3. {4, 5} \subseteq 1..Len(Tasks) /\ Tasks[4] = "pool" /\ Tasks[5] = "t1"
  BY TaskList
<1>4. {"pool", "t1"} \subseteq Task
  BY DEF Task, Lookup, NameLookup, Managed
<1> QED BY <1>1, <1>2, <1>3, <1>4 DEF Basic

\* Going through the tasks forwards and backwards.
LEMMA BeforeAfter ==
  ASSUME NEW n \in 1..Len(Tasks)
  PROVE  /\ Before(1) = {} /\ After(Len(Tasks)) = {}
         /\ Before(n + 1) = Before(n) \union {Tasks[n]}
         /\ n > 1 => After(n - 1) = After(n) \union {Tasks[n]}
         /\ Basic \subseteq Before(Len(Tasks)) \union {Tasks[Len(Tasks)]}
         /\ Basic \subseteq After(1) \union {Tasks[1]}
         /\ Tasks[n] \notin Before(n) /\ Tasks[n] \notin After(n)
<1>1. Before(1) = {} /\ After(Len(Tasks)) = {}
  BY TasksDiffer DEF Before, After
<1>2. Before(n + 1) = Before(n) \union {Tasks[n]}
  BY TasksDiffer DEF Before
<1>3. n > 1 => After(n - 1) = After(n) \union {Tasks[n]}
  BY TasksDiffer DEF After
<1>4. Basic \subseteq Before(Len(Tasks)) \union {Tasks[Len(Tasks)]}
  BY TasksDiffer, BasicTasks DEF Before
<1>5. Basic \subseteq After(1) \union {Tasks[1]}
  BY TasksDiffer, BasicTasks DEF After
<1>6. Tasks[n] \notin Before(n) /\ Tasks[n] \notin After(n)
  BY TasksDiffer DEF Before, After
<1> QED BY <1>1, <1>2, <1>3, <1>4, <1>5, <1>6

\* Each task comes after the tasks whose references it uses.
LEMMA TaskOrder ==
  ASSUME NEW n \in 1..Len(Tasks)
  PROVE  /\ Tasks[n] \in {"ls", "seg", "rule"} => "t1" \in Before(n)
         /\ Tasks[n] = "seg" /\ NSXT3 => "dhcp" \in Before(n)
         /\ Tasks[n] = "alloc" => "pool" \in Before(n)
         /\ Tasks[n] = "rule" => "alloc" \in Before(n)
         /\ Tasks[n] = "srv" => "prof" \in Before(n)
         /\ Tasks[n] \in {"port", "lsw"} => "seg" \in Before(n)
         /\ Tasks[n] \in {"port", "ipp"} => "srv" \in Before(n)
<1>1. ASSUME NEW m \in Nat, m >= 1, m < n
      PROVE  Tasks[m] \in Before(n)
  BY <1>1 DEF Before
<1>2. CASE NSXT3
  <2>1. /\ Len(Tasks) = 11 /\ Tasks[n] \notin {"lsw", "srv", "port", "ipp"}
        /\ Tasks[n] = "ls" => n = 6
        /\ Tasks[n] = "seg" => n = 8
        /\ Tasks[n] = "alloc" => n = 9
        /\ Tasks[n] = "rule" => n = 11
    <3>1. Len(Tasks) = 11
      BY <1>2, TaskList
    <3> QED BY <1>2, <3>1, TaskList
  <2>2. /\ n > 4 => "pool" \in Before(n)
        /\ n > 5 => "t1" \in Before(n)
        /\ n > 7 => "dhcp" \in Before(n)
        /\ n > 9 => "alloc" \in Before(n)
    <3>1. Tasks[4] = "pool" /\ Tasks[5] = "t1" /\ Tasks[7] = "dhcp" /\ Tasks[9] = "alloc"
      BY <1>2, TaskList
    <3> QED BY <1>1, <3>1
  <2> QED BY <2>1, <2>2
<1>3. CASE ~NSXT3
  <2>1. /\ Len(Tasks) = 15
        /\ Tasks[n] = "ls" => n = 6
        /\ Tasks[n] = "seg" => n = 7
        /\ Tasks[n] = "alloc" => n = 8
        /\ Tasks[n] = "rule" => n = 10
        /\ Tasks[n] = "lsw" => n = 11
        /\ Tasks[n] = "srv" => n = 13
        /\ Tasks[n] = "port" => n = 14
        /\ Tasks[n] = "ipp" => n = 15
    <3>1. Len(Tasks) = 15
      BY <1>3, TaskList
    <3> QED BY <1>3, <3>1, TaskList
  <2>2. /\ n > 4 => "pool" \in Before(n)
        /\ n > 5 => "t1" \in Before(n)
        /\ n > 7 => "seg" \in Before(n)
        /\ n > 8 => "alloc" \in Before(n)
        /\ n > 12 => "prof" \in Before(n)
        /\ n > 13 => "srv" \in Before(n)
    <3>1. /\ Tasks[4] = "pool" /\ Tasks[5] = "t1" /\ Tasks[7] = "seg" /\ Tasks[8] = "alloc"
          /\ Tasks[12] = "prof" /\ Tasks[13] = "srv"
      BY <1>3, TaskList
    <3> QED BY <1>1, <3>1
  <2> QED BY <1>3, <2>1, <2>2
<1> QED BY <1>2, <1>3

\* The parent of an object comes before it.
LEMMA ParentBefore ==
  ASSUME NEW n \in 1..Len(Tasks), Tasks[n] \in Required, Parents[Tasks[n]] # "root"
  PROVE  Parents[Tasks[n]] \in Before(n) \intersect Basic
<1> DEFINE k == Tasks[n]
<1>1. k \in Managed
  BY DEF Required, RequiredOf
<1>2. k \in {"ls", "rule", "alloc", "ipp"}
  BY <1>1 DEF Parents
<1>3. CASE k \in {"ls", "rule"}
  <2>1. Parents[k] = "t1" /\ "t1" \in Before(n)
    BY <1>1, <1>3, TaskOrder DEF Parents
  <2>2. "t1" \in Basic
    <3>1. "t1" \in Managed /\ Tasks[5] = "t1" /\ 5 \in DOMAIN Tasks
      BY TaskList, TasksSeq, LenProperties DEF Managed
    <3> QED BY <3>1 DEF Basic, Required, RequiredOf, IsExternal
  <2> QED BY <2>1, <2>2
<1>4. CASE k = "alloc"
  BY <1>1, <1>4, TaskOrder DEF Parents, Basic
<1>5. CASE k = "ipp"
  <2>1. Parents[k] = "srv" /\ "srv" \in Before(n)
    BY <1>1, <1>5, TaskOrder DEF Parents
  <2>2. PICK m \in 1..Len(Tasks) : Tasks[m] = "srv"
    BY <2>1 DEF Before
  <2>3. m \in DOMAIN Tasks
    BY TasksSeq, LenProperties
  <2> QED BY <2>1, <2>2, <2>3 DEF Basic, Required, RequiredOf, IsExternal, Managed, Advanced
<1> QED BY <1>2, <1>3, <1>4, <1>5

\* A managed task is required unless its object is external.
LEMMA RequiredTask ==
  ASSUME NEW n \in 1..Len(Tasks)
  PROVE  Tasks[n] \in Required <=> Tasks[n] \in Managed /\ ~IsExternal(Tasks[n])
<1>1. n \in DOMAIN Tasks
  BY TasksSeq, LenProperties
<1> QED BY <1>1 DEF Required, RequiredOf

\* The parent of an object is among what others are built on.
LEMMA ParentOfRequired ==
  ASSUME NEW k \in Required, Parents[k] # "root"
  PROVE  Parents[k] \in Basic /\ Parents[k] \in Task /\ Parents[k] # k
<1>1. PICK n \in 1..Len(Tasks) : Tasks[n] = k
  BY BasicTasks DEF Basic
<1>2. k \notin Before(n)
  BY <1>1, BeforeAfter
<1> QED BY <1>1, <1>2, ParentBefore, BasicTasks
-----------------------------------------------------------------------------
(* Finding objects.                                                        *)

\* What holds while the tasks run.
TaskInv == /\ EnsurerInv /\ Placed /\ Unique
           /\ Fixed(mem) /\ Agree(mem) /\ want["pool"] = DefaultName

\* An object lives under the reference of its parent, if there is one.
LEMMA ParentFound ==
  ASSUME TaskInv, NEW k \in Required, NEW o \in Own(k),
         Parents[k] # "root" => mem[Parents[k]] # Nil
  PROVE  o.parent = IF Parents[k] = "root" THEN Nil ELSE mem[Parents[k]]
<1> DEFINE p == Parents[k]
<1>1. k \in Managed /\ IsPlace(p, o.parent)
  BY DEF TaskInv, Placed, Required, RequiredOf
<1>2. CASE p = "root"
  BY <1>1, <1>2 DEF IsPlace
<1>3. CASE p # "root"
  <2>1. p \in Basic /\ mem[p] # Nil
    BY <1>3, ParentOfRequired
  <2>2. CASE p = "pool"
    BY <1>1, <2>1, <2>2 DEF IsPlace, TaskInv, Fixed
  <2>3. CASE IsExternal(p)
    <3>1. p = "t1" /\ ExternalT1
      BY <2>1, <2>3 DEF IsExternal, Basic, Required, RequiredOf
    <3>2. o.parent = ExtT1Id
      BY <1>1, <2>3, <3>1 DEF IsPlace
    <3> QED BY <2>1, <3>1, <3>2 DEF TaskInv, Fixed
  <2>4. CASE p # "pool" /\ ~IsExternal(p)
    <3>1. PICK g \in Own(p) : g.id = o.parent
      BY <1>1, <1>3, <2>4 DEF IsPlace
    <3>2. p \in Required
      BY <2>1, <2>4 DEF Basic, IsExternal
    <3>3. mem[p] \in {Nil, g.id}
      BY <3>2 DEF TaskInv, Agree
    <3> QED BY <1>3, <2>1, <3>1, <3>3
  <2> QED BY <2>2, <2>3, <2>4
<1> QED BY <1>2, <1>3

\* Get finds the object of a reference.
LEMMA CurrentIsOwn ==
  ASSUME TaskInv, NEW k \in Required, mem[k] # Nil,
         Parents[k] # "root" => mem[Parents[k]] # Nil
  PROVE  Own(k) \subseteq Current(k)
<1> SUFFICES ASSUME NEW o \in Own(k)
             PROVE  o \in Current(k)
  OBVIOUS
<1>1. o \in nsxt /\ o.kind = k /\ k \in Managed
  BY DEF Own, Required, RequiredOf
<1>2. o.id = mem[k]
  BY DEF TaskInv, Agree
<1>3. o.parent = ParentRef(k)
  <2>1. CASE k = "ls"
    BY <1>1, <1>2, <2>1 DEF TaskInv, Placed, ParentRef
  <2>2. CASE k # "ls"
    BY <2>2, ParentFound DEF ParentRef
  <2> QED BY <2>1, <2>2
<1> QED BY <1>1, <1>2, <1>3 DEF Current, At

\* The search by tags finds the object.
LEMMA RecoverableIsOwn ==
  ASSUME TaskInv, NEW k \in Required
  PROVE  /\ Recoverable(k) \subseteq Own(k)
         /\ (Parents[k] # "root" => mem[Parents[k]] # Nil) => Own(k) \subseteq Recoverable(k)
<1>1. Recoverable(k) \subseteq Own(k)
  BY DEF Recoverable, Tagged, Own
<1>2. ASSUME Parents[k] # "root" => mem[Parents[k]] # Nil, NEW o \in Own(k)
      PROVE  o \in Recoverable(k)
  BY <1>2, ParentFound DEF Recoverable, Tagged, Own
<1> QED BY <1>1, <1>2

\* Nothing lives below what does not exist.
LEMMA NoParentNoObject ==
  ASSUME TaskInv, NEW k \in Required, Parents[k] # "root", Found(Parents[k]),
         mem[Parents[k]] = Nil
  PROVE  Own(k) = {}
<1> DEFINE p == Parents[k]
<1>1. p \in Required /\ Own(p) = {}
  BY DEF Found
<1>2. p # "pool" /\ ~IsExternal(p)
  BY <1>1 DEF Required, RequiredOf, Managed, Advanced
<1>3. k \in Managed
  BY DEF Required, RequiredOf
<1> QED BY <1>1, <1>2, <1>3 DEF TaskInv, Placed, IsPlace
-----------------------------------------------------------------------------
(* Writing and deleting objects.                                           *)

\* Writing the object of a task: it is the only one of its kind, and the
\* others stay where they are.
LEMMA PutObject ==
  ASSUME TaskInv, NEW k \in Required, NEW new \in Object,
         new.kind = k, new.owner = "shoot", new.id > ExtT1Id,
         Own(k) \subseteq At(k, new.parent, new.id),
         IsPlace(Parents[k], new.parent), k = "ls" => new.parent = new.id, Put(new)
  PROVE  /\ Own(k)' = {new} /\ \A j \in Managed \ {k} : Own(j)' = Own(j)
         /\ Placed' /\ Unique'
<1>1. k \in Managed /\ nextId \in Nat /\ new.id \in Nat
  BY DEF Required, RequiredOf, TaskInv, EnsurerInv, EnsurerTypeOK, Object
<1>2. At(k, new.parent, new.id) \subseteq Own(k)
  BY OwnById DEF At, Own, TaskInv
<1>3. nsxt' = (nsxt \ Own(k)) \union {new}
  BY <1>2 DEF Put
<1>4. Own(k)' = {new} /\ \A j \in Managed \ {k} : Own(j)' = Own(j)
  BY <1>3 DEF Own
<1>5. Unique'
  BY <1>4 DEF TaskInv, Unique
<1>6. \A p, ref : IsPlace(p, ref) /\ p \in Managed \union {"root", "pool"} => IsPlace(p, ref)'
  <2> SUFFICES ASSUME NEW p \in Managed \union {"root", "pool"}, NEW ref, IsPlace(p, ref)
               PROVE  IsPlace(p, ref)'
    OBVIOUS
  <2>1. CASE p \in {"root", "pool"} \/ IsExternal(p)
    BY <2>1 DEF IsPlace, IsExternal
  <2>2. CASE p \notin {"root", "pool"} /\ ~IsExternal(p)
    <3>1. PICK g \in Own(p) : g.id = ref
      BY <2>2 DEF IsPlace
    <3>2. \E h \in Own(p)' : h.id = ref
      <4>1. CASE p = k
        BY <1>4, <3>1, <4>1 DEF At
      <4>2. CASE p # k
        BY <1>4, <2>2, <3>1, <4>2
      <4> QED BY <4>1, <4>2
    <3> QED BY <2>2, <3>2 DEF IsPlace, IsExternal
  <2> QED BY <2>1, <2>2
<1>7. \A j \in Managed : Parents[j] \in Managed \union {"root", "pool"}
  BY DEF Parents, Managed, Advanced
<1>8. nextId' \in Nat /\ nextId' >= nextId /\ new.id < nextId'
  BY <1>1 DEF Put
<1>9. Placed'
  <2> SUFFICES ASSUME NEW j \in Managed, NEW o \in Own(j)'
               PROVE  /\ j \in Required /\ o.id < nextId' /\ IsPlace(Parents[j], o.parent)'
                      /\ j = "ls" => o.parent = o.id
    BY DEF Placed, Required, RequiredOf, IsExternal
  <2>1. CASE j = k
    BY <1>1, <1>4, <1>6, <1>7, <1>8, <2>1
  <2>2. CASE j # k
    <3>1. o \in Own(j)
      BY <1>4, <2>2
    <3>2. /\ j \in Required /\ o.id < nextId /\ IsPlace(Parents[j], o.parent)
          /\ j = "ls" => o.parent = o.id
      BY <3>1 DEF TaskInv, Placed
    <3>3. o.id \in Nat
      BY <3>1 DEF Own, TaskInv, EnsurerInv, EnsurerTypeOK, Object
    <3> QED BY <1>1, <1>6, <1>7, <1>8, <3>2, <3>3
  <2> QED BY <2>1, <2>2
<1> QED BY <1>4, <1>5, <1>9

\* Deleting the object of a task, which NSX-T does only if nothing lives below it.
LEMMA RemoveObject ==
  ASSUME Placed, Unique, NEW k \in Required, NEW o \in Own(k), ~Referenced(o, Tracked),
         nsxt' = nsxt \ {o}, UNCHANGED nextId
  PROVE  /\ Own(k)' = {} /\ \A j \in Managed \ {k} : Own(j)' = Own(j)
         /\ Placed' /\ Unique'
<1>1. k \in Managed /\ o \in nsxt /\ o.kind = k /\ ~IsExternal(k)
  BY DEF Required, RequiredOf, Own
<1>2. Own(k) = {o}
  BY <1>1 DEF Unique
<1>3. Own(k)' = {} /\ \A j \in Managed \ {k} : Own(j)' = Own(j)
  BY <1>1, <1>2 DEF Own
<1>4. Unique'
  BY <1>3 DEF Unique
<1>5. Placed'
  <2> SUFFICES ASSUME NEW j \in Managed, NEW p \in Own(j)'
               PROVE  /\ j \in Required /\ p.id < nextId' /\ IsPlace(Parents[j], p.parent)'
                      /\ j = "ls" => p.parent = p.id
    BY DEF Placed, Required, RequiredOf, IsExternal
  <2>1. j # k /\ p \in Own(j)
    BY <1>3
  <2>2. /\ j \in Required /\ p.id < nextId /\ IsPlace(Parents[j], p.parent)
        /\ j = "ls" => p.parent = p.id
    BY <2>1 DEF Placed
  <2>3. IsPlace(Parents[j], p.parent)'
    <3>1. CASE Parents[j] \in {"root", "pool"} \/ IsExternal(Parents[j])
      BY <2>2, <3>1 DEF IsPlace, IsExternal
    <3>2. CASE Parents[j] \notin {"root", "pool"} /\ ~IsExternal(Parents[j])
      <4>1. PICK g \in Own(Parents[j]) : g.id = p.parent
        BY <2>2, <3>2 DEF IsPlace
      <4>2. Parents[j] # k
        <5>1. p \in nsxt /\ p.kind = j /\ p # o
          BY <1>1, <2>1 DEF Own
        <5>2. ASSUME Parents[j] = k
              PROVE  RefersTo(p, o, Tracked)
          <6>1. g = o
            BY <1>2, <4>1, <5>2
          <6>2. ParentOf(p.kind) = Parents[j]
            BY <5>1 DEF ParentOf, Managed, Advanced
          <6> QED BY <1>1, <4>1, <5>2, <6>1, <6>2 DEF RefersTo
        <5> QED BY <5>1, <5>2 DEF Referenced
      <4>3. Parents[j] \in Managed
        BY <3>2 DEF Parents, Managed, Advanced
      <4>4. g \in Own(Parents[j])'
        BY <1>3, <4>1, <4>2, <4>3
      <4> QED BY <3>2, <4>1, <4>4 DEF IsPlace, IsExternal
    <3> QED BY <3>1, <3>2
  <2> QED BY <2>1, <2>2, <2>3
<1> QED BY <1>3, <1>4, <1>5
-----------------------------------------------------------------------------
(* What each operation of a task does to the objects and references.       *)

\* The step changes no objects or references but those of task k.
OnlyTask(k) == /\ \A j \in Managed \ {k} : Own(j)' = Own(j)
               /\ \A j \in Basic \ {k} : mem'[j] = mem[j]

\* No object of the task k is replaced by another.
Keeps(k) == Own(k) # {} => Own(k)' # {} /\ \A o \in Own(k)' : \E p \in Own(k) : o.id = p.id

\* The references in memory agree with the objects again after a step of one task.
LEMMA AgreeStep ==
  ASSUME NEW k, Agree(mem), OnlyTask(k),
         k \in Required => \A o \in Own(k)' : mem'[k] \in {Nil, o.id}
  PROVE  Agree(mem)'
<1> SUFFICES ASSUME NEW j \in Required, NEW o \in Own(j)'
             PROVE  mem'[j] \in {Nil, o.id}
  BY DEF Agree, Required, RequiredOf, IsExternal
<1>1. j \in Managed /\ j \in Basic
  BY DEF Required, RequiredOf, Basic
<1>2. CASE j = k
  BY <1>2
<1>3. CASE j # k
  BY <1>1, <1>3 DEF Agree, OnlyTask
<1> QED BY <1>2, <1>3

\* A lookup or the check of an external gateway writes no object.
LEMMA LookupEffect ==
  ASSUME TaskInv, NEW k \in Task, k \in Lookup \/ (k \in Managed /\ IsExternal(k)),
         NEW res, Ensure(k, res), UNCHANGED want
  PROVE  /\ TaskInv' /\ UNCHANGED nsxtVars /\ \A j \in Task \ {k} : mem'[j] = mem[j]
         /\ res = "ok" /\ k \in Basic => mem'[k] # Nil
         /\ LookupsWork /\ k \in Basic /\ mem[k] = Nil => res = "ok"
         /\ res = "panic" => mem["seg"] = Nil /\ k = "lsw"
<1>1. UNCHANGED nsxtVars
  BY DEF Ensure, EnsureLookup, EnsureExternal, Lookup, NameLookup, Managed, Advanced
<1>2. EnsurerInv'
  BY EnsureInv DEF TaskInv
<1>3. mem \in [Task -> Ref] /\ want \in [Input -> Nat \ {0}] /\ "lsw" # "pool"
  BY DEF TaskInv, EnsurerInv, EnsurerTypeOK
<1>4. /\ \A j \in Task \ {k} : mem'[j] = mem[j]
      /\ mem'["pool"] \in {mem["pool"], DefaultName}
      /\ ExternalT1 => mem'["t1"] \in {mem["t1"], ExtT1Id}
      /\ res = "ok" /\ k \in Basic => mem'[k] # Nil
      /\ LookupsWork /\ k \in Basic /\ mem[k] = Nil => res = "ok"
      /\ res = "panic" => mem["seg"] = Nil /\ k = "lsw"
  <2>0. {"pool", "t1"} \subseteq Task
    BY DEF Task, Lookup, NameLookup, Managed
  <2>1. CASE k \in NameLookup /\ EnsureName(k, res)
    <3>1. k \in Basic => k = "pool"
      BY <2>1 DEF Basic, Required, RequiredOf, NameLookup, Managed, Advanced
    <3>2. \/ mem' = [mem EXCEPT ![k] = want[k]] /\ res = "ok"
          \/ mem' = mem /\ res = "err" /\ "lookup" \in Faults
      BY <2>1 DEF EnsureName, Fault
    <3> QED BY <1>3, <2>0, <2>1, <3>1, <3>2
            DEF TaskInv, LookupsWork, NameLookup, DefaultName, Nil
  <2>2. CASE k = "ip" /\ EnsureAddress(res)
    <3>1. k \notin Basic
      BY <2>2 DEF Basic, Required, RequiredOf, Managed, Advanced
    <3> QED BY <1>3, <2>0, <2>2, <3>1 DEF EnsureAddress
  <2>3. CASE k = "lsw" /\ EnsureLogicalSwitch(res)
    <3>1. k \notin Basic
      BY <2>3 DEF Basic, Required, RequiredOf, Managed, Advanced
    <3> QED BY <1>3, <2>0, <2>3, <3>1 DEF EnsureLogicalSwitch
  <2>4. CASE IsExternal(k) /\ EnsureExternal(k, res)
    <3>1. k \in Basic => k = "t1"
      BY <2>4 DEF Basic, Required, RequiredOf, IsExternal
    <3>2. ExternalT1 /\ k \in {"t1", "ls"}
      BY <2>4 DEF IsExternal
    <3>3. \/ k = "t1" /\ mem' = [mem EXCEPT !["t1"] = ExtT1Id] /\ res = "ok"
          \/ mem' = mem /\ res = "err" /\ (~ShootContext \/ "lookup" \in Faults)
          \/ mem' = mem /\ res = "ok" /\ (k = "ls" \/ mem["t1"] # Nil)
      BY <2>4 DEF EnsureExternal, Fault
    <3> QED BY <1>3, <2>0, <3>1, <3>2, <3>3, ExtT1IdAssumption DEF LookupsWork, Nil
  <2> QED BY <2>1, <2>2, <2>3, <2>4 DEF Ensure, EnsureLookup, Lookup, NameLookup, Managed, Advanced
<1>5. Fixed(mem)'
  BY <1>4 DEF TaskInv, Fixed
<1>6. Placed' /\ Unique'
  BY <1>1 DEF TaskInv, Placed, Unique, Own, IsPlace, Required, RequiredOf, IsExternal, nsxtVars
<1>7. k \notin Required
  BY DEF Required, RequiredOf, Lookup, NameLookup, Managed, Advanced
<1>8. Agree(mem)'
  BY <1>1, <1>4, <1>7 DEF TaskInv, Agree, Own, Required, RequiredOf, IsExternal, nsxtVars, Task
<1> QED BY <1>1, <1>2, <1>4, <1>5, <1>6, <1>8 DEF TaskInv

\* What NSX-T accepts as the parent of an own object is where it belongs.
LEMMA NewObjectInPlace ==
  ASSUME TaskInv, NEW n \in 1..Len(Tasks), NEW k \in Required, k = Tasks[n],
         \A j \in Before(n) \intersect Basic : Resolved(j), Acceptable(NewObject(k))
  PROVE  LET new == NewObject(k)
         IN  IsPlace(Parents[k], new.parent) /\ (k = "ls" => new.parent = new.id)
<1> DEFINE new == NewObject(k)
           p == Parents[k]
<1>1. k \in Managed
  BY DEF Required, RequiredOf
<1>2. new.kind = k /\ (k = "ls" => new.parent = new.id /\ new.parent = mem[p])
       /\ (k # "ls" => new.parent = IF p = "root" THEN Nil ELSE mem[p])
  BY <1>1 DEF NewObject, ParentRef, Parents
<1> HIDE DEF new
<1>3. ASSUME p = "root" PROVE IsPlace(p, new.parent)
  BY <1>1, <1>2, <1>3 DEF IsPlace, Parents
<1>4. ASSUME p # "root" PROVE IsPlace(p, new.parent)
  <2>1. p \in Before(n) \intersect Basic
    BY <1>4, ParentBefore
  <2>2. mem[p] # Nil /\ new.parent = mem[p]
    BY <1>2, <1>4, <2>1 DEF Resolved
  <2>3. CASE p = "pool"
    BY <2>2, <2>3 DEF IsPlace, TaskInv, Fixed
  <2>4. CASE IsExternal(p)
    <3>1. p = "t1" /\ ExternalT1
      BY <2>1, <2>4 DEF IsExternal, Basic, Required, RequiredOf
    <3> QED BY <2>2, <2>4, <3>1 DEF IsPlace, TaskInv, Fixed
  <2>5. CASE p # "pool" /\ ~IsExternal(p)
    <3>1. p \in Required
      BY <2>1, <2>5 DEF Basic, IsExternal
    <3>2. PICK g \in Own(p) : mem[p] = g.id
      BY <2>1, <2>2, <3>1 DEF Resolved, TaskInv, Agree
    <3> QED BY <1>4, <2>2, <2>5, <3>2 DEF IsPlace
  <2> QED BY <2>3, <2>4, <2>5
<1>5. IsPlace(p, new.parent)
  BY <1>3, <1>4
<1> QED BY <1>2, <1>5 DEF new

\* Get by a recorded reference finds only an object of the shoot.
LEMMA OwnCurrent ==
  ASSUME TaskInv, NEW k \in Required, mem[k] # Nil
  PROVE  Current(k) \subseteq Own(k)
<1> SUFFICES ASSUME NEW o \in Current(k) PROVE o \in Own(k)
  OBVIOUS
<1>1. k \in Managed /\ ~IsExternal(k)
  BY DEF Required, RequiredOf
<1>2. o \in nsxt /\ o.kind = k /\ o.id > ExtT1Id
  BY <1>1 DEF Current, At, TaskInv, EnsurerInv, OwnRefs
<1> QED BY <1>2, OwnById DEF Own, TaskInv

\* Create writes the only object of its task, or none.
LEMMA CreateEffect ==
  ASSUME TaskInv, NEW Loss, NothingForgotten(Loss), NEW n \in 1..Len(Tasks), NEW k \in Required, k = Tasks[n],
         \A j \in Before(n) \intersect Basic : Resolved(j),
         Own(k) = {}, k \notin Loss => mem[k] = Nil,
         NEW res, Create(k, res), UNCHANGED want
  PROVE  /\ TaskInv' /\ OnlyTask(k) /\ res # "panic"
         /\ res = "ok" => mem'[k] # Nil /\ Own(k)' # {}
         /\ mem'[k] # Nil /\ k \notin Loss => Own(k)' # {}
<1> DEFINE new == NewObject(k)
<1>1. k \in Managed /\ ~IsExternal(k) /\ k \in Task /\ k # "pool" /\ (ExternalT1 => k # "t1")
  BY DEF Required, RequiredOf, Task, IsExternal, Managed, Advanced
<1>2. EnsurerInv' /\ mem \in [Task -> Ref]
  BY <1>1, CreateInv DEF TaskInv, EnsurerInv, EnsurerTypeOK
<1>3. /\ \A j \in Task \ {k} : mem'[j] = mem[j]
      /\ mem'[k] \in {Nil, mem[k], new.id}
  BY <1>1, <1>2 DEF Create, Forget
<1>4. Fixed(mem)'
  BY <1>1, <1>3 DEF TaskInv, Fixed, Task, Lookup, NameLookup, Managed
<1>5. \A j \in Basic \ {k} : mem'[j] = mem[j]
  BY <1>3, BasicTasks
<1>6. CASE /\ Acceptable(new) /\ Put(new)
           /\ \/ res = "ok" /\ mem' = [mem EXCEPT ![k] = new.id]
              \/ res = "err" /\ Fault("lost") /\ mem' = Forget(k)
  <2>1. new \in Object /\ new.owner = "shoot" /\ new.kind = k /\ new.id > ExtT1Id
    BY <1>1, <1>6, NewObjectOwn DEF TaskInv
  <2>2. IsPlace(Parents[k], new.parent) /\ (k = "ls" => new.parent = new.id)
    BY <1>6, NewObjectInPlace
  <2> HIDE DEF new
  <2>3. Put(new) /\ Own(k) \subseteq At(k, new.parent, new.id)
    BY <1>6
  <2>4. Own(k)' = {new} /\ (\A j \in Managed \ {k} : Own(j)' = Own(j)) /\ Placed' /\ Unique'
    BY <2>1, <2>2, <2>3, PutObject
  <2>5. new.id # Nil
    BY <2>1, ExtT1IdAssumption DEF Nil, Object
  <2>6. mem'[k] \in {Nil, new.id}
    <3>1. CASE mem' = [mem EXCEPT ![k] = new.id]
      BY <1>1, <1>2, <3>1
    <3>2. CASE Fault("lost") /\ mem' = Forget(k)
      <4>1. k = "alloc" => mem[k] = Nil
        <5>1. "lost" \in Faults
          BY <3>2 DEF Fault
        <5> QED BY <5>1 DEF NothingForgotten
      <4> QED BY <1>1, <1>2, <3>2, <4>1 DEF Forget
    <3> QED BY <1>6, <3>1, <3>2
  <2>7. OnlyTask(k)
    BY <1>5, <2>4 DEF OnlyTask
  <2>8. Agree(mem)'
    BY <2>4, <2>6, <2>7, AgreeStep DEF TaskInv
  <2>9. res = "ok" => mem'[k] # Nil
    BY <1>1, <1>2, <1>6, <2>5
  <2> QED BY <1>2, <1>4, <1>6, <2>4, <2>7, <2>8, <2>9 DEF TaskInv
<1>7. CASE res = "err" /\ mem' = Forget(k) /\ UNCHANGED nsxtVars
  <2>1. \A j \in Managed : Own(j)' = Own(j)
    BY <1>7 DEF Own, nsxtVars
  <2>2. Placed' /\ Unique'
    BY <1>7 DEF TaskInv, Placed, Unique, Own, IsPlace, Required, RequiredOf, IsExternal, nsxtVars
  <2>3. OnlyTask(k)
    BY <1>5, <2>1 DEF OnlyTask
  <2>4. Own(k)' = {}
    BY <1>1, <2>1
  <2>5. Agree(mem)'
    BY <2>3, <2>4, AgreeStep DEF TaskInv
  <2>6. mem'[k] # Nil => k \in Loss
    BY <1>1, <1>2, <1>7 DEF Forget
  <2> QED BY <1>2, <1>4, <1>7, <2>2, <2>3, <2>5, <2>6 DEF TaskInv
<1> QED BY <1>6, <1>7, Zenon DEF Create

\* Update changes nothing but the attributes of the object.
LEMMA UpdateEffect ==
  ASSUME TaskInv, NEW k \in Required, mem[k] # Nil, NEW o \in Current(k),
         NEW res, Update(k, o, res), UNCHANGED want
  PROVE  TaskInv' /\ OnlyTask(k) /\ Keeps(k) /\ Own(k)' # {} /\ mem' = mem
<1> DEFINE new == [o EXCEPT !.attrs = DesiredAttrs(k)]
<1>1. k \in Managed /\ ~IsExternal(k)
  BY DEF Required, RequiredOf
<1>2. EnsurerInv' /\ mem' = mem
  BY <1>1, UpdateInv DEF TaskInv, Update
<1>3. o \in Own(k) /\ Own(k) = {o}
  BY <1>1, OwnCurrent DEF TaskInv, Unique
<1>4. o \in Object /\ o.kind = k /\ o.owner = "shoot" /\ o.id > ExtT1Id
  BY <1>3 DEF Own, TaskInv, EnsurerInv, EnsurerTypeOK, OwnIds
<1>5. /\ new \in Object /\ new.kind = k /\ new.owner = "shoot"
      /\ new.id = o.id /\ new.parent = o.parent
  BY <1>1, <1>4, DesiredAttrsType DEF Object, TaskInv, EnsurerInv
<1> HIDE DEF new
<1>6. Placed' /\ Unique' /\ OnlyTask(k) /\ Keeps(k) /\ Own(k)' # {}
  <2>1. CASE Put(new)
    <3>1. IsPlace(Parents[k], new.parent) /\ (k = "ls" => new.parent = new.id)
      BY <1>1, <1>3, <1>5 DEF TaskInv, Placed
    <3>2. Own(k) \subseteq At(k, new.parent, new.id)
      BY <1>3, <1>4, <1>5 DEF At, Own
    <3>3. Own(k)' = {new} /\ (\A j \in Managed \ {k} : Own(j)' = Own(j)) /\ Placed' /\ Unique'
      BY <1>4, <1>5, <2>1, <3>1, <3>2, PutObject
    <3> QED BY <1>2, <1>3, <1>5, <3>3 DEF OnlyTask, Keeps
  <2>2. CASE UNCHANGED nsxtVars
    <3>1. \A j \in Managed : Own(j)' = Own(j)
      BY <2>2 DEF Own, nsxtVars
    <3>2. Placed' /\ Unique'
      BY <2>2 DEF TaskInv, Placed, Unique, Own, IsPlace, Required, RequiredOf, IsExternal, nsxtVars
    <3> QED BY <1>1, <1>2, <1>3, <3>1, <3>2 DEF OnlyTask, Keeps
  <2> QED BY <2>1, <2>2 DEF Update, new
<1>7. Agree(mem)'
  <2>1. \A p \in Own(k)' : mem'[k] \in {Nil, p.id}
    BY <1>2, <1>3, <1>6 DEF Keeps, TaskInv, Agree
  <2> QED BY <1>6, <2>1, AgreeStep DEF TaskInv
<1> QED BY <1>2, <1>6, <1>7 DEF TaskInv, Fixed

\* Ensure of the next task: when all tasks before it are done it neither
\* creates an object that exists nor panics.
LEMMA EnsureEffect ==
  ASSUME TaskInv, NEW Loss, NothingForgotten(Loss), NEW n \in 1..Len(Tasks), NEW k \in Task, k = Tasks[n],
         \A j \in Before(n) \intersect Basic : Resolved(j),
         k \in Required /\ mem[k] = Nil => Own(k) = {},
         k \in Required \ Loss /\ mem[k] # Nil => Own(k) # {},
         NEW res, Ensure(k, res), UNCHANGED want
  PROVE  /\ TaskInv' /\ OnlyTask(k) /\ res # "panic"
         /\ k \in Required => Keeps(k)
         /\ k \notin Required => UNCHANGED nsxtVars
         /\ res = "ok" /\ k \in Basic => mem'[k] # Nil /\ (k \in Required => Own(k)' # {})
         /\ k \in Required \ Loss /\ mem'[k] # Nil => Own(k)' # {}
<1>1. CASE k \in Lookup \/ (k \in Managed /\ IsExternal(k))
  <2>1. k \notin Required
    BY <1>1 DEF Required, RequiredOf, Lookup, NameLookup, Managed, Advanced
  <2>2. /\ TaskInv' /\ UNCHANGED nsxtVars /\ \A j \in Task \ {k} : mem'[j] = mem[j]
        /\ res = "ok" /\ k \in Basic => mem'[k] # Nil
        /\ res = "panic" => mem["seg"] = Nil /\ k = "lsw"
    BY <1>1, LookupEffect
  <2>3. OnlyTask(k)
    BY <2>2, BasicTasks DEF OnlyTask, Own, nsxtVars
  <2>4. k = "lsw" => mem["seg"] # Nil
    <3>1. k = "lsw" => "seg" \in Before(n)
      BY TaskOrder
    <3>2. "seg" \in Before(n) => "seg" \in Basic
      BY TasksSeq, LenProperties DEF Before, Basic, Required, RequiredOf, IsExternal, Managed
    <3> QED BY <3>1, <3>2 DEF Resolved
  <2> QED BY <2>1, <2>2, <2>3, <2>4
<1>2. CASE k \in Required /\ EnsureObject(k, res)
  <2>0. k \in Managed /\ ~IsExternal(k) /\ k \in Basic /\ EnsurerInv'
    BY <1>2, EnsureInv DEF Required, RequiredOf, Basic, TaskInv
  <2>1. Parents[k] # "root" => mem[Parents[k]] # Nil
    BY <1>2, ParentBefore DEF Resolved
  <2>2. mem[k] # Nil => Own(k) = Current(k)
    BY <1>2, <2>1, CurrentIsOwn, OwnCurrent
  <2>3. CASE Create(k, res) /\ (mem[k] = Nil \/ Current(k) = {})
    <3>1. Own(k) = {} /\ (k \notin Loss => mem[k] = Nil)
      BY <1>2, <2>2, <2>3
    <3>2. /\ TaskInv' /\ OnlyTask(k) /\ res # "panic"
          /\ res = "ok" => mem'[k] # Nil /\ Own(k)' # {}
          /\ mem'[k] # Nil /\ k \notin Loss => Own(k)' # {}
      BY <1>2, <2>3, <3>1, CreateEffect
    <3> QED BY <1>2, <3>1, <3>2 DEF Keeps
  <2>4. CASE k = "ls" /\ mem[k] # Nil /\ Current(k) = {}
    <3>1. k \in Loss
      BY <1>2, <2>2, <2>4
    <3> QED BY <2>4, <3>1 DEF NothingForgotten
  <2>5. ASSUME mem[k] # Nil, NEW o \in Current(k), Update(k, o, res)
        PROVE  TaskInv' /\ OnlyTask(k) /\ Keeps(k) /\ Own(k)' # {} /\ mem' = mem /\ res # "panic"
    BY <1>2, <2>5, UpdateEffect DEF Update
  <2>6. CASE mem[k] # Nil /\ UNCHANGED <<mem, nsxtVars>> /\ res # "panic"
             /\ (res = "ok" => Current(k) # {})
    <3>1. \A j \in Managed : Own(j)' = Own(j)
      BY <2>6 DEF Own, nsxtVars
    <3>2. Placed' /\ Unique' /\ Agree(mem)'
      BY <2>6 DEF TaskInv, Placed, Unique, Agree, Own, IsPlace, Required, RequiredOf, IsExternal, nsxtVars
    <3>3. TaskInv'
      BY <2>0, <2>6, <3>2 DEF TaskInv, Fixed
    <3> QED BY <1>2, <2>0, <2>2, <2>6, <3>1, <3>3 DEF OnlyTask, Keeps
  <2> QED BY <1>2, <2>3, <2>4, <2>5, <2>6 DEF EnsureObject
<1>3. k \in Required <=> k \in Managed /\ ~IsExternal(k)
  BY RequiredTask
<1> QED BY <1>1, <1>2, <1>3 DEF Ensure

\* tryRecover of a task without reference finds its object.
LEMMA RecoverEffect ==
  ASSUME TaskInv, "list" \notin Faults, NEW k \in Required, mem[k] = Nil,
         NEW res, RecoverObject(k, res), UNCHANGED want
  PROVE  /\ TaskInv' /\ UNCHANGED nsxtVars /\ OnlyTask(k)
         /\ \A o \in Own(k) : mem'[k] \in {Nil, o.id}
         /\ Own(k) = {} => mem'[k] = Nil
         /\ (Parents[k] # "root" => mem[Parents[k]] # Nil) /\ Own(k) # {} => mem'[k] # Nil
<1>1. k \in Managed /\ ~IsExternal(k) /\ k \in Task /\ k # "pool" /\ (ExternalT1 => k # "t1")
  BY DEF Required, RequiredOf, Task, IsExternal, Managed, Advanced
<1>2. UNCHANGED nsxtVars
  BY DEF RecoverObject
<1>3. EnsurerInv' /\ mem \in [Task -> Ref]
  <2>1. tryRecover(k, FALSE, res)
    BY <1>1 DEF tryRecover
  <2> QED BY <1>1, <2>1, RecoverInv DEF TaskInv, EnsurerInv, EnsurerTypeOK
<1>4. \/ \E o \in Recoverable(k) : mem' = [mem EXCEPT ![k] = o.id]
      \/ Recoverable(k) = {} /\ mem' = mem
  BY DEF RecoverObject, Fault
<1>5. \A j \in Task \ {k} : mem'[j] = mem[j]
  BY <1>3, <1>4
<1>6. /\ \A o \in Own(k) : mem'[k] \in {Nil, o.id}
      /\ Own(k) = {} => mem'[k] = Nil
      /\ Own(k) \subseteq Recoverable(k) /\ Own(k) # {} => mem'[k] # Nil
  <2>1. \A o \in Own(k) : o.id # Nil
    BY NoNilObject DEF Own, TaskInv
  <2>2. Recoverable(k) \subseteq Own(k) /\ (\A o, p \in Own(k) : o = p)
    BY <1>1, RecoverableIsOwn DEF TaskInv, Unique
  <2> QED BY <1>1, <1>3, <1>4, <2>1, <2>2
<1>7. \A j \in Managed : Own(j)' = Own(j)
  BY <1>2 DEF Own, nsxtVars
<1>8. OnlyTask(k)
  BY <1>5, <1>7, BasicTasks DEF OnlyTask
<1>9. Agree(mem)'
  <2>1. \A o \in Own(k)' : mem'[k] \in {Nil, o.id}
    BY <1>1, <1>6, <1>7
  <2> QED BY <1>8, <2>1, AgreeStep DEF TaskInv
<1>10. Placed' /\ Unique'
  BY <1>2 DEF TaskInv, Placed, Unique, Own, IsPlace, Required, RequiredOf, IsExternal, nsxtVars
<1>11. Fixed(mem)'
  BY <1>1, <1>5 DEF TaskInv, Fixed, Task, Lookup, NameLookup, Managed
<1> QED BY <1>2, <1>3, <1>6, <1>8, <1>9, <1>10, <1>11, RecoverableIsOwn DEF TaskInv

\* EnsureDeleted removes the object of its task or leaves it.
LEMMA DeleteEffect ==
  ASSUME TaskInv, NEW n \in 1..Len(Tasks), NEW k \in Task, k = Tasks[n],
         NEW res, EnsureDeleted(k, res), UNCHANGED want
  PROVE  /\ TaskInv' /\ OnlyTask(k)
         /\ k \in Required => Own(k)' \in {{}, Own(k)}
         /\ k \notin Required => UNCHANGED nsxtVars /\ \A j \in Basic : mem'[j] = mem[j]
         /\ (\A j \in Basic : Found(j)) /\ k \in Required =>
              (res = "ok" \/ mem'[k] = Nil => Own(k)' = {})
<1>0. EnsurerInv' /\ mem \in [Task -> Ref]
  BY DeletedInv DEF TaskInv, EnsurerInv, EnsurerTypeOK
<1>1. CASE /\ UNCHANGED <<mem, nsxtVars>>
           /\ k \in Lookup \/ IsExternal(k) \/ mem[k] = Nil \/ res # "ok"
  <2>1. \A j \in Managed : Own(j)' = Own(j)
    BY <1>1 DEF Own, nsxtVars
  <2>2. Placed' /\ Unique' /\ Agree(mem)'
    BY <1>1 DEF TaskInv, Placed, Unique, Agree, Own, IsPlace, Required, RequiredOf, IsExternal, nsxtVars
  <2>3. k \in Required => k \in Managed /\ k \in Basic /\ ~IsExternal(k) /\ k \notin Lookup
    BY DEF Required, RequiredOf, Basic, Managed, Advanced, Lookup, NameLookup
  <2>4. TaskInv'
    BY <1>0, <1>1, <2>2 DEF TaskInv, Fixed
  <2> QED BY <1>1, <2>1, <2>3, <2>4 DEF OnlyTask, Found
<1>2. ASSUME mem' \in {mem, Drop(k)}, k \in Managed, ~IsExternal(k)
      PROVE  /\ \A j \in Basic \ {k} : mem'[j] = mem[j]
             /\ k \in Required /\ mem'[k] \in {Nil, mem[k]} /\ Fixed(mem)'
  <2>1. k \in Required /\ "ip" \notin Basic /\ k # "pool" /\ (ExternalT1 => k # "t1")
    BY <1>2, RequiredTask DEF Basic, Required, RequiredOf, Managed, Advanced, IsExternal
  <2>2. {"pool", "t1"} \subseteq Task
    BY DEF Task, Lookup, NameLookup, Managed
  <2>3. \A j \in Task \ {k, "ip"} : mem'[j] = mem[j]
    BY <1>2 DEF Drop
  <2>4. mem'[k] \in {Nil, mem[k]}
    BY <1>2 DEF Drop
  <2> QED BY <2>1, <2>2, <2>3, <2>4, BasicTasks DEF TaskInv, Fixed
<1>3. CASE /\ k \in Managed /\ ~IsExternal(k) /\ mem[k] # Nil /\ Current(k) = {}
           /\ UNCHANGED nsxtVars /\ mem' = Drop(k)
  <2>1. /\ \A j \in Basic \ {k} : mem'[j] = mem[j]
        /\ k \in Required /\ mem'[k] \in {Nil, mem[k]} /\ Fixed(mem)'
    BY <1>2, <1>3
  <2>2. \A j \in Managed : Own(j)' = Own(j)
    BY <1>3 DEF Own, nsxtVars
  <2>3. OnlyTask(k)
    BY <2>1, <2>2 DEF OnlyTask
  <2>4. Placed' /\ Unique'
    BY <1>3 DEF TaskInv, Placed, Unique, Own, IsPlace, Required, RequiredOf, IsExternal, nsxtVars
  <2>5. Agree(mem)'
    <3>1. \A o \in Own(k)' : mem'[k] \in {Nil, o.id}
      BY <1>3, <2>1, <2>2 DEF TaskInv, Agree
    <3> QED BY <2>3, <3>1, AgreeStep DEF TaskInv
  <2>6. (\A j \in Basic : Found(j)) => Own(k) = {}
    <3>1. CASE Parents[k] # "root" => mem[Parents[k]] # Nil
      BY <1>3, <2>1, <3>1, CurrentIsOwn
    <3>2. CASE Parents[k] # "root" /\ mem[Parents[k]] = Nil
      BY <2>1, <3>2, ParentOfRequired, NoParentNoObject
    <3> QED BY <3>1, <3>2
  <2> QED BY <1>0, <1>3, <2>1, <2>2, <2>3, <2>4, <2>5, <2>6 DEF TaskInv
<1>4. CASE /\ k \in Managed /\ ~IsExternal(k) /\ mem[k] # Nil
           /\ \E o \in Current(k) : /\ ~Referenced(o, Tracked) /\ nsxt' = nsxt \ {o}
                                    /\ UNCHANGED nextId /\ mem' \in {mem, Drop(k)}
  <2>1. PICK o \in Current(k) : /\ ~Referenced(o, Tracked) /\ nsxt' = nsxt \ {o}
                                /\ UNCHANGED nextId /\ mem' \in {mem, Drop(k)}
    BY <1>4
  <2>2. /\ \A j \in Basic \ {k} : mem'[j] = mem[j]
        /\ k \in Required /\ mem'[k] \in {Nil, mem[k]} /\ Fixed(mem)'
    BY <1>2, <1>4, <2>1
  <2>3. o \in Own(k)
    BY <1>4, <2>2, OwnCurrent
  <2>4. /\ Own(k)' = {} /\ \A j \in Managed \ {k} : Own(j)' = Own(j)
        /\ Placed' /\ Unique'
    BY <2>1, <2>2, <2>3, RemoveObject DEF TaskInv
  <2>5. OnlyTask(k)
    BY <2>2, <2>4 DEF OnlyTask
  <2>6. Agree(mem)'
    BY <2>4, <2>5, AgreeStep DEF TaskInv
  <2> QED BY <1>0, <2>2, <2>4, <2>5, <2>6 DEF TaskInv
<1> QED BY <1>1, <1>3, <1>4 DEF EnsureDeleted, DeleteMissing, DeleteObject, nsxtVars
=============================================================================
