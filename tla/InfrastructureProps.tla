------------------------- MODULE InfrastructureProps -------------------------
(***************************************************************************)
(* What the infrastructure controller has to guarantee.  Which of these    *)
(* hold depends on the faults that can occur; the MC configurations say    *)
(* under which each of them is checked.                                    *)
(***************************************************************************)
EXTENDS Infrastructure

OwnManaged == UNION {Own(k) : k \in Managed}

\* Objects the controller can reach: a reference is recorded, or the search
\* by tags finds them because none is.
Reaches(refs, o) == refs[o.kind] \in {o.id, Nil}

-----------------------------------------------------------------------------
(* Safety.                                                                 *)

\* Nothing is created in NSX-T before creationStarted = TRUE is persisted
\* (the early updateProviderStatus in actuator.reconcile); otherwise a
\* deletion would take the shoot for one that never got that far.
StartedBeforeCreated == OwnManaged # {} => started

\* Whatever tasks fail and wherever the process crashes, an object is not
\* created a second time: the recovery by tags finds the first.
NoDuplicates == \A k \in Managed : Cardinality(Own(k)) <= 1

\* Once a state has been persisted, a deletion that reports success has
\* removed every object, recorded or not.
NothingLeftBehind == gone /\ hasState => OwnManaged = {}

\* A deletion that reports success has removed every object, also when no
\* state was ever persisted.
NothingLeftBehindEver == gone => OwnManaged = {}

\* No object of the shoot is out of reach of both the recorded reference and
\* the search by tags.
NoOrphans == pc = "idle" => \A o \in OwnManaged : Reaches(saved, o)

\* o has the attributes and the place that the current inputs ask for.
UpToDate(o) ==
  LET Points(a, v) == IF a \in Input THEN v = inputs[a]
                      ELSE IF IsExternal(a) THEN v = ExtT1Id
                      ELSE \E t \in Own(Target(a)) : t.id = v
  IN  /\ \A a \in Uses[o.kind] : Points(a, o.attrs[a])
      /\ ParentOf(o.kind) # "root" => Points(ParentOf(o.kind), o.parent)

Complete == \A k \in Required : Own(k) # {} /\ (\A o \in Own(k) : UpToDate(o))

\* A reconciliation is reported as succeeded only if every object exists, is
\* built on the others and has been updated to the inputs it started with.
SuccessMeansComplete ==
  [][pc = "save" /\ lastOp' = "Succeeded" /\ want = inputs => Complete]_vars

-----------------------------------------------------------------------------
(* The abstract specification which the controller implements.             *)

Depends == [k \in Managed |->
  {Target(a) : a \in {b \in Uses[k] : Target(b) \in Required}}
    \union ({Parents[k]} \intersect Required)]

Abstract == INSTANCE Lifecycle WITH
  Kinds     <- Required,
  Needs     <- Depends,
  present   <- {k \in Required : Own(k) # {}},
  recorded  <- hasState,
  requested <- deleting

\* The controller implements the life cycle: objects appear and disappear in
\* an order in which every object that exists has all it is built on, none
\* disappears unless deletion was requested, and the resource vanishes when
\* none is left.
Promise == Abstract!Spec

-----------------------------------------------------------------------------
(* Liveness, under FairSpec: faults end, at the latest with MaxFaults.     *)

\* With credentials that work in the end, the infrastructure is in the end
\* complete and stays so, unless its deletion is requested.
Converges == <>[]credentials => <>[](Complete \/ deleting)

\* With credentials that work in the end, a requested deletion ends.
DeletionEnds == <>[]credentials => (deleting ~> gone)

\* A shoot whose creation has not started can be deleted, also when its
\* credentials never work.
DeletableWithoutCredentials ==
  (deleting /\ ~started /\ pc = "idle") ~> gone
=============================================================================
