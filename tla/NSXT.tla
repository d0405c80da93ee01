-------------------------------- MODULE NSXT --------------------------------
(***************************************************************************)
(* The NSX-T manager as the ensurer uses it: a set of objects, each with a *)
(* path (kind, parent, id), tags that name the owning shoot and the        *)
(* attributes the ensurer compares.  It hands out fresh ids (the code      *)
(* generates UUIDs), rejects objects with dangling references and refuses  *)
(* to delete an object that others are built on.                           *)
(***************************************************************************)
EXTENDS NSXTTasks

VARIABLES
  nsxt,     \* the set of existing objects
  nextId    \* every id in use is smaller

nsxtVars == <<nsxt, nextId>>

\* "lb": left-overs of the load balancer controller, attached to the tier-1 gateway
Kind  == Managed \union {"lb"}
\* who the garden and shoot tags name: this shoot, or someone else
Owner == {"shoot", "other"}
Object == [kind: Kind, id: Nat, parent: Nat, owner: Owner, attrs: [Attr -> Ref]]

ParentOf(k) == IF k = "lb" THEN "root" ELSE Parents[k]

\* What a Get of that path returns: no object or one.
At(k, parent, id) == {o \in nsxt : o.kind = k /\ o.parent = parent /\ o.id = id}

Exists(k, id) == \E o \in nsxt : o.kind = k /\ o.id = id

Own(k)  == {o \in nsxt : o.kind = k /\ o.owner = "shoot"}
AllOwn  == {o \in nsxt : o.owner = "shoot"}
Foreign == {o \in nsxt : o.owner = "other"}

\* Mutant: the tags of the listed objects are not compared.
Tagged_AnyOwner(k, parent) == {o \in nsxt : o.kind = k /\ o.parent = parent}

\* What a List below parent returns that carries the garden and shoot tags.
Tagged(k, parent) == {o \in nsxt : /\ o.kind = k
                                   /\ o.parent = parent
                                   /\ o.owner = "shoot"}

\* NSX-T keeps track of paths and ids, not of the address in a SNAT rule.
Tracked == Attr \ {"ip"}

\* p lives below o or has one of the attributes in A point to o.
RefersTo(p, o, A) ==
  \/ ParentOf(p.kind) = o.kind /\ p.parent = o.id
  \/ \E a \in A : Target(a) = o.kind /\ p.attrs[a] = o.id

Referenced(o, A) == \E p \in nsxt : p # o /\ RefersTo(p, o, A)

\* NSX-T accepts an object only if its parent and all it points to exist.
Acceptable(o) ==
  /\ ParentOf(o.kind) \in Managed => Exists(ParentOf(o.kind), o.parent)
  /\ \A a \in Tracked : Target(a) \in Managed /\ o.attrs[a] # Nil
                          => Exists(Target(a), o.attrs[a])

\* Writing an object at its path replaces what was there.
Put(o) ==
  /\ nsxt' = (nsxt \ At(o.kind, o.parent, o.id)) \union {o}
  /\ nextId' = IF o.id < nextId THEN nextId ELSE o.id + 1
=============================================================================
