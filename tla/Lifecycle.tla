------------------------------ MODULE Lifecycle ------------------------------
(***************************************************************************)
(* What the infrastructure controller promises about the objects of one    *)
(* shoot, without saying how: which kinds of objects exist, and when that  *)
(* may change.                                                             *)
(***************************************************************************)
CONSTANTS
  Kinds,    \* the kinds of objects a shoot needs
  Needs     \* for each kind, the kinds its object is built on

VARIABLES
  present,    \* the kinds of which an object exists
  recorded,   \* a state has been persisted
  requested,  \* deletion has been requested
  gone        \* the resource has vanished

vars == <<present, recorded, requested, gone>>

Init == present = {} /\ recorded = FALSE /\ requested = FALSE /\ gone = FALSE

\* An object is created on top of what it needs.
Create(k) ==
  /\ ~gone /\ k \notin present /\ Needs[k] \intersect Kinds \subseteq present
  /\ present' = present \union {k} /\ UNCHANGED <<recorded, requested, gone>>

\* An object is deleted when deletion is requested and nothing needs it.
Remove(k) ==
  /\ ~gone /\ requested /\ k \in present
  /\ \A j \in present \ {k} : k \notin Needs[j]
  /\ present' = present \ {k} /\ UNCHANGED <<recorded, requested, gone>>

Record  == ~gone /\ recorded' = TRUE /\ UNCHANGED <<present, requested, gone>>
Request == requested' = TRUE /\ UNCHANGED <<present, recorded, gone>>

\* Only before anything is recorded can the resource vanish with objects left.
Vanish ==
  /\ recorded => present = {}
  /\ requested
  /\ gone' = TRUE /\ UNCHANGED <<present, recorded, requested>>

Next == \/ \E k \in Kinds : Create(k) \/ Remove(k)
        \/ Record \/ Request \/ Vanish

Spec == Init /\ [][Next]_vars
=============================================================================
