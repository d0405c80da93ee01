------------------------------- MODULE PoolTags -------------------------------
(***************************************************************************)
(* The tags by which an NSX-T object is shared with shoots of a garden.    *)
(* A value is the list of its parts between commas, and a part is the set  *)
(* of names it matches: itself, or what its wildcards match; a pattern     *)
(* that is no regular expression matches nothing. NSX-T keeps the tags in  *)
(* a list, in which a scope can come twice.                                *)
(***************************************************************************)
EXTENDS Naturals, Sequences, SequencesExt, FiniteSetsExt

CONSTANTS
  GardenID, Shoot,                    \* this garden, and the shoot's namespace
  ScopeGarden, ScopeAuthorizedShoots, \* scopes of tags
  TagLists                            \* the lists of tags that an object can have

Tag(scope, value) == [scope |-> scope, value |-> value]

ASSUME TagListsAssumption ==
  \A list \in TagLists :
    /\ list \in Seq(ToSet(list))
    /\ \A t \in ToSet(list) : t = Tag(t.scope, t.value)

\* The last tag of a scope counts.
TagsToMap(tags) ==
  [s \in {t.scope : t \in ToSet(tags)} |->
     tags[Max({k \in DOMAIN tags : tags[k].scope = s})].value]

Value(map, scope) == IF scope \in DOMAIN map THEN map[scope] ELSE <<>>

\* Mutant: the garden of the tags is not compared.
CheckShootAuthorizationByTags_AnyGarden(map) ==
  /\ Value(map, ScopeGarden) # <<>>
  /\ \E part \in ToSet(Value(map, ScopeAuthorizedShoots)) : Shoot \in part

CheckShootAuthorizationByTags(map) ==
  /\ Value(map, ScopeGarden) = << {GardenID} >>
  /\ \E part \in ToSet(Value(map, ScopeAuthorizedShoots)) : Shoot \in part

\* What the tags are meant to say: this garden tagged the object, for this shoot.
Shares(tags) ==
  /\ Tag(ScopeGarden, << {GardenID} >>) \in ToSet(tags)
  /\ \E t \in ToSet(tags) : /\ t.scope = ScopeAuthorizedShoots
                            /\ Shoot \in UNION ToSet(t.value)
===============================================================================
