------------------------------- MODULE IPPools -------------------------------
(***************************************************************************)
(* The IP pools of an NSX-T manager and the allocations in them. A         *)
(* controller looks up the pool of its shoot by name and searches the      *)
(* shoot's allocation in it by tags, page by page, before it allocates.    *)
(* Meanwhile operators create and delete pools with the command line tool, *)
(* and other shoots allocate and release addresses.                        *)
(***************************************************************************)
EXTENDS Listing

CONSTANTS
  PoolName,        \* names of pools; the policy API uses the name as id
  SNATPool,        \* the name of the pool of this shoot
  Client,          \* operators at the command line
  MaxCommands,     \* how many commands they run
  MaxAllocations   \* how many addresses other shoots allocate

ASSUME PoolNameAssumption ==
  PoolName \subseteq Nat \ {0} /\ IsFiniteSet(PoolName) /\ SNATPool \in PoolName
ASSUME CommandsAssumption == MaxCommands \in Nat /\ MaxAllocations \in Nat

VARIABLES
  pools,      \* records of id, name and whether the pool has a subnet
  allocs,     \* records of id, pool and whether it is of this shoot
  ctl,        \* what the controller does next
  search,     \* its search
  poolRef,    \* the id of the pool it has found
  ended,      \* how its last search ended
  kept,       \* history: what it searches and has existed since it began
  grown,      \* history: an object was added to the list since then
  cli,        \* what each operator's command does next, and on which pool
  commands, allocated,   \* how many there were
  reported    \* history: names on which a command has failed since one was completed

ctlVars  == <<ctl, search, poolRef, ended>>
histVars == <<kept, grown>>
cliVars  == <<cli, commands, reported>>
vars     == <<pools, allocs, ctlVars, histVars, cliVars, allocated>>

NoPool == 0
Resting == [pc |-> "idle", pool |-> NoPool]
Ids == 1..(MaxAllocations + 2)

Init ==
  /\ \E S \in SUBSET PoolName : pools = {[id |-> n, name |-> n, subnet |-> TRUE] : n \in S}
  /\ allocs = {}
  /\ ctl = "idle" /\ search = Started /\ poolRef = NoPool /\ ended = "none"
  /\ kept = {} /\ grown = FALSE
  /\ cli = [c \in Client |-> Resting] /\ commands = 0 /\ allocated = 0 /\ reported = {}

PoolIds  == {p.id : p \in pools}
Named(name)   == {p \in pools : p.name = name}
Mine(objects) == {o \in objects : o.mine}
In(pool) == {a \in allocs : a.pool = pool}

\* The id is random: it can come anywhere in the order of the list.
AddAllocation(pool, mine) ==
  \E id \in Ids \ {a.id : a \in allocs} :
    allocs' = allocs \union {[id |-> id, pool |-> pool, mine |-> mine]}

-----------------------------------------------------------------------------
(* The controller: look-up of the pool, tryRecover and Ensure of the       *)
(* allocation.                                                             *)

StartSearch(next, matching) ==
  /\ ctl' = next /\ search' = Started /\ ended' = "none"
  /\ kept' = {o.id : o \in matching} /\ grown' = FALSE

EndSearch(next, how) ==
  /\ ctl' = next /\ search' = Started /\ ended' = how
  /\ IF how = "missing" THEN UNCHANGED histVars ELSE kept' = {} /\ grown' = FALSE

LookupPool ==
  /\ ctl = "idle" /\ StartSearch("lookup", Named(SNATPool)) /\ poolRef' = NoPool
  /\ UNCHANGED <<pools, allocs, cliVars, allocated>>

LookupNextPage ==
  LET p == LookupPage(pools, search, Named(SNATPool)) IN
  /\ ctl = "lookup"
  /\ \/ /\ p.end = "found" /\ poolRef' = p.object
        /\ StartSearch("recover", Mine(In(p.object)))
     \/ p.end = "missing" /\ EndSearch("idle", "missing") /\ UNCHANGED poolRef
     \/ /\ p.end = "more" /\ search' = p.search
        /\ UNCHANGED <<ctl, ended, poolRef, histVars>>
  /\ UNCHANGED <<pools, allocs, cliVars, allocated>>

RecoverNextPage ==
  LET p == RecoverPage(In(poolRef), search, Mine(In(poolRef))) IN
  /\ ctl = "recover"
  /\ \/ p.end = "found" /\ EndSearch("idle", "found")
     \/ p.end = "missing" /\ EndSearch("allocate", "missing")
     \/ p.end = "more" /\ search' = p.search /\ UNCHANGED <<ctl, ended, histVars>>
  /\ UNCHANGED <<pools, allocs, poolRef, cliVars, allocated>>

\* A failing list ends the look-up with an error, but the search by tags as
\* if there were nothing to find.
ListFails ==
  /\ \/ ctl = "lookup" /\ EndSearch("idle", "error")
     \/ ctl = "recover" /\ EndSearch("allocate", "error")
  /\ UNCHANGED <<pools, allocs, poolRef, cliVars, allocated>>

\* NSX-T accepts an allocation only in a pool that exists.
Allocate ==
  /\ ctl = "allocate" /\ ctl' = "idle"
  /\ \/ poolRef \in PoolIds /\ AddAllocation(poolRef, TRUE)
     \/ UNCHANGED allocs
  /\ UNCHANGED <<pools, search, poolRef, ended, histVars, cliVars, allocated>>

-----------------------------------------------------------------------------
(* createIPPool and deleteIPPool of the command line tool, policy API.     *)

Goto(c, step, pool) == cli' = [cli EXCEPT ![c] = [pc |-> step, pool |-> pool]]

At(c, step) == cli[c].pc = step

Fail(c, pool)    == Goto(c, "idle", NoPool) /\ reported' = reported \union {pool}
Succeed(c, pool) == Goto(c, "idle", NoPool) /\ reported' = reported \ {pool}

Start(c) == At(c, "idle") /\ commands < MaxCommands /\ commands' = commands + 1

\* Get: a pool with that id must not exist.
CreatePool(c) ==
  /\ Start(c)
  /\ \E n \in PoolName : IF n \in PoolIds THEN Fail(c, n)
                         ELSE Goto(c, "update", n) /\ UNCHANGED reported
  /\ UNCHANGED pools

\* Update writes the pool, but not over one that another command has created.
UpdatePool(c) ==
  LET n == cli[c].pool IN
  /\ At(c, "update")
  /\ \/ /\ n \notin PoolIds
        /\ pools' = pools \union {[id |-> n, name |-> n, subnet |-> FALSE]}
        /\ Goto(c, "patch", n) /\ UNCHANGED reported
     \/ UNCHANGED pools /\ Fail(c, n)
  /\ UNCHANGED commands

\* Mutant: the error of Patch is not returned.
PatchSubnet_Quiet(c) ==
  /\ At(c, "patch") /\ Succeed(c, cli[c].pool) /\ UNCHANGED <<pools, commands>>

\* Patch adds the subnet, unless the pool has gone, the ranges are invalid or
\* the call fails.
PatchSubnet(c) ==
  LET n == cli[c].pool IN
  /\ At(c, "patch")
  /\ \/ /\ n \in PoolIds /\ Succeed(c, n)
        /\ pools' = {IF p.id = n THEN [p EXCEPT !.subnet = TRUE] ELSE p : p \in pools}
     \/ UNCHANGED pools /\ Fail(c, n)
  /\ UNCHANGED commands

\* The pool is searched on the first page of the list only; if it is not
\* there the command ends without error, and whatever an earlier one has left
\* of the pool stays as it is.
DeletePool(c) ==
  /\ Start(c)
  /\ \E n \in PoolName :
       \/ /\ FirstPageHas(pools, Named(n))
          /\ Goto(c, "subnets", n) /\ UNCHANGED reported
       \/ /\ ~FirstPageHas(pools, Named(n))
          /\ Goto(c, "idle", NoPool) /\ UNCHANGED reported
       \/ Fail(c, n)
  /\ UNCHANGED pools

ListSubnets(c) ==
  LET n == cli[c].pool IN
  /\ At(c, "subnets")
  /\ \/ Goto(c, IF \E p \in pools : p.id = n /\ p.subnet THEN "unsubnet" ELSE "delete", n)
        /\ UNCHANGED reported
     \/ Fail(c, n)
  /\ UNCHANGED <<pools, commands>>

\* A subnet is in use as long as addresses of the pool are allocated.
DeleteSubnet(c) ==
  LET n == cli[c].pool IN
  /\ At(c, "unsubnet")
  /\ \/ /\ In(n) = {} /\ Goto(c, "delete", n) /\ UNCHANGED reported
        /\ pools' = {IF p.id = n THEN [p EXCEPT !.subnet = FALSE] ELSE p : p \in pools}
     \/ UNCHANGED pools /\ Fail(c, n)
  /\ UNCHANGED commands

\* NSX-T refuses to delete a pool with subnets or allocations.
DeleteEmptyPool(c) ==
  LET n == cli[c].pool IN
  /\ At(c, "delete")
  /\ \/ /\ In(n) = {} /\ ~(\E p \in pools : p.id = n /\ p.subnet)
        /\ pools' = {p \in pools : p.id # n} /\ Succeed(c, n)
     \/ UNCHANGED pools /\ Fail(c, n)
  /\ UNCHANGED commands

\* The process is killed.
Kill(c) == /\ ~At(c, "idle") /\ Fail(c, cli[c].pool) /\ UNCHANGED <<pools, commands>>

Command(c) ==
  /\ \/ CreatePool(c) \/ UpdatePool(c) \/ PatchSubnet(c)
     \/ DeletePool(c) \/ ListSubnets(c) \/ DeleteSubnet(c) \/ DeleteEmptyPool(c)
     \/ Kill(c)
  /\ UNCHANGED <<allocs, allocated>>

-----------------------------------------------------------------------------
\* Other shoots, in the same pool.
OtherAllocates ==
  /\ allocated < MaxAllocations /\ allocated' = allocated + 1
  /\ SNATPool \in PoolIds /\ AddAllocation(SNATPool, FALSE)
  /\ UNCHANGED <<pools, cliVars>>

OtherReleases ==
  /\ \E a \in allocs : ~a.mine /\ allocs' = allocs \ {a}
  /\ UNCHANGED <<pools, allocated, cliVars>>

\* What the list that is searched holds, before and after a step of others.
Watch ==
  LET before == IF ctl = "recover" THEN {a.id : a \in In(poolRef)} ELSE PoolIds
      after  == IF ctl = "recover" THEN {a.id : a \in In(poolRef)'} ELSE PoolIds'
  IN  IF ctl \in {"lookup", "recover"}
      THEN /\ kept' = kept \intersect after
           /\ grown' = (grown \/ ~(after \subseteq before))
      ELSE UNCHANGED histVars

Controller == LookupPool \/ LookupNextPage \/ RecoverNextPage \/ Allocate
Others == \/ \E c \in Client : Command(c)
          \/ OtherAllocates \/ OtherReleases

Next == Controller \/ ListFails \/ (Others /\ UNCHANGED ctlVars /\ Watch)

Spec == Init /\ [][Next]_vars

\* A reconciliation goes on, and is repeated.
FairSpec == Spec /\ WF_vars(Controller)

-----------------------------------------------------------------------------
\* A search by name or by tags, over however many pages and whatever vanishes
\* between them, only ends without a result if nothing it looks for existed
\* all the time. It may miss an object when others are added meanwhile, since
\* it stops at the total that the first page has announced.
SearchFinds == ended = "missing" /\ ~grown => kept = {}

\* A search ends, although it begins again at the first page when objects
\* have vanished.
SearchEnds == ctl \in {"lookup", "recover"} ~> ctl \in {"idle", "allocate"}

\* A pool is only left without addresses while a command works on it, or after
\* a command on it has ended with an error: it stays reported until a later one
\* has added the subnet or deleted the pool. The last command need not be one
\* that failed: a deletion that overlooks the pool ends without error, too.
HalfPoolsAreReported ==
  \A p \in pools : ~p.subnet => p.id \in reported \union {cli[c].pool : c \in Client}
=============================================================================
