---------------------------- MODULE Workers_proofs ----------------------------
(***************************************************************************)
(* Proofs about the worker controller, for every set of pools, zones,      *)
(* images and machine types, every list of worker pools, and every number  *)
(* of changes and failures.                                                *)
(*                                                                         *)
(* ClassesOfDeploymentsExist depends on what each stage of a               *)
(* reconciliation leaves to the next ones, while the machine controller    *)
(* manager removes deployments and users change the pools: the stages are  *)
(* the conjuncts of IInv. MachinesAreInTheirZone and CapacityKept depend   *)
(* on deployments keeping the position of their zone, in the pools as they *)
(* are and in those of the reconciliation under way: ZInv.                 *)
(***************************************************************************)
EXTENDS Workers, TLAPS, FiniteSetTheorems, WellFoundedInduction

\* The fields of a deployment, without their types.
DeploymentFields == {"image", "zone", "numbers", "deleting"}

DeploymentsType ==
  \A d \in DOMAIN deployments :
    DOMAIN deployments[d] = DeploymentFields /\ deployments[d].deleting \in BOOLEAN

\* Once the classes are written, those of the pools are there.
ClassesWritten ==
  pc \in {"images", "deployments", "wait", "cleanup", "cleanupClasses"} =>
    \A w \in Wanted(seen) : ClassName(w) \in DOMAIN classes

\* Once the deployments are written, those of the pools are as wanted.
DeploymentsWritten ==
  pc \in {"wait", "cleanup", "cleanupClasses"} =>
    \A w \in Wanted(seen) :
      w.name \in DOMAIN deployments => deployments[w.name].image = w.image

\* What is not wanted was there when the reconciliation began.
UnwantedListed ==
  pc \in {"classes", "images", "deployments", "wait", "cleanup"} =>
    DOMAIN deployments \ NamesOf(Wanted(seen)) \subseteq listed

\* When classes are dropped, deployments that could use them are being deleted.
UnwantedDeleting ==
  /\ pc = "cleanupClasses" =>
       \A d \in DOMAIN deployments \ NamesOf(Wanted(seen)) : deployments[d].deleting
  /\ pc = "deleteClasses" => \A d \in DOMAIN deployments : deployments[d].deleting

IInv ==
  /\ DeploymentsType /\ ClassesWritten /\ DeploymentsWritten
  /\ UnwantedListed /\ UnwantedDeleting /\ ClassesOfDeploymentsExist
-----------------------------------------------------------------------------
(* The shares of the zones of a pool.                                      *)

\* The member of a set that a sum takes first.
First(s) == CHOOSE x \in s : TRUE

\* f gives the sums of h over the subsets of S, as MapThenSumSet computes them.
SumsUp(f, h, S) ==
  f = [s \in SUBSET S |-> IF s = {} THEN 0 ELSE h[First(s)] + f[s \ {First(s)}]]

\* There is one such f: a smallest set on which two differ would have a smaller one.
LEMMA SumIsUnique ==
  ASSUME NEW S, IsFiniteSet(S), NEW h, NEW f, NEW g, SumsUp(f, h, S), SumsUp(g, h, S)
  PROVE  f[S] = g[S]
<1> DEFINE T == {s \in SUBSET S : f[s] # g[s]}
<1> SUFFICES ASSUME T # {} PROVE FALSE
  OBVIOUS
<1>1. T \subseteq FiniteSubsetsOf(S)
  BY FS_Subset DEF FiniteSubsetsOf
<1>2. PICK s \in T : \A t \in T : <<t, s>> \notin StrictSubsetOrdering(S)
  <2> HIDE DEF T
  <2> QED BY <1>1, FS_StrictSubsetOrderingWellFounded, WFMin, Zenon
<1>3. s # {} /\ First(s) \in s
  BY DEF SumsUp, First
<1>4. s \ {First(s)} \notin T
  <2>1. <<s \ {First(s)}, s>> \in StrictSubsetOrdering(S)
    BY <1>3 DEF StrictSubsetOrdering
  <2> QED BY <1>2, <2>1
<1>5. f[s] = h[First(s)] + f[s \ {First(s)}] /\ g[s] = h[First(s)] + g[s \ {First(s)}]
  BY <1>3 DEF SumsUp
<1> QED BY <1>4, <1>5

\* Division with remainder.
LEMMA Quotient ==
  ASSUME NEW a \in Nat, NEW n \in Nat \ {0}
  PROVE  /\ a \div n \in Nat /\ a % n \in 0 .. (n - 1)
         /\ a = n * (a \div n) + (a % n)
OBVIOUS

\* The shares that DistributeOverZones gives the zones add up to the number of the
\* pool: a set of zones has the quotient for each of its members, and one more for
\* each of its members among the first zones.
LEMMA SharesAddUp ==
  ASSUME NEW size \in Nat, NEW n \in Nat \ {0}, NEW h,
         \A k \in 1 .. n : h[k] = DistributeOverZones(k, size, n)
  PROVE  \E g : SumsUp(g, h, 1 .. n) /\ g[1 .. n] = size
<1> DEFINE q == size \div n
           r == size % n
           Sum(s) == Cardinality(s) * q + Cardinality(s \intersect (1 .. r))
           g == [s \in SUBSET (1 .. n) |-> Sum(s)]
<1>q. q \in Nat /\ r \in 0 .. (n - 1) /\ size = n * q + r
  BY Quotient
<1>1. \A k \in 1 .. n : h[k] = q + (IF k <= r THEN 1 ELSE 0)
  BY DEF DistributeOverZones
<1> HIDE DEF q, r
<1>2. SumsUp(g, h, 1 .. n)
  <2> SUFFICES ASSUME NEW s \in SUBSET (1 .. n)
               PROVE  g[s] = IF s = {} THEN 0 ELSE h[First(s)] + g[s \ {First(s)}]
    BY DEF SumsUp
  <2>1. CASE s = {}
    <3>1. Cardinality(s) = 0 /\ Cardinality(s \intersect (1 .. r)) = 0
      BY <2>1, FS_EmptySet
    <3> QED BY <1>q, <2>1, <3>1
  <2>2. CASE s # {}
    <3> DEFINE x == First(s)
    <3>1. x \in s
      BY <2>2 DEF First
    <3> HIDE DEF x
    <3>2. IsFiniteSet(s) /\ IsFiniteSet(s \intersect (1 .. r))
      <4>1. IsFiniteSet(1 .. n)
        BY FS_Interval
      <4> QED BY <4>1, FS_Subset
    <3>3. Cardinality(s) \in Nat /\ Cardinality(s \ {x}) = Cardinality(s) - 1
      BY <3>1, <3>2, FS_RemoveElement, FS_CardinalityType
    <3>4. (s \ {x}) \intersect (1 .. r) = (s \intersect (1 .. r)) \ {x}
      OBVIOUS
    <3>5. /\ Cardinality(s \intersect (1 .. r)) \in Nat
          /\ Cardinality((s \ {x}) \intersect (1 .. r))
               = Cardinality(s \intersect (1 .. r)) - (IF x <= r THEN 1 ELSE 0)
      <4>1. x \in s \intersect (1 .. r) <=> x <= r
        BY <1>q, <3>1
      <4> DEFINE t == s \intersect (1 .. r)
      <4>2. IsFiniteSet(t) /\ (s \ {x}) \intersect (1 .. r) = t \ {x}
        BY <3>2, <3>4
      <4>3. x \in t <=> x <= r
        BY <4>1
      <4> HIDE DEF t
      <4>4. Cardinality(t) \in Nat
        BY <4>2, FS_CardinalityType
      <4>5. Cardinality(t \ {x}) = IF x \in t THEN Cardinality(t) - 1 ELSE Cardinality(t)
        BY <4>2, FS_RemoveElement
      <4>6. Cardinality(t \ {x}) = Cardinality(t) - (IF x <= r THEN 1 ELSE 0)
        BY <4>3, <4>4, <4>5
      <4> QED BY <4>2, <4>4, <4>6 DEF t
    <3>6. h[x] = q + (IF x <= r THEN 1 ELSE 0)
      BY <1>1, <3>1
    <3> DEFINE c == Cardinality(s)
               d == Cardinality(s \intersect (1 .. r))
    <3>7. c * q = q + (c - 1) * q
      BY <1>q, <3>3
    <3>8. g[s] = c * q + d
      OBVIOUS
    <3>9. g[s \ {x}] = (c - 1) * q + (d - (IF x <= r THEN 1 ELSE 0))
      BY <3>3, <3>5
    <3>10. (c - 1) * q \in Int /\ c * q \in Int
      BY <1>q, <3>3
    <3> HIDE DEF c, d, g
    <3>11. g[s] = h[x] + g[s \ {x}]
      BY <1>q, <3>3, <3>5, <3>6, <3>7, <3>8, <3>9, <3>10 DEF c, d
    <3> QED BY <2>2, <3>11 DEF x
  <2> QED BY <2>1, <2>2
<1>3. Cardinality(1 .. n) = n /\ Cardinality((1 .. n) \intersect (1 .. r)) = r
  <2>1. (1 .. n) \intersect (1 .. r) = 1 .. r
    BY <1>q
  <2>2. Cardinality(1 .. n) = n
    BY FS_Interval
  <2>3. Cardinality(1 .. r) = r
    BY <1>q, FS_Interval
  <2> QED BY <2>1, <2>2, <2>3
<1>4. g[1 .. n] = size
  BY <1>q, <1>3
<1> HIDE DEF g
<1> QED BY <1>2, <1>4

\* The sum that MapThenSumSet takes of a number of the deployments of a pool.
SumOf(D, p, field, zones) ==
  CHOOSE f : f = [s \in SUBSET zones |->
                    IF s = {} THEN 0
                    ELSE D[[pool |-> p, index |-> First(s)]].numbers[field] + f[s \ {First(s)}]]

\* It is the number of the pool if the deployments have the shares.
LEMMA SumOfShares ==
  ASSUME NEW size \in Nat, NEW n \in Nat \ {0}, NEW D, NEW p, NEW field,
         \A k \in 1 .. n :
           D[[pool |-> p, index |-> k]].numbers[field] = DistributeOverZones(k, size, n)
  PROVE  SumOf(D, p, field, 1 .. n)[1 .. n] = size
<1> DEFINE h == [k \in 1 .. n |-> D[[pool |-> p, index |-> k]].numbers[field]]
           Sums(f) == f = [s \in SUBSET (1 .. n) |->
                             IF s = {} THEN 0
                             ELSE D[[pool |-> p, index |-> First(s)]].numbers[field]
                                    + f[s \ {First(s)}]]
           sums == CHOOSE f : Sums(f)
<1>1. \A f : Sums(f) <=> SumsUp(f, h, 1 .. n)
  <2> TAKE f
  <2>1. \A s \in SUBSET (1 .. n) : s # {} =>
          h[First(s)] = D[[pool |-> p, index |-> First(s)]].numbers[field]
    BY DEF First
  <2> HIDE DEF h
  <2> QED BY <2>1 DEF SumsUp
<1>2. PICK g : SumsUp(g, h, 1 .. n) /\ g[1 .. n] = size
  BY SharesAddUp
<1>3. SumOf(D, p, field, 1 .. n) = sums
  BY DEF SumOf
<1> HIDE DEF h, Sums
<1>4. Sums(sums)
  BY <1>1, <1>2
<1> HIDE DEF sums
<1>5. sums[1 .. n] = g[1 .. n]
  BY <1>1, <1>2, <1>4, SumIsUnique, FS_Interval
<1> QED BY <1>2, <1>3, <1>5

\* The same for a number with a percent sign, or without one.
SumOfValues(D, p, field, zones) ==
  CHOOSE f : f = [s \in SUBSET zones |->
                    IF s = {} THEN 0
                    ELSE D[[pool |-> p, index |-> First(s)]].numbers[field].value
                           + f[s \ {First(s)}]]

LEMMA SumOfShareValues ==
  ASSUME NEW size \in Nat, NEW n \in Nat \ {0}, NEW D, NEW p, NEW field,
         \A k \in 1 .. n :
           D[[pool |-> p, index |-> k]].numbers[field].value = DistributeOverZones(k, size, n)
  PROVE  SumOfValues(D, p, field, 1 .. n)[1 .. n] = size
<1> DEFINE h == [k \in 1 .. n |-> D[[pool |-> p, index |-> k]].numbers[field].value]
           Sums(f) == f = [s \in SUBSET (1 .. n) |->
                             IF s = {} THEN 0
                             ELSE D[[pool |-> p, index |-> First(s)]].numbers[field].value
                                    + f[s \ {First(s)}]]
           sums == CHOOSE f : Sums(f)
<1>1. \A f : Sums(f) <=> SumsUp(f, h, 1 .. n)
  <2> TAKE f
  <2>1. \A s \in SUBSET (1 .. n) : s # {} =>
          h[First(s)] = D[[pool |-> p, index |-> First(s)]].numbers[field].value
    BY DEF First
  <2> HIDE DEF h
  <2> QED BY <2>1 DEF SumsUp
<1>2. PICK g : SumsUp(g, h, 1 .. n) /\ g[1 .. n] = size
  BY SharesAddUp
<1>3. SumOfValues(D, p, field, 1 .. n) = sums
  BY DEF SumOfValues
<1> HIDE DEF h, Sums
<1>4. Sums(sums)
  BY <1>1, <1>2
<1> HIDE DEF sums
<1>5. sums[1 .. n] = g[1 .. n]
  BY <1>1, <1>2, <1>4, SumIsUnique, FS_Interval
<1> QED BY <1>2, <1>3, <1>5

\* No zone is given more than another one but for one machine.
LEMMA SharesAreEven ==
  ASSUME NEW size \in Nat, NEW n \in Nat \ {0}, NEW k \in 1 .. n, NEW l \in 1 .. n
  PROVE  /\ DistributeOverZones(k, size, n) \in Nat
         /\ DistributeOverZones(k, size, n) <= DistributeOverZones(l, size, n) + 1
BY Quotient DEF DistributeOverZones

\* One machine per zone leaves none without.
LEMMA EachGetsOne ==
  ASSUME NEW size \in Nat, NEW n \in Nat \ {0}, NEW k \in 1 .. n, size >= n
  PROVE  DistributeOverZones(k, size, n) > 0
<1> DEFINE q == size \div n
<1>1. q \in Nat /\ size % n \in 0 .. (n - 1) /\ size = n * q + (size % n)
  BY Quotient
<1>2. DistributeOverZones(k, size, n) >= q
  BY <1>1 DEF DistributeOverZones
<1>3. DistributeOverZones(k, size, n) \in Nat
  BY SharesAreEven
<1> HIDE DEF q
<1>4. q = 0 => n * q = 0
  BY <1>1
<1> QED BY <1>1, <1>2, <1>3, <1>4

\* Rounding up gives nothing only for nothing.
LEMMA CeilDivIsPositive ==
  ASSUME NEW a \in Nat, NEW b \in Nat \ {0}
  PROVE  CeilDiv(a, b) \in Nat /\ (a > 0 => CeilDiv(a, b) > 0)
<1> DEFINE x == a + b - 1
           q == x \div b
<1>1. x \in Nat /\ q \in Nat /\ x % b \in 0 .. (b - 1) /\ x = b * q + (x % b)
  BY Quotient
<1>2. CeilDiv(a, b) = q
  BY DEF CeilDiv
<1>3. a > 0 => x % b < x
  BY <1>1
<1> HIDE DEF q
<1>4. q = 0 => b * q = 0
  BY <1>1
<1> QED BY <1>1, <1>2, <1>3, <1>4

\* What a zone is given of a positive number or percentage is one again.
LEMMA DistributedType ==
  ASSUME NEW v \in IntOrPercent, NEW n \in Nat \ {0}, NEW k \in 1 .. n, NEW total \in Nat
  PROVE  /\ DistributePositiveIntOrPercent(k, v, n, total).value \in Nat
         /\ (/\ v.percent /\ v.value > 0 /\ DistributeOverZones(k, total, n) > 0)
              => DistributePositiveIntOrPercent(k, v, n, total).value > 0
         /\ ~v.percent => DistributePositiveIntOrPercent(k, v, n, total).value
                             = DistributeOverZones(k, v.value, n)
<1> DEFINE share == DistributeOverZones(k, total, n)
           a == share * n * v.value
<1>1. v.value \in Nat /\ share \in Nat
  BY SharesAreEven DEF IntOrPercent
<1>2. DistributeOverZones(k, v.value, n) \in Nat
  BY <1>1, SharesAreEven
<1>3. DistributePositiveIntOrPercent(k, v, n, total).value
        = IF v.percent THEN IF total % n = 0 THEN v.value ELSE CeilDiv(a, total)
          ELSE DistributeOverZones(k, v.value, n)
  BY DEF DistributePositiveIntOrPercent, DistributePercentOverZones, IntOrPercent
<1> HIDE DEF share
<1>4. a \in Nat /\ (share > 0 /\ v.value > 0 => a > 0)
  <2>1. share * n \in Nat /\ (share > 0 => share * n > 0)
    BY <1>1
  <2> QED BY <1>1, <2>1
<1>5. total % n # 0 => total > 0
  BY Quotient
<1>6. total % n # 0 => CeilDiv(a, total) \in Nat /\ (a > 0 => CeilDiv(a, total) > 0)
  <2> HIDE DEF a
  <2> QED BY <1>4, <1>5, CeilDivIsPositive
<1> HIDE DEF a
<1> QED BY <1>1, <1>2, <1>3, <1>4, <1>6 DEF share
-----------------------------------------------------------------------------
(* Wanted deployments.                                                     *)

\* A deployment is named after its pool and position, so it is known by its name.
LEMMA WantedByName ==
  ASSUME NEW s, NEW ws \in SUBSET Wanted(s), NEW w \in ws
  PROVE  WantedAs(ws, w.name) = w
<1>1. ASSUME NEW v \in ws, v.name = w.name PROVE v = w
  <2>1. PICK p \in DOMAIN s : \E k \in DOMAIN s[p].zones :
          v = [name |-> [pool |-> p, index |-> k], image |-> s[p].image,
               zone |-> s[p].zones[k], numbers |-> Numbers(s[p], k)]
    BY DEF Wanted
  <2>2. PICK q \in DOMAIN s : \E l \in DOMAIN s[q].zones :
          w = [name |-> [pool |-> q, index |-> l], image |-> s[q].image,
               zone |-> s[q].zones[l], numbers |-> Numbers(s[q], l)]
    BY DEF Wanted
  <2>3. PICK k \in DOMAIN s[p].zones, l \in DOMAIN s[q].zones :
          /\ v = [name |-> [pool |-> p, index |-> k], image |-> s[p].image,
                  zone |-> s[p].zones[k], numbers |-> Numbers(s[p], k)]
          /\ w = [name |-> [pool |-> q, index |-> l], image |-> s[q].image,
                  zone |-> s[q].zones[l], numbers |-> Numbers(s[q], l)]
    BY <2>1, <2>2
  <2>4. p = q /\ k = l
    BY <1>1, <2>3
  <2> QED BY <2>3, <2>4
<1> QED BY <1>1 DEF WantedAs

\* What is written for some of the wanted deployments.
LEMMA WrittenDeployments ==
  ASSUME NEW s, NEW ws \in SUBSET Wanted(s)
  PROVE  /\ DOMAIN DeploymentsOf(ws) = NamesOf(ws)
         /\ \A w \in ws :
              /\ DOMAIN DeploymentsOf(ws)[w.name] = DeploymentFields
              /\ DeploymentsOf(ws)[w.name].image = w.image
              /\ DeploymentsOf(ws)[w.name].zone = w.zone
              /\ DeploymentsOf(ws)[w.name].numbers = w.numbers
              /\ DeploymentsOf(ws)[w.name].deleting
                   = (w.name \in DOMAIN deployments /\ deployments[w.name].deleting)
BY WantedByName DEF DeploymentsOf, NamesOf, DeploymentFields

\* The new classes are added to the old ones.
LEMMA WrittenClasses ==
  ASSUME NEW ws, DeployClasses(ws)
  PROVE  DOMAIN classes' = DOMAIN classes \union {ClassName(w) : w \in ws}
BY DEF DeployClasses, ClassesOf, Write

\* Marking deployments leaves all but their deletion as it was.
LEMMA Marked ==
  ASSUME NEW ds, Mark(ds), DeploymentsType
  PROVE  /\ DOMAIN deployments' = DOMAIN deployments
         /\ \A d \in DOMAIN deployments :
              /\ DOMAIN deployments'[d] = DeploymentFields
              /\ deployments'[d].image = deployments[d].image
              /\ deployments'[d].deleting = (deployments[d].deleting \/ d \in ds)
BY DEF Mark, DeploymentsType, DeploymentFields
-----------------------------------------------------------------------------
(* The invariant.                                                          *)

\* Nothing has been written yet.
LEMMA InitIInv == Init => IInv
BY DEF Init, IInv, DeploymentsType, ClassesWritten, DeploymentsWritten,
       UnwantedListed, UnwantedDeleting, ClassesOfDeploymentsExist

\* Steps that neither begin a reconciliation nor change objects or stages other
\* than to go on, or to give up.
LEMMA StagePreserves ==
  ASSUME IInv, UNCHANGED <<seen, listed, classes, deployments>>,
         \/ pc' = pc
         \/ pc' \in {"idle", "waitDeleted", "waitUnwanted"}
         \/ pc = "images" /\ pc' = "deployments"
         \/ pc = "wait" /\ pc' = "cleanup"
  PROVE  IInv'
BY DEF IInv, DeploymentsType, ClassesWritten, DeploymentsWritten,
       UnwantedListed, UnwantedDeleting, ClassesOfDeploymentsExist

\* What is not wanted when a reconciliation begins is listed.
LEMMA BeginPreserves == IInv /\ Begin => IInv'
BY DEF IInv, DeploymentsType, ClassesWritten, DeploymentsWritten, UnwantedListed,
       UnwantedDeleting, ClassesOfDeploymentsExist, Begin, WorkerDelegate, Unwanted,
       objects, confVars

\* Classes are added, and all of them are there when the step goes through.
LEMMA DeployMachineClassesPreserves == IInv /\ DeployMachineClasses => IInv'
<1> SUFFICES ASSUME IInv, DeployMachineClasses PROVE IInv'
  OBVIOUS
<1>1. PICK ws \in SUBSET Wanted(seen) :
        /\ DeployClasses(ws)
        /\ Proceed(IF pc = "classes" THEN "images" ELSE "deleteDeployments",
                   ws = Wanted(seen))
  BY DEF DeployMachineClasses
<1>2. DOMAIN classes' = DOMAIN classes \union {ClassName(w) : w \in ws}
  BY <1>1, WrittenClasses
<1>3. /\ UNCHANGED <<seen, listed, deployments>>
      /\ \/ pc' = "idle" \/ pc' = "deleteDeployments"
         \/ pc = "classes" /\ pc' = "images" /\ ws = Wanted(seen)
  BY <1>1 DEF DeployMachineClasses, Proceed
<1> QED BY <1>2, <1>3 DEF IInv, DeploymentsType, ClassesWritten, DeploymentsWritten,
           UnwantedListed, UnwantedDeleting, ClassesOfDeploymentsExist

\* The classes of what is written are there.
LEMMA DeployMachineDeploymentsPreserves == IInv /\ DeployMachineDeployments => IInv'
<1> SUFFICES ASSUME IInv, DeployMachineDeployments PROVE IInv'
  OBVIOUS
<1> USE DEF IInv
<1>1. PICK ws \in SUBSET Wanted(seen) :
        /\ deployments' = Write(DeploymentsOf(ws), deployments)
        /\ Proceed("wait", ws = Wanted(seen))
  BY DEF DeployMachineDeployments
<1>2. /\ DOMAIN deployments' = NamesOf(ws) \union DOMAIN deployments
      /\ \A d \in NamesOf(ws) : deployments'[d] = DeploymentsOf(ws)[d]
      /\ \A d \in DOMAIN deployments \ NamesOf(ws) : deployments'[d] = deployments[d]
  BY <1>1, WrittenDeployments DEF Write
<1>3. \A w \in ws : /\ DOMAIN deployments'[w.name] = DeploymentFields
                    /\ deployments'[w.name].image = w.image
                    /\ deployments'[w.name].deleting \in BOOLEAN
  <2> TAKE w \in ws
  <2>1. deployments'[w.name] = DeploymentsOf(ws)[w.name]
    BY <1>2 DEF NamesOf
  <2>2. /\ DOMAIN deployments'[w.name] = DeploymentFields
        /\ deployments'[w.name].image = w.image
    BY <2>1, WrittenDeployments
  <2>3. deployments'[w.name].deleting
          = (w.name \in DOMAIN deployments /\ deployments[w.name].deleting)
    BY <2>1, WrittenDeployments
  <2>4. deployments'[w.name].deleting \in BOOLEAN
    BY <2>3, Zenon
  <2> QED BY <2>2, <2>4
<1>4. /\ UNCHANGED <<seen, listed, classes>> /\ pc = "deployments"
      /\ pc' = "idle" \/ (pc' = "wait" /\ ws = Wanted(seen))
  BY <1>1 DEF DeployMachineDeployments, Proceed
<1>5. DeploymentsType'
  BY <1>2, <1>3 DEF DeploymentsType, NamesOf
<1>6. ClassesWritten' /\ DeploymentsWritten' /\ UnwantedDeleting'
  BY <1>3, <1>4 DEF ClassesWritten, DeploymentsWritten, UnwantedDeleting
<1>7. UnwantedListed'
  BY <1>2, <1>4 DEF UnwantedListed, NamesOf
<1>8. ClassesOfDeploymentsExist'
  <2> SUFFICES ASSUME NEW d \in DOMAIN deployments', ~deployments'[d].deleting
               PROVE  [of |-> d, image |-> deployments'[d].image] \in DOMAIN classes
    BY <1>4 DEF ClassesOfDeploymentsExist
  <2>1. CASE d \in NamesOf(ws)
    BY <1>3, <1>4, <2>1 DEF NamesOf, ClassesWritten, ClassName
  <2>2. CASE d \notin NamesOf(ws)
    BY <1>2, <2>2 DEF ClassesOfDeploymentsExist
  <2> QED BY <2>1, <2>2
<1> QED BY <1>5, <1>6, <1>7, <1>8

\* All unwanted deployments are being deleted when the cleanup has gone through.
LEMMA CleanupDeploymentsPreserves == IInv /\ CleanupDeployments => IInv'
<1> SUFFICES ASSUME IInv, CleanupDeployments PROVE IInv'
  OBVIOUS
<1> USE DEF IInv
<1>1. PICK ds \in SUBSET (listed \intersect DOMAIN deployments) :
        /\ Mark(ds)
        /\ \/ /\ listed \subseteq DOMAIN deployments
              /\ Proceed("cleanupClasses", ds = listed)
           \/ /\ ~(listed \subseteq DOMAIN deployments)
              /\ pc' = "idle" /\ UNCHANGED failures
  BY DEF CleanupDeployments
<1>2. /\ UNCHANGED <<seen, listed, classes>> /\ pc = "cleanup"
      /\ pc' = "idle" \/ (pc' = "cleanupClasses" /\ ds = listed)
  BY <1>1 DEF CleanupDeployments, Proceed
<1>3. /\ DOMAIN deployments' = DOMAIN deployments
      /\ \A d \in DOMAIN deployments :
           /\ DOMAIN deployments'[d] = DeploymentFields
           /\ deployments'[d].image = deployments[d].image
           /\ deployments'[d].deleting = (deployments[d].deleting \/ d \in ds)
  BY <1>1, Marked
<1>4. DeploymentsType'
  BY <1>3 DEF DeploymentsType
<1>5. ClassesWritten' /\ DeploymentsWritten' /\ UnwantedListed'
  BY <1>2, <1>3 DEF ClassesWritten, DeploymentsWritten, UnwantedListed
<1>6. UnwantedDeleting'
  BY <1>2, <1>3 DEF UnwantedListed, UnwantedDeleting
<1>7. ClassesOfDeploymentsExist'
  BY <1>2, <1>3 DEF ClassesOfDeploymentsExist
<1> QED BY <1>4, <1>5, <1>6, <1>7

\* The classes that are dropped are of no deployment that is not being deleted:
\* such a deployment is a wanted one, with the wanted image.
LEMMA CleanupClassesPreserves == IInv /\ CleanupClasses => IInv'
<1> SUFFICES ASSUME IInv, CleanupClasses PROVE IInv'
  OBVIOUS
<1> USE DEF IInv
<1>1. /\ UNCHANGED <<seen, listed, deployments>> /\ pc = "cleanupClasses"
      /\ pc' \in {"idle", "waitUnwanted"}
  BY DEF CleanupClasses, Proceed
<1>2. \A w \in Wanted(seen) : ClassName(w) \in DOMAIN classes => ClassName(w) \in DOMAIN classes'
  BY DEF CleanupClasses
<1>3. ClassesOfDeploymentsExist'
  <2> SUFFICES ASSUME NEW d \in DOMAIN deployments, ~deployments[d].deleting
               PROVE  [of |-> d, image |-> deployments[d].image] \in DOMAIN classes'
    BY <1>1 DEF ClassesOfDeploymentsExist
  <2>1. PICK w \in Wanted(seen) : w.name = d
    BY <1>1 DEF UnwantedDeleting, NamesOf
  <2>2. deployments[d].image = w.image
    BY <1>1, <2>1 DEF DeploymentsWritten
  <2>3. [of |-> d, image |-> deployments[d].image] = ClassName(w)
    BY <2>1, <2>2 DEF ClassName
  <2> QED BY <1>1, <1>2, <2>3 DEF ClassesWritten
<1> QED BY <1>1, <1>3 DEF DeploymentsType, ClassesWritten, DeploymentsWritten,
           UnwantedListed, UnwantedDeleting

\* All deployments are being deleted before all classes go.
LEMMA DeletionPreserves == IInv /\ (DeleteDeployments \/ DeleteClasses) => IInv'
<1> SUFFICES ASSUME IInv, DeleteDeployments \/ DeleteClasses PROVE IInv'
  OBVIOUS
<1> USE DEF IInv, DeploymentsType, ClassesWritten, DeploymentsWritten, UnwantedListed,
            UnwantedDeleting, ClassesOfDeploymentsExist
<1>1. CASE DeleteDeployments
  <2>1. /\ DOMAIN deployments' = DOMAIN deployments
        /\ \A d \in DOMAIN deployments :
             /\ DOMAIN deployments'[d] = DeploymentFields
             /\ deployments'[d].deleting = TRUE
    BY <1>1, Marked DEF DeleteDeployments
  <2> QED BY <1>1, <2>1 DEF DeleteDeployments
<1>2. CASE DeleteClasses
  BY <1>2 DEF DeleteClasses
<1> QED BY <1>1, <1>2

\* The MCM writes no deployment, it removes some.
LEMMA MCMPreserves == IInv /\ MCM => IInv'
<1> SUFFICES ASSUME IInv, MCM PROVE IInv'
  OBVIOUS
<1>1. /\ UNCHANGED <<pc, seen, listed, classes>>
      /\ DOMAIN deployments' \subseteq DOMAIN deployments
      /\ \A d \in DOMAIN deployments' : deployments'[d] = deployments[d]
  BY DEF MCM, CreateMachine, RetireMachine, RemoveDeployment
<1> QED BY <1>1 DEF IInv, DeploymentsType, ClassesWritten, DeploymentsWritten,
           UnwantedListed, UnwantedDeleting, ClassesOfDeploymentsExist

\* Every step preserves the stages.
LEMMA NextPreserves == IInv /\ [Next]_vars => IInv'
<1> SUFFICES ASSUME IInv, [Next]_vars PROVE IInv'
  OBVIOUS
<1> USE DEF objects
<1>1. CASE Environment
  BY <1>1, StagePreserves
     DEF Environment, UpdateShoot, DropImage, DropMachineType, DropZone, DeleteWorker, Changed
<1>2. CASE Controller
  <2>1. CASE UpdateMachineImagesStatus \/ WaitUntilAvailable \/ WaitUntilUnwantedDeleted
             \/ WaitUntilDeleted \/ Timeout
    BY <2>1, StagePreserves DEF UpdateMachineImagesStatus, WaitUntilAvailable,
       WaitUntilUnwantedDeleted, WaitUntilDeleted, Timeout
  <2> QED BY <1>2, <2>1, BeginPreserves, DeployMachineClassesPreserves,
             DeployMachineDeploymentsPreserves, CleanupDeploymentsPreserves,
             CleanupClassesPreserves, DeletionPreserves DEF Controller
<1>3. CASE Fail
  BY <1>3, StagePreserves DEF Fail
<1>4. CASE UNCHANGED vars
  BY <1>4, StagePreserves DEF vars
<1> QED BY <1>1, <1>2, <1>3, <1>4, MCMPreserves DEF Next

-----------------------------------------------------------------------------

\* Every deployment that is to have machines refers to a machine class that
\* exists: DeployMachineClasses comes before DeployMachineDeployments, and
\* CleanupClasses after CleanupDeployments has gone through for all that the
\* reconciliation listed, whatever the MCM has removed and whichever step failed.
THEOREM ClassesExist == Spec => []ClassesOfDeploymentsExist
<1>1. IInv => ClassesOfDeploymentsExist
  BY DEF IInv
<1> QED BY InitIInv, NextPreserves, <1>1, PTL DEF Spec

\* The images in the status are those of the pools they were recorded for.
ImagesRecorded == statusImages = UsedImages(recorded)

\* The images of the pools stay known once they are in the status of the Worker,
\* because the status is written with all images in use, and with nothing else.
THEOREM ImagesKnown == Spec => []ImagesStayKnown
<1>1. Init => ImagesRecorded
  BY DEF Init, ImagesRecorded, UsedImages, NoPools
<1>2. ImagesRecorded /\ [Next]_vars => ImagesRecorded'
  <2> SUFFICES ASSUME ImagesRecorded, [Next]_vars PROVE ImagesRecorded'
    OBVIOUS
  <2>1. CASE UpdateMachineImagesStatus
    BY <2>1 DEF UpdateMachineImagesStatus, UpdateWorkerProviderStatus, ImagesRecorded, UsedImages
  <2>2. CASE ~UpdateMachineImagesStatus
    <3>1. UNCHANGED <<statusImages, recorded>>
      BY <2>2 DEF Next, vars, Environment, UpdateShoot, DropImage, DropMachineType, DropZone,
         DeleteWorker, Changed, Controller, Begin, DeployMachineClasses,
         DeployMachineDeployments, WaitUntilAvailable, CleanupDeployments, CleanupClasses,
         WaitUntilUnwantedDeleted, DeleteDeployments, DeleteClasses, WaitUntilDeleted,
         Timeout, Fail, MCM, CreateMachine, RetireMachine, RemoveDeployment
    <3> QED BY <3>1 DEF ImagesRecorded, UsedImages
  <2> QED BY <2>1, <2>2
<1>3. ImagesRecorded => ImagesStayKnown
  BY DEF ImagesRecorded, ImagesStayKnown, UsedImages, FindMachineImage
<1> QED BY <1>1, <1>2, <1>3, PTL DEF Spec
-----------------------------------------------------------------------------
(* Zones and shares.                                                       *)

\* A reconciliation that creates machines, and one after its deployments are written.
Creating == pc \in {"classes", "images", "deployments", "wait", "cleanup",
                    "cleanupClasses", "waitUnwanted"}
Written == pc \in {"wait", "cleanup", "cleanupClasses", "waitUnwanted"}

\* A list of zones that begins with another one.
Extends(new, old) == \A k \in DOMAIN old : k \in DOMAIN new /\ new[k] = old[k]

\* Pools are validated before a reconciliation sees them.
PoolsValid ==
  /\ spec \in Specs /\ ValidWorkers(spec)
  /\ pc # "idle" => seen \in Specs /\ ValidWorkers(seen)

\* Deployments are named after a pool and a position.
DeploymentsNamed ==
  \A d \in DOMAIN deployments : d = [pool |-> d.pool, index |-> d.index]

\* The pools of a reconciliation may have got further zones since it began, and
\* every deployment of a pool that is there now is of a pool that was there then.
PoolsExtended ==
  pc # "idle" =>
    /\ \A p \in (DOMAIN seen \intersect DOMAIN spec) \ readded :
         Extends(spec[p].zones, seen[p].zones)
    /\ \A d \in DOMAIN deployments : d.pool \in DOMAIN spec \ readded => d.pool \in DOMAIN seen

\* Deployments of pools that were never removed are at the position of their zone,
\* in the pools as they are, and in those of the reconciliation under way. They
\* are not being deleted but with the Worker.
PlacedBySpec ==
  \A d \in DOMAIN deployments :
    d.pool \in DOMAIN spec \ readded =>
      /\ d.index \in DOMAIN spec[d.pool].zones
      /\ deployments[d].zone = spec[d.pool].zones[d.index]
      /\ ~deleting => ~deployments[d].deleting

PlacedBySeen ==
  pc # "idle" =>
    \A d \in DOMAIN deployments :
      d.pool \in DOMAIN seen \ readded =>
        /\ d.index \in DOMAIN seen[d.pool].zones
        /\ deployments[d].zone = seen[d.pool].zones[d.index]
        /\ Creating => ~deployments[d].deleting

\* The class that a deployment refers to has the zone of the deployment, though a
\* class of another image left over from a removed pool need not.
ClassesPlaced ==
  /\ \A d \in DOMAIN deployments :
       LET c == [of |-> d, image |-> deployments[d].image] IN
       d.pool \notin readded /\ c \in DOMAIN classes => classes[c] = deployments[d].zone
  /\ pc \in {"images", "deployments"} =>
       \A w \in Wanted(seen) : ClassName(w) \in DOMAIN classes /\ classes[ClassName(w)] = w.zone

\* What a reconciliation is going to delete is of removed pools.
ListedRemoved == Creating => \A d \in listed : d.pool \notin DOMAIN seen \ readded

DeletesOnRequest ==
  pc \in {"redeploy", "deleteDeployments", "deleteClasses", "waitDeleted"} => deleting

MachinesOwned == \A m \in machines : m.of \in DOMAIN deployments

\* Each zone of a pool has a deployment with its share of the pool's numbers.
SharesWritten ==
  Written =>
    \A p \in DOMAIN seen \ readded : \A k \in DOMAIN seen[p].zones :
      LET d == [pool |-> p, index |-> k] IN
      d \in DOMAIN deployments /\ deployments[d].numbers = Numbers(seen[p], k)

ZInv ==
  /\ DeploymentsType /\ PoolsValid /\ DeploymentsNamed /\ PoolsExtended
  /\ PlacedBySpec /\ PlacedBySeen /\ ClassesPlaced /\ ListedRemoved
  /\ DeletesOnRequest /\ MachinesOwned /\ MachinesAreInTheirZone /\ SharesWritten

\* Adding zones at the end keeps the others.
LEMMA PrefixExtends ==
  ASSUME NEW Z, NEW s \in Seq(Z), NEW t \in Seq(Z), IsPrefix(s, t)
  PROVE  Extends(t, s)
<1> SUFFICES ASSUME NEW k \in DOMAIN s PROVE k \in DOMAIN t /\ t[k] = s[k]
  BY DEF Extends
<1>1. k \in 1 .. Len(s) /\ k \in 1 .. Len(t) /\ k \in DOMAIN t
  BY DEF IsPrefix
<1>2. SubSeq(s, 1, Len(s))[k] = s[k] /\ SubSeq(t, 1, Len(s))[k] = t[k]
  BY <1>1 DEF IsPrefix
<1> QED BY <1>1, <1>2 DEF IsPrefix

\* What is wanted for some pools is of one of them, at the position of its zone.
LEMMA WantedPlaced ==
  ASSUME NEW s, NEW w \in Wanted(s)
  PROVE  /\ w.name = [pool |-> w.name.pool, index |-> w.name.index]
         /\ w.name.pool \in DOMAIN s /\ w.name.index \in DOMAIN s[w.name.pool].zones
         /\ w.zone = s[w.name.pool].zones[w.name.index]
         /\ w.numbers = Numbers(s[w.name.pool], w.name.index)
<1>1. PICK p \in DOMAIN s : \E k \in DOMAIN s[p].zones :
        w = [name |-> [pool |-> p, index |-> k], image |-> s[p].image,
             zone |-> s[p].zones[k], numbers |-> Numbers(s[p], k)]
  BY DEF Wanted
<1>2. PICK k \in DOMAIN s[p].zones :
        w = [name |-> [pool |-> p, index |-> k], image |-> s[p].image,
             zone |-> s[p].zones[k], numbers |-> Numbers(s[p], k)]
  BY <1>1
<1> QED BY <1>2

\* Every position of a pool is wanted.
LEMMA PositionsWanted ==
  ASSUME NEW s, NEW p \in DOMAIN s, NEW k \in DOMAIN s[p].zones
  PROVE  [pool |-> p, index |-> k] \in NamesOf(Wanted(s))
<1> DEFINE w == [name |-> [pool |-> p, index |-> k], image |-> s[p].image,
                 zone |-> s[p].zones[k], numbers |-> Numbers(s[p], k)]
<1>1. w \in Wanted(s)
  BY DEF Wanted
<1>2. w.name = [pool |-> p, index |-> k]
  OBVIOUS
<1> QED BY <1>1, <1>2 DEF NamesOf

\* There are no deployments and no machines.
LEMMA InitZInv == Init => ZInv
BY DEF Init, ZInv, DeploymentsType, PoolsValid, DeploymentsNamed, PoolsExtended, PlacedBySpec,
       PlacedBySeen, ClassesPlaced, ListedRemoved, DeletesOnRequest, MachinesOwned,
       MachinesAreInTheirZone, SharesWritten, Written, Creating

\* Steps that change no object and no pools, and that go on or give up.
LEMMA StageKeepsZones ==
  ASSUME ZInv, UNCHANGED <<spec, readded, seen, listed, objects>>,
         deleting => deleting',
         \/ pc' = pc /\ (pc = "idle" \/ UNCHANGED deleting \/ deleting')
         \/ pc' = "idle"
         \/ pc = "images" /\ pc' = "deployments"
         \/ pc = "wait" /\ pc' = "cleanup"
  PROVE  ZInv'
BY DEF ZInv, DeploymentsType, PoolsValid, DeploymentsNamed, PoolsExtended, PlacedBySpec,
       PlacedBySeen, ClassesPlaced, ListedRemoved, DeletesOnRequest, MachinesOwned,
       MachinesAreInTheirZone, SharesWritten, Written, Creating, objects

\* New pools are either unknown to the cluster or added again.
LEMMA UpdateShootKeepsZones == ZInv /\ UpdateShoot => ZInv'
<1> SUFFICES ASSUME ZInv, UpdateShoot PROVE ZInv'
  OBVIOUS
<1> USE DEF ZInv
<1>1. PICK new \in Specs :
        /\ ValidWorkers(new) /\ ValidWorkersUpdate(spec, new) /\ spec' = new
        /\ readded' = readded \union ((DOMAIN new \ DOMAIN spec) \intersect Known)
  BY DEF UpdateShoot
<1>2. /\ UNCHANGED <<deleting, pc, seen, listed, classes, deployments, machines>>
      /\ ~deleting
  BY DEF UpdateShoot, Changed, objects
<1>3. \A p \in DOMAIN new \intersect DOMAIN spec : Extends(new[p].zones, spec[p].zones)
  <2> SUFFICES ASSUME NEW p \in DOMAIN new \intersect DOMAIN spec
               PROVE  Extends(new[p].zones, spec[p].zones)
    OBVIOUS
  <2>1. spec[p].zones \in Seq(Zone) /\ new[p].zones \in Seq(Zone)
    BY SpecsAssumption DEF PoolsValid
  <2> QED BY <1>1, <2>1, PrefixExtends DEF ValidWorkersUpdate
<1>4. \A d \in DOMAIN deployments : d.pool \in DOMAIN new \ readded' => d.pool \in DOMAIN spec \ readded
  BY <1>1 DEF Known
<1>5. pc # "idle" => \A p \in DOMAIN seen : p \in DOMAIN new \ readded' => p \in DOMAIN spec \ readded
  BY <1>1 DEF Known
<1>6. readded \subseteq readded'
  BY <1>1
<1>7. PoolsValid' /\ DeploymentsType' /\ DeploymentsNamed' /\ DeletesOnRequest' /\ MachinesOwned'
  BY <1>1, <1>2 DEF PoolsValid, DeploymentsType, DeploymentsNamed, DeletesOnRequest, MachinesOwned
<1>8. PoolsExtended'
  <2> SUFFICES ASSUME pc # "idle" PROVE PoolsExtended'
    BY <1>2 DEF PoolsExtended
  <2>1. ASSUME NEW p \in (DOMAIN seen \intersect DOMAIN new) \ readded'
        PROVE  Extends(new[p].zones, seen[p].zones)
    <3>1. p \in DOMAIN spec \ readded
      BY <1>5, <2>1
    <3>2. Extends(spec[p].zones, seen[p].zones) /\ Extends(new[p].zones, spec[p].zones)
      BY <1>3, <2>1, <3>1 DEF PoolsExtended
    <3> QED BY <3>2 DEF Extends
  <2> QED BY <1>1, <1>2, <1>4, <2>1 DEF PoolsExtended
<1>9. PlacedBySpec'
  BY <1>1, <1>2, <1>3, <1>4 DEF PlacedBySpec, Extends
<1>10. PlacedBySeen' /\ ClassesPlaced' /\ ListedRemoved' /\ MachinesAreInTheirZone' /\ SharesWritten'
  BY <1>2, <1>6 DEF PlacedBySeen, ClassesPlaced, ListedRemoved, MachinesAreInTheirZone,
     SharesWritten, Creating, Written
<1> QED BY <1>7, <1>8, <1>9, <1>10

\* A reconciliation begins with the pools as they are.
LEMMA BeginKeepsZones == ZInv /\ Begin => ZInv'
<1> SUFFICES ASSUME ZInv, Begin PROVE ZInv'
  OBVIOUS
<1> USE DEF ZInv
<1>1. /\ seen' = spec /\ pc = "idle"
      /\ UNCHANGED <<spec, readded, deleting, classes, deployments, machines>>
      /\ \/ ~deleting /\ pc' = "classes" /\ listed' = Unwanted(spec)
         \/ deleting /\ pc' = "redeploy"
  BY DEF Begin, WorkerDelegate, confVars, objects
<1>2. \A d \in DOMAIN deployments : d.pool \in DOMAIN spec \ readded => d \in NamesOf(Wanted(spec))
  BY PositionsWanted DEF PlacedBySpec, DeploymentsNamed
<1>3. ListedRemoved'
  BY <1>1, <1>2 DEF ListedRemoved, Unwanted, Creating
<1>4. PoolsExtended' /\ PlacedBySeen'
  BY <1>1 DEF PoolsExtended, PlacedBySeen, PlacedBySpec, Extends, Creating
<1> QED BY <1>1, <1>3, <1>4 DEF PoolsValid, DeploymentsType, DeploymentsNamed, PlacedBySpec,
           ClassesPlaced, DeletesOnRequest, MachinesOwned, MachinesAreInTheirZone,
           SharesWritten, Written

\* A class is written with the zone of its deployment.
LEMMA DeployMachineClassesKeepsZones == ZInv /\ DeployMachineClasses => ZInv'
<1> SUFFICES ASSUME ZInv, DeployMachineClasses PROVE ZInv'
  OBVIOUS
<1> USE DEF ZInv
<1>1. PICK ws \in SUBSET Wanted(seen) :
        /\ DeployClasses(ws)
        /\ Proceed(IF pc = "classes" THEN "images" ELSE "deleteDeployments",
                   ws = Wanted(seen))
  BY DEF DeployMachineClasses
<1>2. /\ UNCHANGED <<spec, readded, deleting, seen, listed, deployments, machines>>
      /\ pc \in {"classes", "redeploy"}
      /\ \/ pc' = "idle"
         \/ pc = "redeploy" /\ pc' = "deleteDeployments"
         \/ pc = "classes" /\ pc' = "images" /\ ws = Wanted(seen)
  BY <1>1 DEF DeployMachineClasses, Proceed, confVars
<1>3. \A w \in ws : ClassName(w) \in DOMAIN classes' /\ classes'[ClassName(w)] = w.zone
  <2> SUFFICES ASSUME NEW w \in ws
               PROVE  ClassName(w) \in DOMAIN classes' /\ classes'[ClassName(w)] = w.zone
    OBVIOUS
  <2>1. classes'[ClassName(w)] = ClassesOf(ws)[ClassName(w)] /\ ClassName(w) \in DOMAIN classes'
    BY <1>1 DEF DeployClasses, Write, ClassesOf
  <2>2. ClassesOf(ws)[ClassName(w)] = WantedAs(ws, w.name).zone
    BY DEF ClassesOf, ClassName
  <2> QED BY <2>1, <2>2, WantedByName
<1>4. \A c \in DOMAIN classes' :
        (\A w \in ws : c # ClassName(w)) => c \in DOMAIN classes /\ classes'[c] = classes[c]
  BY <1>1 DEF DeployClasses, Write, ClassesOf
<1>5. ClassesPlaced'
  <2>1. ASSUME NEW d \in DOMAIN deployments, d.pool \notin readded,
               [of |-> d, image |-> deployments[d].image] \in DOMAIN classes'
        PROVE  classes'[[of |-> d, image |-> deployments[d].image]] = deployments[d].zone
    <3>1. CASE \E w \in ws : [of |-> d, image |-> deployments[d].image] = ClassName(w)
      <4>1. PICK w \in ws : [of |-> d, image |-> deployments[d].image] = ClassName(w)
        BY <3>1
      <4>2. w.name = d
        BY <4>1 DEF ClassName
      <4>3. deployments[d].zone = seen[d.pool].zones[d.index]
        BY <1>2, <2>1, <4>2, WantedPlaced DEF PlacedBySeen
      <4> QED BY <1>3, <4>1, <4>2, <4>3, WantedPlaced
    <3>2. CASE \A w \in ws : [of |-> d, image |-> deployments[d].image] # ClassName(w)
      BY <1>4, <2>1, <3>2 DEF ClassesPlaced
    <3> QED BY <3>1, <3>2
  <2>2. pc' \in {"images", "deployments"} => ws = Wanted(seen)
    BY <1>2
  <2> QED BY <1>2, <1>3, <2>1, <2>2 DEF ClassesPlaced
<1> QED BY <1>2, <1>5 DEF PoolsValid, DeploymentsType, DeploymentsNamed, PoolsExtended, PlacedBySpec,
           PlacedBySeen, ListedRemoved, DeletesOnRequest, MachinesOwned,
           MachinesAreInTheirZone, SharesWritten, Written, Creating

\* A deployment is written at the position of its zone, with its share, and none
\* is written for a pool that is not in the reconciliation.
LEMMA DeployMachineDeploymentsKeepsZones == ZInv /\ DeployMachineDeployments => ZInv'
<1> SUFFICES ASSUME ZInv, DeployMachineDeployments PROVE ZInv'
  OBVIOUS
<1> USE DEF ZInv
<1>1. PICK ws \in SUBSET Wanted(seen) :
        /\ deployments' = Write(DeploymentsOf(ws), deployments)
        /\ Proceed("wait", ws = Wanted(seen))
  BY DEF DeployMachineDeployments
<1>2. /\ UNCHANGED <<spec, readded, deleting, seen, listed, classes, machines>>
      /\ pc = "deployments"
      /\ pc' = "idle" \/ (pc' = "wait" /\ ws = Wanted(seen))
  BY <1>1 DEF DeployMachineDeployments, Proceed, confVars
<1>3. /\ DOMAIN deployments' = NamesOf(ws) \union DOMAIN deployments
      /\ \A d \in NamesOf(ws) : deployments'[d] = DeploymentsOf(ws)[d]
      /\ \A d \in DOMAIN deployments \ NamesOf(ws) : deployments'[d] = deployments[d]
  BY <1>1, WrittenDeployments DEF Write
<1>4. \A w \in ws : /\ w.name \in DOMAIN deployments'
                    /\ DOMAIN deployments'[w.name] = DeploymentFields
                    /\ deployments'[w.name].image = w.image
                    /\ deployments'[w.name].zone = w.zone
                    /\ deployments'[w.name].numbers = w.numbers
  <2> TAKE w \in ws
  <2>1. w.name \in DOMAIN deployments' /\ deployments'[w.name] = DeploymentsOf(ws)[w.name]
    BY <1>3 DEF NamesOf
  <2> QED BY <2>1, WrittenDeployments
<1>5. \A w \in ws : deployments'[w.name].deleting
                      = (w.name \in DOMAIN deployments /\ deployments[w.name].deleting)
  <2> TAKE w \in ws
  <2>1. deployments'[w.name] = DeploymentsOf(ws)[w.name]
    BY <1>3 DEF NamesOf
  <2> QED BY <2>1, WrittenDeployments
<1>6. DeploymentsType'
  <2> SUFFICES ASSUME NEW d \in DOMAIN deployments'
               PROVE  DOMAIN deployments'[d] = DeploymentFields /\ deployments'[d].deleting \in BOOLEAN
    BY DEF DeploymentsType
  <2>1. CASE d \in NamesOf(ws)
    <3>1. PICK w \in ws : w.name = d
      BY <2>1 DEF NamesOf
    <3>2. deployments'[d].deleting = (d \in DOMAIN deployments /\ deployments[d].deleting)
      BY <1>5, <3>1
    <3>3. deployments'[d].deleting \in BOOLEAN
      BY <3>2, Zenon
    <3> QED BY <1>4, <3>1, <3>3
  <2>2. CASE d \notin NamesOf(ws)
    BY <1>3, <2>2 DEF DeploymentsType
  <2> QED BY <2>1, <2>2
\* What was written, by its name.
<1>7. \A d \in NamesOf(ws) :
        /\ d = [pool |-> d.pool, index |-> d.index]
        /\ d.pool \in DOMAIN seen /\ d.index \in DOMAIN seen[d.pool].zones
        /\ deployments'[d].zone = seen[d.pool].zones[d.index]
        /\ deployments'[d].numbers = Numbers(seen[d.pool], d.index)
        /\ d.pool \notin readded => ~deployments'[d].deleting
  <2> TAKE d \in NamesOf(ws)
  <2>1. PICK w \in ws : w.name = d
    BY DEF NamesOf
  <2>2. deployments'[d].deleting = (d \in DOMAIN deployments /\ deployments[d].deleting)
    BY <1>5, <2>1
  <2>3. /\ d = [pool |-> d.pool, index |-> d.index]
        /\ d.pool \in DOMAIN seen /\ d.index \in DOMAIN seen[d.pool].zones
        /\ w.zone = seen[d.pool].zones[d.index]
        /\ w.numbers = Numbers(seen[d.pool], d.index)
    BY <2>1, WantedPlaced
  <2>4. d.pool \notin readded => ~deployments'[d].deleting
    BY <1>2, <2>2, <2>3 DEF PlacedBySeen, Creating
  <2> QED BY <1>4, <2>1, <2>3, <2>4
<1>8. DeploymentsNamed'
  BY <1>3, <1>7 DEF DeploymentsNamed
<1>9. PoolsExtended'
  BY <1>2, <1>3, <1>7 DEF PoolsExtended
<1>10. PlacedBySpec'
  <2> SUFFICES ASSUME NEW d \in DOMAIN deployments', d.pool \in DOMAIN spec \ readded
               PROVE  /\ d.index \in DOMAIN spec[d.pool].zones
                      /\ deployments'[d].zone = spec[d.pool].zones[d.index]
                      /\ ~deleting => ~deployments'[d].deleting
    BY <1>2 DEF PlacedBySpec
  <2>1. CASE d \in NamesOf(ws)
    BY <1>2, <1>7, <2>1 DEF PoolsExtended, Extends
  <2>2. CASE d \notin NamesOf(ws)
    BY <1>3, <2>2 DEF PlacedBySpec
  <2> QED BY <2>1, <2>2
<1>11. PlacedBySeen'
  BY <1>2, <1>3, <1>7 DEF PlacedBySeen, Creating
<1>12. ClassesPlaced'
  <2>1. ASSUME NEW d \in DOMAIN deployments', d.pool \notin readded,
               [of |-> d, image |-> deployments'[d].image] \in DOMAIN classes
        PROVE  classes[[of |-> d, image |-> deployments'[d].image]] = deployments'[d].zone
    <3>1. CASE d \in NamesOf(ws)
      <4>1. PICK w \in ws : w.name = d
        BY <3>1 DEF NamesOf
      <4>2. [of |-> d, image |-> deployments'[d].image] = ClassName(w)
        BY <1>4, <4>1 DEF ClassName
      <4> QED BY <1>2, <1>4, <4>1, <4>2 DEF ClassesPlaced
    <3>2. CASE d \notin NamesOf(ws)
      BY <1>3, <2>1, <3>2 DEF ClassesPlaced
    <3> QED BY <3>1, <3>2
  <2> QED BY <1>2, <2>1 DEF ClassesPlaced
<1>13. MachinesOwned'
  BY <1>2, <1>3 DEF MachinesOwned
<1>14. MachinesAreInTheirZone'
  <2> SUFFICES ASSUME NEW m \in machines, m.of.pool \notin readded
               PROVE  m.zone = deployments'[m.of].zone
    BY <1>2 DEF MachinesAreInTheirZone
  <2>1. m.of \in DOMAIN deployments /\ m.zone = deployments[m.of].zone
    BY DEF MachinesOwned, MachinesAreInTheirZone
  <2>2. CASE m.of \in NamesOf(ws)
    BY <1>2, <1>7, <2>1, <2>2 DEF PlacedBySeen
  <2>3. CASE m.of \notin NamesOf(ws)
    BY <1>3, <2>1, <2>3
  <2> QED BY <2>2, <2>3
<1>15. SharesWritten'
  <2> SUFFICES ASSUME pc' = "wait", NEW p \in DOMAIN seen \ readded, NEW k \in DOMAIN seen[p].zones
               PROVE  /\ [pool |-> p, index |-> k] \in DOMAIN deployments'
                      /\ deployments'[[pool |-> p, index |-> k]].numbers = Numbers(seen[p], k)
    BY <1>2 DEF SharesWritten, Written
  <2> DEFINE d == [pool |-> p, index |-> k]
  <2>1. d \in NamesOf(ws) /\ d.pool = p /\ d.index = k
    BY <1>2, PositionsWanted
  <2> HIDE DEF d
  <2>2. d \in DOMAIN deployments' /\ deployments'[d].numbers = Numbers(seen[p], k)
    BY <1>3, <1>7, <2>1
  <2> QED BY <2>2 DEF d
<1>16. PoolsValid' /\ ListedRemoved' /\ DeletesOnRequest'
  BY <1>2 DEF PoolsValid, ListedRemoved, DeletesOnRequest, Creating
<1> QED BY <1>6, <1>8, <1>9, <1>10, <1>11, <1>12, <1>13, <1>14, <1>15, <1>16

\* Marking deployments changes neither their zone nor their numbers.
LEMMA MarkedPlaced ==
  ASSUME NEW ds, Mark(ds), DeploymentsType
  PROVE  /\ DOMAIN deployments' = DOMAIN deployments
         /\ \A d \in DOMAIN deployments :
              /\ deployments'[d].image = deployments[d].image
              /\ deployments'[d].zone = deployments[d].zone
              /\ deployments'[d].numbers = deployments[d].numbers
BY DEF Mark, DeploymentsType, DeploymentFields

\* Deployments are marked that are of removed pools, or of a Worker to be deleted.
LEMMA MarkKeepsZones ==
  ASSUME ZInv, NEW ds, Mark(ds),
         UNCHANGED <<spec, readded, deleting, seen, listed, classes, machines>>,
         \/ pc = "cleanup" /\ pc' \in {"idle", "cleanupClasses"} /\ ds \subseteq listed
         \/ pc = "deleteDeployments" /\ pc' = "deleteClasses"
  PROVE  ZInv'
<1> USE DEF ZInv
<1>1. /\ DOMAIN deployments' = DOMAIN deployments
      /\ \A d \in DOMAIN deployments :
           /\ DOMAIN deployments'[d] = DeploymentFields
           /\ deployments'[d].deleting = (deployments[d].deleting \/ d \in ds)
  BY Marked
<1>2. \A d \in DOMAIN deployments :
        /\ deployments'[d].image = deployments[d].image
        /\ deployments'[d].zone = deployments[d].zone
        /\ deployments'[d].numbers = deployments[d].numbers
  BY MarkedPlaced
<1>3. DeploymentsType'
  BY <1>1, <1>2 DEF DeploymentsType
<1>4. PlacedBySpec'
  <2>1. deleting \/ \A d \in ds : d \in DOMAIN deployments => d.pool \notin DOMAIN spec \ readded
    BY DEF DeletesOnRequest, ListedRemoved, Creating, PoolsExtended
  <2> QED BY <1>1, <1>2, <2>1 DEF PlacedBySpec
<1>5. PlacedBySeen'
  <2>1. Creating' => Creating /\ \A d \in ds : d.pool \notin DOMAIN seen \ readded
    BY DEF ListedRemoved, Creating
  <2>2. pc # "idle"
    OBVIOUS
  <2> QED BY <1>1, <1>2, <2>1, <2>2 DEF PlacedBySeen
<1>6. PoolsValid' /\ DeploymentsNamed' /\ PoolsExtended' /\ ListedRemoved' /\ DeletesOnRequest'
  BY <1>1 DEF PoolsValid, DeploymentsNamed, PoolsExtended, ListedRemoved, DeletesOnRequest, Creating
<1>7. ClassesPlaced' /\ MachinesOwned'
  BY <1>1, <1>2 DEF ClassesPlaced, MachinesOwned
<1>8. MachinesAreInTheirZone'
  BY <1>1, <1>2 DEF MachinesAreInTheirZone, MachinesOwned
<1>9. SharesWritten'
  BY <1>1, <1>2 DEF SharesWritten, Written
<1> QED BY <1>3, <1>4, <1>5, <1>6, <1>7, <1>8, <1>9

\* The two steps that mark deployments.
LEMMA CleanupKeepsZones == ZInv /\ (CleanupDeployments \/ DeleteDeployments) => ZInv'
<1> SUFFICES ASSUME ZInv, CleanupDeployments \/ DeleteDeployments PROVE ZInv'
  OBVIOUS
<1>1. CASE CleanupDeployments
  <2>1. PICK ds \in SUBSET (listed \intersect DOMAIN deployments) :
          /\ Mark(ds)
          /\ \/ /\ listed \subseteq DOMAIN deployments
                /\ Proceed("cleanupClasses", ds = listed)
             \/ /\ ~(listed \subseteq DOMAIN deployments)
                /\ pc' = "idle" /\ UNCHANGED failures
    BY <1>1 DEF CleanupDeployments
  <2>2. pc = "cleanup" /\ UNCHANGED <<spec, readded, deleting, seen, listed, classes, machines>>
    BY <1>1 DEF CleanupDeployments, confVars
  <2>3. ds \subseteq listed /\ pc' \in {"idle", "cleanupClasses"}
    BY <2>1 DEF Proceed
  <2> QED BY <2>1, <2>2, <2>3, MarkKeepsZones
<1>2. CASE DeleteDeployments
  BY <1>2, MarkKeepsZones DEF DeleteDeployments, confVars
<1> QED BY <1>1, <1>2

\* Dropping classes leaves the others as they are.
LEMMA DroppingClassesKeepsZones == ZInv /\ (CleanupClasses \/ DeleteClasses) => ZInv'
<1> SUFFICES ASSUME ZInv, CleanupClasses \/ DeleteClasses PROVE ZInv'
  OBVIOUS
<1>1. /\ UNCHANGED <<spec, readded, deleting, seen, listed, deployments, machines>>
      /\ DOMAIN classes' \subseteq DOMAIN classes
      /\ \A c \in DOMAIN classes' : classes'[c] = classes[c]
      /\ \/ pc = "cleanupClasses" /\ pc' \in {"idle", "waitUnwanted"}
         \/ pc = "deleteClasses" /\ pc' = "waitDeleted"
  <2>1. CASE CleanupClasses
    <3>1. PICK cs : classes' = [c \in DOMAIN classes \ cs |-> classes[c]]
      BY <2>1 DEF CleanupClasses
    <3>2. pc = "cleanupClasses" /\ pc' \in {"idle", "waitUnwanted"}
      BY <2>1 DEF CleanupClasses, Proceed
    <3> QED BY <2>1, <3>1, <3>2 DEF CleanupClasses, confVars
  <2>2. CASE DeleteClasses
    <3>1. DOMAIN classes' = {} /\ pc = "deleteClasses" /\ pc' = "waitDeleted"
      BY <2>2 DEF DeleteClasses
    <3> QED BY <2>2, <3>1 DEF DeleteClasses, confVars
  <2> QED BY <2>1, <2>2
<1> QED BY <1>1 DEF ZInv, DeploymentsType, PoolsValid, DeploymentsNamed, PoolsExtended,
           PlacedBySpec, PlacedBySeen, ClassesPlaced, ListedRemoved, DeletesOnRequest,
           MachinesOwned, MachinesAreInTheirZone, SharesWritten, Written, Creating

\* A machine gets the zone of its class; a deployment goes after its machines, and
\* not while it is wanted.
LEMMA MCMKeepsZones == ZInv /\ MCM => ZInv'
<1> SUFFICES ASSUME ZInv, MCM PROVE ZInv'
  OBVIOUS
<1> USE DEF ZInv
<1>1. CASE CreateMachine
  <2>1. PICK d \in DOMAIN deployments :
          LET c == [of |-> d, image |-> deployments[d].image] IN
          /\ c \in DOMAIN classes
          /\ machines' = machines \union {[of |-> d, image |-> c.image, zone |-> classes[c]]}
    BY <1>1 DEF CreateMachine
  <2>2. UNCHANGED <<spec, readded, deleting, pc, seen, listed, classes, deployments>>
    BY <1>1 DEF CreateMachine, confVars
  <2>3. MachinesOwned' /\ MachinesAreInTheirZone'
    BY <2>1, <2>2 DEF MachinesOwned, MachinesAreInTheirZone, ClassesPlaced
  <2> QED BY <2>2, <2>3 DEF DeploymentsType, PoolsValid, DeploymentsNamed, PoolsExtended,
             PlacedBySpec, PlacedBySeen, ClassesPlaced, ListedRemoved, DeletesOnRequest,
             SharesWritten, Written, Creating
<1>2. CASE RetireMachine
  <2>1. /\ UNCHANGED <<spec, readded, deleting, pc, seen, listed, classes, deployments>>
        /\ machines' \subseteq machines
    BY <1>2 DEF RetireMachine, confVars
  <2> QED BY <2>1 DEF DeploymentsType, PoolsValid, DeploymentsNamed, PoolsExtended,
             PlacedBySpec, PlacedBySeen, ClassesPlaced, ListedRemoved, DeletesOnRequest,
             MachinesOwned, MachinesAreInTheirZone, SharesWritten, Written, Creating
<1>3. CASE RemoveDeployment
  <2>1. PICK d \in DOMAIN deployments :
          /\ deployments[d].deleting /\ MachinesOf(d) = {}
          /\ deployments' = [e \in DOMAIN deployments \ {d} |-> deployments[e]]
    BY <1>3 DEF RemoveDeployment
  <2>2. UNCHANGED <<spec, readded, deleting, pc, seen, listed, classes, machines>>
    BY <1>3 DEF RemoveDeployment, confVars
  <2>3. MachinesOwned' /\ MachinesAreInTheirZone'
    BY <2>1, <2>2 DEF MachinesOwned, MachinesAreInTheirZone, MachinesOf
  <2>4. SharesWritten'
    <3>1. Written => d.pool \notin DOMAIN seen \ readded
      BY <2>1 DEF PlacedBySeen, Written, Creating
    <3>2. Written' = Written
      BY <2>2 DEF Written
    <3>3. \A e \in DOMAIN deployments :
            e.pool # d.pool => e \in DOMAIN deployments' /\ deployments'[e] = deployments[e]
      BY <2>1
    <3> QED BY <2>2, <3>1, <3>2, <3>3 DEF SharesWritten
  <2> QED BY <2>1, <2>2, <2>3, <2>4 DEF DeploymentsType, PoolsValid, DeploymentsNamed,
             PoolsExtended, PlacedBySpec, PlacedBySeen, ClassesPlaced, ListedRemoved,
             DeletesOnRequest, Creating
<1> QED BY <1>1, <1>2, <1>3 DEF MCM

\* Every step keeps zones and shares.
LEMMA NextKeepsZones == ZInv /\ [Next]_vars => ZInv'
<1> SUFFICES ASSUME ZInv, [Next]_vars PROVE ZInv'
  OBVIOUS
<1>1. CASE Environment
  <2>1. CASE DropImage \/ DropMachineType \/ DropZone \/ DeleteWorker
    BY <2>1, StageKeepsZones
       DEF DropImage, DropMachineType, DropZone, DeleteWorker, Changed, objects
  <2> QED BY <1>1, <2>1, UpdateShootKeepsZones DEF Environment
<1>2. CASE Controller
  <2>1. CASE UpdateMachineImagesStatus \/ WaitUntilAvailable \/ WaitUntilUnwantedDeleted
             \/ WaitUntilDeleted \/ Timeout
    BY <2>1, StageKeepsZones DEF UpdateMachineImagesStatus, WaitUntilAvailable,
       WaitUntilUnwantedDeleted, WaitUntilDeleted, Timeout, confVars
  <2> QED BY <1>2, <2>1, BeginKeepsZones, DeployMachineClassesKeepsZones,
             DeployMachineDeploymentsKeepsZones, CleanupKeepsZones,
             DroppingClassesKeepsZones DEF Controller
<1>3. CASE Fail
  BY <1>3, StageKeepsZones DEF Fail, confVars
<1>4. CASE UNCHANGED vars
  BY <1>4, StageKeepsZones DEF vars, confVars
<1> QED BY <1>1, <1>2, <1>3, <1>4, MCMKeepsZones DEF Next

-----------------------------------------------------------------------------

\* Machines are in the zone of their deployment: a reconciliation generates zones by
\* their position in the pools it began with, positions keep their zones as long as
\* a pool is not removed, and a class is written before the deployment that refers
\* to it.
THEOREM ZonesKept == Spec => []MachinesAreInTheirZone
<1>1. ZInv => MachinesAreInTheirZone
  BY DEF ZInv
<1> QED BY InitZInv, NextKeepsZones, <1>1, PTL DEF Spec

\* Once a reconciliation has written its deployments, and until it ends, the numbers
\* of a pool are spread over its zones without loss: the shares of minimum and
\* maximum, and of surge and unavailability where these are not percentages, add up.
\* Those of the maximum differ by one at most, and a surge that is a percentage above
\* zero, or one machine per zone, leaves room to roll each zone that may have machines.
THEOREM SharesKept == Spec => []CapacityKept
<1>1. ZInv => CapacityKept
  <2> SUFFICES ASSUME ZInv, Written, NEW p \in DOMAIN seen \ readded
               PROVE  LET Share(k) == deployments[[pool |-> p, index |-> k]].numbers
                          zones == DOMAIN seen[p].zones IN
                      /\ MapThenSumSet(LAMBDA k : Share(k).minimum, zones) = seen[p].minimum
                      /\ MapThenSumSet(LAMBDA k : Share(k).maximum, zones) = seen[p].maximum
                      /\ \A k, l \in zones : Share(k).maximum <= Share(l).maximum + 1
                      /\ ~seen[p].surge.percent =>
                           MapThenSumSet(LAMBDA k : Share(k).surge.value, zones)
                             = seen[p].surge.value
                      /\ ~seen[p].unavailable.percent =>
                           MapThenSumSet(LAMBDA k : Share(k).unavailable.value, zones)
                             = seen[p].unavailable.value
                      /\ \A k \in zones :
                           /\ Share(k).maximum > 0
                           /\ seen[p].surge.value
                                >= IF seen[p].surge.percent THEN 1 ELSE Len(seen[p].zones)
                           => Share(k).surge.value + Share(k).unavailable.value > 0
    BY Zenon DEF CapacityKept, Written
  <2> DEFINE n == Len(seen[p].zones)
  <2>1. /\ n \in Nat \ {0} /\ DOMAIN seen[p].zones = 1 .. n
        /\ seen[p].minimum \in Nat /\ seen[p].maximum \in Nat
        /\ seen[p].surge \in IntOrPercent /\ seen[p].unavailable \in IntOrPercent
    <3>1. seen \in Specs /\ ValidWorkers(seen)
      BY DEF ZInv, PoolsValid, Written
    <3>2. seen[p].zones \in Seq(Zone) /\ seen[p].zones # <<>>
      BY <3>1, SpecsAssumption DEF ValidWorkers
    <3> QED BY <3>1, <3>2, SpecsAssumption
  <2>2. \A k \in 1 .. n : deployments[[pool |-> p, index |-> k]].numbers = Numbers(seen[p], k)
    BY <2>1 DEF ZInv, SharesWritten
  <2> HIDE DEF n
  <2>3. \A k \in 1 .. n :
          LET share == deployments[[pool |-> p, index |-> k]].numbers IN
          /\ share.minimum = DistributeOverZones(k, seen[p].minimum, n)
          /\ share.maximum = DistributeOverZones(k, seen[p].maximum, n)
          /\ share.surge = DistributePositiveIntOrPercent(k, seen[p].surge, n, seen[p].maximum)
          /\ share.unavailable
               = DistributePositiveIntOrPercent(k, seen[p].unavailable, n, seen[p].minimum)
    <3> TAKE k \in 1 .. n
    <3>1. deployments[[pool |-> p, index |-> k]].numbers
            = [minimum |-> DistributeOverZones(k, seen[p].minimum, n),
               maximum |-> DistributeOverZones(k, seen[p].maximum, n),
               surge |-> DistributePositiveIntOrPercent(k, seen[p].surge, n, seen[p].maximum),
               unavailable |->
                 DistributePositiveIntOrPercent(k, seen[p].unavailable, n, seen[p].minimum)]
      BY <2>2, Zenon DEF Numbers, n
    <3> QED BY <3>1
  <2>4. MapThenSumSet(LAMBDA k : deployments[[pool |-> p, index |-> k]].numbers.minimum, 1 .. n)
          = seen[p].minimum
    <3>1. \A k \in 1 .. n : deployments[[pool |-> p, index |-> k]].numbers["minimum"]
                              = DistributeOverZones(k, seen[p].minimum, n)
      BY <2>3
    <3>2. SumOf(deployments, p, "minimum", 1 .. n)[1 .. n] = seen[p].minimum
      BY <2>1, <3>1, SumOfShares
    <3>3. MapThenSumSet(LAMBDA k : deployments[[pool |-> p, index |-> k]].numbers.minimum, 1 .. n)
            = SumOf(deployments, p, "minimum", 1 .. n)[1 .. n]
      BY Zenon DEF MapThenSumSet, MapThenFoldSet, SumOf, First
    <3> QED BY <3>2, <3>3
  <2>5. MapThenSumSet(LAMBDA k : deployments[[pool |-> p, index |-> k]].numbers.maximum, 1 .. n)
          = seen[p].maximum
    <3>1. \A k \in 1 .. n : deployments[[pool |-> p, index |-> k]].numbers["maximum"]
                              = DistributeOverZones(k, seen[p].maximum, n)
      BY <2>3
    <3>2. SumOf(deployments, p, "maximum", 1 .. n)[1 .. n] = seen[p].maximum
      BY <2>1, <3>1, SumOfShares
    <3>3. MapThenSumSet(LAMBDA k : deployments[[pool |-> p, index |-> k]].numbers.maximum, 1 .. n)
            = SumOf(deployments, p, "maximum", 1 .. n)[1 .. n]
      BY Zenon DEF MapThenSumSet, MapThenFoldSet, SumOf, First
    <3> QED BY <3>2, <3>3
  <2>6. \A k, l \in 1 .. n : deployments[[pool |-> p, index |-> k]].numbers.maximum
                              <= deployments[[pool |-> p, index |-> l]].numbers.maximum + 1
    BY <2>1, <2>3, SharesAreEven
  <2>7. ASSUME ~seen[p].surge.percent
        PROVE  MapThenSumSet(LAMBDA k : deployments[[pool |-> p, index |-> k]].numbers.surge.value,
                             1 .. n) = seen[p].surge.value
    <3>1. \A k \in 1 .. n : deployments[[pool |-> p, index |-> k]].numbers["surge"].value
                              = DistributeOverZones(k, seen[p].surge.value, n)
      <4> TAKE k \in 1 .. n
      <4>1. DistributePositiveIntOrPercent(k, seen[p].surge, n, seen[p].maximum).value
              = DistributeOverZones(k, seen[p].surge.value, n)
        BY <2>1, <2>7, DistributedType
      <4> QED BY <2>3, <4>1
    <3>2. seen[p].surge.value \in Nat
      BY <2>1 DEF IntOrPercent
    <3>3. SumOfValues(deployments, p, "surge", 1 .. n)[1 .. n] = seen[p].surge.value
      BY <2>1, <3>1, <3>2, SumOfShareValues
    <3>4. MapThenSumSet(LAMBDA k : deployments[[pool |-> p, index |-> k]].numbers.surge.value, 1 .. n)
            = SumOfValues(deployments, p, "surge", 1 .. n)[1 .. n]
      BY Zenon DEF MapThenSumSet, MapThenFoldSet, SumOfValues, First
    <3> QED BY <3>3, <3>4
  <2>8. ASSUME ~seen[p].unavailable.percent
        PROVE  MapThenSumSet(LAMBDA k : deployments[[pool |-> p, index |-> k]].numbers.unavailable.value,
                             1 .. n) = seen[p].unavailable.value
    <3>1. \A k \in 1 .. n : deployments[[pool |-> p, index |-> k]].numbers["unavailable"].value
                              = DistributeOverZones(k, seen[p].unavailable.value, n)
      <4> TAKE k \in 1 .. n
      <4>1. DistributePositiveIntOrPercent(k, seen[p].unavailable, n, seen[p].minimum).value
              = DistributeOverZones(k, seen[p].unavailable.value, n)
        BY <2>1, <2>8, DistributedType
      <4> QED BY <2>3, <4>1
    <3>2. seen[p].unavailable.value \in Nat
      BY <2>1 DEF IntOrPercent
    <3>3. SumOfValues(deployments, p, "unavailable", 1 .. n)[1 .. n] = seen[p].unavailable.value
      BY <2>1, <3>1, <3>2, SumOfShareValues
    <3>4. MapThenSumSet(LAMBDA k : deployments[[pool |-> p, index |-> k]].numbers.unavailable.value, 1 .. n)
            = SumOfValues(deployments, p, "unavailable", 1 .. n)[1 .. n]
      BY Zenon DEF MapThenSumSet, MapThenFoldSet, SumOfValues, First
    <3> QED BY <3>3, <3>4
  <2>9. ASSUME NEW k \in 1 .. n,
               deployments[[pool |-> p, index |-> k]].numbers.maximum > 0,
               seen[p].surge.value >= IF seen[p].surge.percent THEN 1 ELSE n
        PROVE  deployments[[pool |-> p, index |-> k]].numbers.surge.value
                 + deployments[[pool |-> p, index |-> k]].numbers.unavailable.value > 0
    <3> DEFINE s == DistributePositiveIntOrPercent(k, seen[p].surge, n, seen[p].maximum).value
               u == DistributePositiveIntOrPercent(k, seen[p].unavailable, n, seen[p].minimum).value
    <3>1. DistributeOverZones(k, seen[p].maximum, n) > 0
      BY <2>3, <2>9
    <3>2. seen[p].surge.value \in Nat /\ seen[p].surge.percent \in BOOLEAN
      BY <2>1 DEF IntOrPercent
    <3>3. s \in Nat /\ u \in Nat
      BY <2>1, DistributedType
    <3>4. s > 0
      <4>1. CASE seen[p].surge.percent
        <5>1. seen[p].surge.value > 0
          BY <2>9, <3>2, <4>1
        <5>2. /\ seen[p].surge \in IntOrPercent /\ seen[p].maximum \in Nat
              /\ n \in Nat \ {0} /\ k \in 1 .. n
          BY <2>1
        <5>3. (/\ seen[p].surge.percent /\ seen[p].surge.value > 0
               /\ DistributeOverZones(k, seen[p].maximum, n) > 0) => s > 0
          BY <5>2, DistributedType
        <5> HIDE DEF s
        <5> QED BY <3>1, <4>1, <5>1, <5>3
      <4>2. CASE ~seen[p].surge.percent
        <5>1. DistributeOverZones(k, seen[p].surge.value, n) > 0
          BY <2>1, <2>9, <3>2, <4>2, EachGetsOne
        <5>2. s = DistributeOverZones(k, seen[p].surge.value, n)
          BY <2>1, <4>2, DistributedType
        <5> HIDE DEF s
        <5> QED BY <5>1, <5>2
      <4> QED BY <4>1, <4>2
    <3>5. /\ deployments[[pool |-> p, index |-> k]].numbers.surge.value = s
          /\ deployments[[pool |-> p, index |-> k]].numbers.unavailable.value = u
      BY <2>3
    <3> HIDE DEF s, u
    <3> QED BY <3>3, <3>4, <3>5
  <2> QED BY <2>1, <2>4, <2>5, <2>6, <2>7, <2>8, <2>9, Zenon DEF n
<1> QED BY InitZInv, NextKeepsZones, <1>1, PTL DEF Spec
=============================================================================
