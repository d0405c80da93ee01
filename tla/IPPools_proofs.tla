---------------------------- MODULE IPPools_proofs ----------------------------
(***************************************************************************)
(* Proofs about the searches through pages and about the commands that     *)
(* create and delete IP pools, for every page size, every number of pools, *)
(* allocations, operators and commands.                                    *)
(*                                                                         *)
(* A search counts what it has seen and stops at the total that its first  *)
(* page announced. The heart of the argument is that as long as nothing is *)
(* added to the list, what was seen and what lies beyond the cursor are    *)
(* together no more than that total (Ahead).                               *)
(***************************************************************************)
EXTENDS IPPools, TLAPS, FiniteSetTheorems, WellFoundedInduction

\* Objects of a list are known by their ids.
Identified(objects) ==
  /\ IsFiniteSet(objects)
  /\ \A o \in objects : o.id \in Nat \ {0}
  /\ \A o, p \in objects : o.id = p.id => o = p

IdsOf(objects) == {o.id : o \in objects}

\* The ids that a list has beyond a cursor.
Beyond(objects, cursor) == {id \in IdsOf(objects) : id > cursor}

\* A search that has not found what was there all the time has it still before it,
\* and has not seen so many objects that what is before it exceeds the total that
\* was announced. This is the strengthening that SearchFinds needs.
Ahead(objects, s, what) ==
  \/ s = Started
  \/ /\ s.cursor \in Nat \ {0} /\ s.count \in Nat /\ s.total \in Nat
     /\ what \subseteq Beyond(objects, s.cursor)
     /\ s.count + Cardinality(Beyond(objects, s.cursor)) <= s.total

Searching(objects, matching) ==
  /\ kept \subseteq IdsOf(matching)
  /\ kept # {} /\ ~grown => Ahead(objects, search, kept)

ListsInv ==
  /\ Identified(pools) /\ Identified(allocs)
  /\ \A p \in pools : /\ p = [id |-> p.id, name |-> p.id, subnet |-> p.subnet]
                      /\ p.subnet \in BOOLEAN
  /\ \A a \in allocs : a.mine \in BOOLEAN

SearchInv ==
  /\ grown \in BOOLEAN
  /\ ctl = "lookup" => Searching(pools, Named(SNATPool)) /\ ended = "none"
  /\ ctl = "recover" => Searching(In(poolRef), Mine(In(poolRef))) /\ ended = "none"

CommandsInv ==
  /\ DOMAIN cli = Client
  /\ \A c \in Client : /\ cli[c] = [pc |-> cli[c].pc, pool |-> cli[c].pool]
                       /\ cli[c].pool \in IF At(c, "idle") THEN {NoPool} ELSE PoolName

IInv == ListsInv /\ SearchInv /\ CommandsInv /\ SearchFinds /\ HalfPoolsAreReported

-----------------------------------------------------------------------------
(* Sets of numbers.                                                        *)

\* A finite set of numbers that is not empty has a least and a largest member: the
\* smallest of the sets of numbers up to, or from, one of its members.
LEMMA HasLeast ==
  ASSUME NEW S, IsFiniteSet(S), S \subseteq Int, S # {}
  PROVE  \E x \in S : \A y \in S : x <= y
<1> DEFINE Below(x) == {y \in S : y <= x}
           T == {Below(x) : x \in S}
<1>1. T \subseteq FiniteSubsetsOf(S) /\ T # {}
  <2>1. \A x \in S : Below(x) \in FiniteSubsetsOf(S)
    <3> TAKE x \in S
    <3>1. Below(x) \in SUBSET S
      OBVIOUS
    <3> HIDE DEF Below
    <3>2. IsFiniteSet(Below(x))
      BY <3>1, FS_Subset
    <3> QED BY <3>1, <3>2 DEF FiniteSubsetsOf
  <2> HIDE DEF Below
  <2> QED BY <2>1
<1>2. PICK t \in T : \A u \in T : <<u, t>> \notin StrictSubsetOrdering(S)
  <2> HIDE DEF T
  <2> QED BY <1>1, FS_StrictSubsetOrderingWellFounded, WFMin, Zenon
<1>3. PICK x \in S : t = Below(x)
  OBVIOUS
<1>4. ASSUME NEW y \in S, y < x PROVE FALSE
  <2>1. x \in Int /\ y \in Int
    OBVIOUS
  <2>2. \A z \in S : z \in Int
    OBVIOUS
  <2>3. Below(y) \subseteq Below(x)
    <3> SUFFICES ASSUME NEW z \in Below(y) PROVE z \in Below(x)
      OBVIOUS
    <3>1. z \in S /\ z \in Int
      BY <2>2
    <3> QED BY <1>4, <2>1, <3>1
  <2>4. x \in Below(x) /\ x \notin Below(y) /\ Below(x) \subseteq S
    BY <1>4, <2>1
  <2>5. Below(y) \in T
    OBVIOUS
  <2>6. <<Below(y), Below(x)>> \in StrictSubsetOrdering(S)
    <3> HIDE DEF Below
    <3> QED BY <2>3, <2>4 DEF StrictSubsetOrdering
  <2> HIDE DEF T, Below
  <2> QED BY <1>2, <1>3, <2>5, <2>6
<1>5. \A y \in S : y \in Int /\ x \in Int
  OBVIOUS
<1> QED BY <1>4, <1>5

\* The same in the other direction.
LEMMA HasLargest ==
  ASSUME NEW S, IsFiniteSet(S), S \subseteq Int, S # {}
  PROVE  \E x \in S : \A y \in S : y <= x
<1> DEFINE Above(x) == {y \in S : x <= y}
           T == {Above(x) : x \in S}
<1>1. T \subseteq FiniteSubsetsOf(S) /\ T # {}
  <2>1. \A x \in S : Above(x) \in FiniteSubsetsOf(S)
    <3> TAKE x \in S
    <3>1. Above(x) \in SUBSET S
      OBVIOUS
    <3> HIDE DEF Above
    <3>2. IsFiniteSet(Above(x))
      BY <3>1, FS_Subset
    <3> QED BY <3>1, <3>2 DEF FiniteSubsetsOf
  <2> HIDE DEF Above
  <2> QED BY <2>1
<1>2. PICK t \in T : \A u \in T : <<u, t>> \notin StrictSubsetOrdering(S)
  <2> HIDE DEF T
  <2> QED BY <1>1, FS_StrictSubsetOrderingWellFounded, WFMin, Zenon
<1>3. PICK x \in S : t = Above(x)
  OBVIOUS
<1>4. ASSUME NEW y \in S, x < y PROVE FALSE
  <2>1. x \in Int /\ y \in Int
    OBVIOUS
  <2>2. \A z \in S : z \in Int
    OBVIOUS
  <2>3. Above(y) \subseteq Above(x)
    <3> SUFFICES ASSUME NEW z \in Above(y) PROVE z \in Above(x)
      OBVIOUS
    <3>1. z \in S /\ z \in Int
      BY <2>2
    <3> QED BY <1>4, <2>1, <3>1
  <2>4. x \in Above(x) /\ x \notin Above(y) /\ Above(x) \subseteq S
    BY <1>4, <2>1
  <2>5. Above(y) \in T
    OBVIOUS
  <2>6. <<Above(y), Above(x)>> \in StrictSubsetOrdering(S)
    <3> HIDE DEF Above
    <3> QED BY <2>3, <2>4 DEF StrictSubsetOrdering
  <2> HIDE DEF T, Above
  <2> QED BY <1>2, <1>3, <2>5, <2>6
<1>5. \A y \in S : y \in Int /\ x \in Int
  OBVIOUS
<1> QED BY <1>4, <1>5

\* Identified objects are as many as their ids.
LEMMA AsManyIds ==
  ASSUME NEW objects, Identified(objects)
  PROVE  /\ IsFiniteSet(IdsOf(objects))
         /\ Cardinality(IdsOf(objects)) = Cardinality(objects)
<1> DEFINE f == [o \in objects |-> o.id]
<1>1. f \in Bijection(objects, IdsOf(objects))
  <2>1. f \in [objects -> IdsOf(objects)]
    BY DEF IdsOf
  <2>2. \A o, p \in objects : f[o] = f[p] => o = p
    BY DEF Identified
  <2>3. \A id \in IdsOf(objects) : \E o \in objects : f[o] = id
    BY DEF IdsOf
  <2> HIDE DEF f
  <2> QED BY <2>1, <2>2, <2>3 DEF Bijection, Injection, Surjection, IsInjective
<1>2. ExistsBijection(objects, IdsOf(objects))
  BY <1>1 DEF ExistsBijection
<1> QED BY <1>2, FS_Bijection DEF Identified

\* Some of them are identified as well.
LEMMA SomeIdentified ==
  ASSUME NEW objects, Identified(objects), NEW some \in SUBSET objects
  PROVE  Identified(some)
BY FS_Subset DEF Identified

\* What a list has beyond a cursor is a finite set.
LEMMA BeyondFinite ==
  ASSUME NEW objects, Identified(objects), NEW cursor
  PROVE  /\ IsFiniteSet(Beyond(objects, cursor))
         /\ Cardinality(Beyond(objects, cursor)) \in Nat
BY AsManyIds, FS_Subset, FS_CardinalityType DEF Beyond

-----------------------------------------------------------------------------
(* Pages.                                                                  *)

\* A page of a list that is not empty has an object, and all that come before it.
LEMMA FirstPage ==
  ASSUME NEW rest, Identified(rest)
  PROVE  LET page == FirstOf(rest, PageSize) IN
         /\ page \subseteq rest
         /\ \A o \in page, p \in rest : p.id <= o.id => p \in page
         /\ rest # {} => page # {}
<1> DEFINE page == FirstOf(rest, PageSize)
           UpTo(o) == {p \in rest : p.id <= o.id}
<1>1. page \subseteq rest
  BY DEF FirstOf
<1>2. ASSUME NEW o \in page, NEW p \in rest, p.id <= o.id PROVE p \in page
  <2>1. UpTo(p) \subseteq UpTo(o)
    <3> SUFFICES ASSUME NEW q \in rest, q.id <= p.id PROVE q.id <= o.id
      OBVIOUS
    <3>1. q.id \in Int /\ p.id \in Int /\ o.id \in Int
      BY <1>1 DEF Identified
    <3> QED BY <1>2, <3>1
  <2>2. IsFiniteSet(UpTo(o)) /\ UpTo(o) \subseteq rest
    <3>1. UpTo(o) \in SUBSET rest
      OBVIOUS
    <3> HIDE DEF UpTo
    <3> QED BY <3>1, FS_Subset DEF Identified
  <2>3. Cardinality(UpTo(p)) <= Cardinality(UpTo(o)) /\ IsFiniteSet(UpTo(p))
    <3> HIDE DEF UpTo
    <3> QED BY <2>1, <2>2, FS_Subset
  <2>4. Cardinality(UpTo(p)) \in Nat /\ Cardinality(UpTo(o)) \in Nat
    <3> HIDE DEF UpTo
    <3> QED BY <2>2, <2>3, FS_CardinalityType
  <2>5. Cardinality(UpTo(o)) <= PageSize
    BY DEF FirstOf
  <2>6. Cardinality(UpTo(p)) <= PageSize
    <3> HIDE DEF UpTo
    <3> QED BY <2>3, <2>4, <2>5, PageSizeAssumption
  <2> QED BY <2>6 DEF FirstOf
<1>3. ASSUME rest # {} PROVE page # {}
  <2>1. IsFiniteSet(IdsOf(rest)) /\ IdsOf(rest) \subseteq Int /\ IdsOf(rest) # {}
    BY <1>3, AsManyIds DEF Identified, IdsOf
  <2>2. PICK least \in IdsOf(rest) : \A id \in IdsOf(rest) : least <= id
    BY <2>1, HasLeast
  <2>3. PICK o \in rest : o.id = least
    BY DEF IdsOf
  <2>4. UpTo(o) = {o}
    <3> SUFFICES ASSUME NEW p \in rest, p.id <= o.id PROVE p = o
      BY <2>3 DEF Identified
    <3>1. o.id <= p.id /\ o.id \in Int /\ p.id \in Int
      BY <2>2, <2>3 DEF IdsOf, Identified
    <3>2. o.id = p.id
      BY <3>1
    <3> QED BY <3>2 DEF Identified
  <2>5. Cardinality(UpTo(o)) = 1
    BY <2>4, FS_Singleton
  <2>6. o \in page
    BY <2>5, PageSizeAssumption DEF FirstOf
  <2> QED BY <2>6
<1> QED BY <1>1, <1>2, <1>3

\* A page and the cursor behind it split what was beyond the cursor before.
LEMMA Paging ==
  ASSUME NEW objects, Identified(objects), NEW cursor \in Nat,
         List(objects, cursor).results # {o \in objects : o.id > cursor}
  PROVE  LET page == List(objects, cursor) IN
         /\ page.cursor \in Nat \ {0} /\ page.cursor > cursor
         /\ page.total \in Nat
         /\ page.results \subseteq objects /\ page.results # {}
         /\ \A o \in objects : o.id > cursor /\ o \notin page.results => o.id > page.cursor
         /\ Cardinality(page.results) \in Nat
         /\ Cardinality(page.results) + Cardinality(Beyond(objects, page.cursor))
              = Cardinality(Beyond(objects, cursor))
<1> DEFINE rest == {o \in objects : o.id > cursor}
           page == FirstOf(rest, PageSize)
           c == Max({o.id : o \in page})
<1>1. /\ List(objects, cursor).results = page
      /\ List(objects, cursor).total = Cardinality(objects)
      /\ List(objects, cursor).cursor = c
  BY DEF List, NoCursor
<1>2. Identified(rest) /\ rest \subseteq objects
  BY SomeIdentified
<1>3. \A o \in rest : o.id \in Nat \ {0} /\ o.id > cursor
  BY <1>2 DEF Identified
<1>4. page # rest
  BY <1>1
<1>5. /\ page \subseteq rest /\ page # {}
      /\ \A o \in page, p \in rest : p.id <= o.id => p \in page
  <2> HIDE DEF rest
  <2> QED BY <1>2, <1>4, FirstPage
<1> HIDE DEF rest, page
<1>6. /\ c \in IdsOf(page) /\ \A id \in IdsOf(page) : id <= c
  <2>1. IsFiniteSet(IdsOf(page)) /\ IdsOf(page) \subseteq Int /\ IdsOf(page) # {}
    <3>1. Identified(page)
      BY <1>2, <1>5, SomeIdentified
    <3>2. IdsOf(page) \subseteq Int /\ IdsOf(page) # {}
      BY <1>3, <1>5 DEF IdsOf
    <3> QED BY <3>1, <3>2, AsManyIds
  <2>2. \E x \in IdsOf(page) : \A y \in IdsOf(page) : y <= x
    BY <2>1, HasLargest
  <2>3. \E x \in IdsOf(page) : \A y \in IdsOf(page) : x >= y
    BY <2>1, <2>2
  <2>4. c = CHOOSE x \in IdsOf(page) : \A y \in IdsOf(page) : x >= y
    BY DEF Max, IdsOf
  <2>5. c \in IdsOf(page) /\ \A y \in IdsOf(page) : c >= y
    BY <2>3, <2>4
  <2> HIDE DEF c
  <2> QED BY <2>1, <2>5
<1>7. PICK last \in page : last.id = c
  BY <1>6 DEF IdsOf
<1> HIDE DEF c
<1>8. c \in Nat \ {0} /\ c > cursor
  BY <1>3, <1>5, <1>7
<1>9. \A o \in rest : o \in page <=> o.id <= c
  <2> TAKE o \in rest
  <2>1. o \in page => o.id <= c
    BY <1>6 DEF IdsOf
  <2>2. o.id <= c => o \in page
    BY <1>5, <1>7
  <2> QED BY <2>1, <2>2
<1>10. \A o \in objects : o.id > cursor /\ o \notin page => o.id > c
  <2> TAKE o \in objects
  <2>1. o.id > cursor => o \in rest
    BY DEF rest
  <2>2. o.id \in Int /\ c \in Int
    BY <1>8 DEF Identified
  <2> QED BY <1>9, <2>1, <2>2
<1>11. Beyond(objects, cursor) = IdsOf(page) \union Beyond(objects, c)
  <2>1. ASSUME NEW o \in objects, o.id > cursor PROVE o \in page \/ o.id > c
    BY <1>10, <2>1
  <2>2. ASSUME NEW o \in page PROVE o \in objects /\ o.id > cursor
    BY <1>2, <1>3, <1>5
  <2>3. ASSUME NEW o \in objects, o.id > c PROVE o.id > cursor
    <3>1. o.id \in Int
      BY DEF Identified
    <3> QED BY <1>8, <2>3, <3>1
  <2> QED BY <2>1, <2>2, <2>3 DEF Beyond, IdsOf
<1>12. IdsOf(page) \intersect Beyond(objects, c) = {}
  <2> SUFFICES ASSUME NEW o \in page, o.id > c PROVE FALSE
    BY DEF IdsOf, Beyond
  <2>1. o.id <= c /\ o.id \in Int
    BY <1>3, <1>5, <1>9
  <2> QED BY <1>8, <2>1
<1>13. /\ IsFiniteSet(IdsOf(page)) /\ Cardinality(IdsOf(page)) = Cardinality(page)
       /\ IsFiniteSet(Beyond(objects, c)) /\ Cardinality(page) \in Nat
  <2>1. Identified(page)
    BY <1>2, <1>5, SomeIdentified
  <2> QED BY <2>1, AsManyIds, BeyondFinite, FS_CardinalityType
<1>14. Cardinality(Beyond(objects, cursor)) = Cardinality(page) + Cardinality(Beyond(objects, c))
  BY <1>11, <1>12, <1>13, FS_Union, FS_EmptySet, FS_CardinalityType
<1>15. Cardinality(objects) \in Nat
  BY FS_CardinalityType DEF Identified
<1>16. page \subseteq objects
  BY <1>2, <1>5
<1> QED BY <1>1, <1>5, <1>8, <1>10, <1>13, <1>14, <1>15, <1>16

-----------------------------------------------------------------------------
(* One page of a search.                                                   *)

\* A page without what is searched leaves that ahead, and is not the last one.
LEMMA NotOnPage ==
  ASSUME NEW objects, Identified(objects), NEW s, Ahead(objects, s, kept),
         NEW matching \in SUBSET objects, kept \subseteq IdsOf(matching), kept # {},
         List(objects, s.cursor).results \intersect matching = {}
  PROVE  LET page == List(objects, s.cursor)
             next == NextPage(s, page) IN
         /\ s.cursor \in Nat /\ page.results # {}
         /\ next # Started /\ next.cursor # NoCursor
         /\ Ahead(objects, next, kept) /\ ~Exhausted(next)
<1> DEFINE page == List(objects, s.cursor)
           next == NextPage(s, page)
<1>1. s.cursor \in Nat /\ kept \subseteq Beyond(objects, s.cursor)
  <2>1. CASE s = Started
    <3>1. s.cursor = 0
      BY <2>1 DEF Started, NoCursor
    <3>2. \A id \in IdsOf(objects) : id > 0
      BY DEF Identified, IdsOf
    <3>3. kept \subseteq IdsOf(objects)
      BY DEF IdsOf
    <3> QED BY <3>1, <3>2, <3>3 DEF Beyond
  <2>2. CASE s # Started
    BY <2>2 DEF Ahead
  <2> QED BY <2>1, <2>2
<1>2. PICK o \in matching : o.id \in kept
  BY DEF IdsOf
<1>3. o \in objects /\ o.id > s.cursor /\ o \notin page.results
  BY <1>1, <1>2 DEF Beyond
<1>4. page.results # {x \in objects : x.id > s.cursor}
  BY <1>3
<1>5. /\ page.cursor \in Nat \ {0} /\ page.cursor > s.cursor
      /\ page.total \in Nat
      /\ page.results \subseteq objects /\ page.results # {}
      /\ \A x \in objects : x.id > s.cursor /\ x \notin page.results => x.id > page.cursor
      /\ Cardinality(page.results) \in Nat
      /\ Cardinality(page.results) + Cardinality(Beyond(objects, page.cursor))
           = Cardinality(Beyond(objects, s.cursor))
  BY <1>1, <1>4, Paging
<1>6. page.total = Cardinality(objects)
  BY DEF List
<1> HIDE DEF page
<1>7. kept \subseteq Beyond(objects, page.cursor)
  <2> SUFFICES ASSUME NEW id \in kept PROVE id \in Beyond(objects, page.cursor)
    OBVIOUS
  <2>1. PICK x \in matching : x.id = id
    BY DEF IdsOf
  <2>2. x \in objects /\ x.id > s.cursor /\ x \notin page.results
    BY <1>1, <2>1 DEF Beyond, page
  <2> QED BY <1>5, <2>1, <2>2 DEF Beyond, IdsOf
<1>8. Cardinality(Beyond(objects, page.cursor)) \in Nat \ {0}
  BY <1>7, BeyondFinite, FS_EmptySet
<1>9. /\ next.cursor = page.cursor
      /\ next.count = s.count + Cardinality(page.results)
      /\ next.total = IF s.cursor = NoCursor THEN page.total ELSE s.total
  BY DEF NextPage
<1> HIDE DEF next
<1>10. next.count \in Nat /\ next.total \in Nat
       /\ next.count + Cardinality(Beyond(objects, page.cursor)) <= next.total
  <2>1. CASE s = Started
    <3>1. s.cursor = NoCursor /\ s.cursor = 0 /\ s.count = 0
      BY <2>1 DEF Started, NoCursor
    <3>2. Beyond(objects, 0) = IdsOf(objects)
      BY DEF Beyond, Identified, IdsOf
    <3>3. Cardinality(Beyond(objects, s.cursor)) = page.total
      BY <1>6, <3>1, <3>2, AsManyIds
    <3> QED BY <1>5, <1>8, <1>9, <3>1, <3>3
  <2>2. CASE s # Started
    <3>1. /\ s.cursor \in Nat \ {0} /\ s.count \in Nat /\ s.total \in Nat
          /\ s.count + Cardinality(Beyond(objects, s.cursor)) <= s.total
      BY <2>2 DEF Ahead
    <3>2. next.total = s.total
      BY <1>9, <3>1 DEF NoCursor
    <3> QED BY <1>5, <1>8, <1>9, <3>1, <3>2
  <2> QED BY <2>1, <2>2
<1>11. ~Exhausted(next)
  BY <1>8, <1>10 DEF Exhausted
<1>12. Ahead(objects, next, kept)
  BY <1>5, <1>7, <1>9, <1>10 DEF Ahead
<1>13. next # Started /\ next.cursor # NoCursor
  BY <1>5, <1>9 DEF Started, NoCursor
<1> QED BY <1>1, <1>5, <1>11, <1>12, <1>13 DEF next, page

\* What a look-up by name ends with, and what it goes on with.
LEMMA LookupPageEnds ==
  ASSUME NEW objects, Identified(objects), NEW matching \in SUBSET objects,
         Searching(objects, matching)
  PROVE  LET p == LookupPage(objects, search, matching) IN
         /\ p.end \in {"found", "missing", "more"}
         /\ kept # {} /\ ~grown /\ p.end # "found" =>
              p.end = "more" /\ Ahead(objects, p.search, kept)
<1> DEFINE p == LookupPage(objects, search, matching)
           page == List(objects, search.cursor)
           next == NextPage(search, page)
<1>1. CASE page.results \intersect matching # {}
  BY <1>1 DEF LookupPage
<1>2. CASE page.results \intersect matching = {}
  <2>1. /\ p.end = IF Exhausted(next) THEN "missing" ELSE "more"
        /\ p.search = next
    BY <1>2 DEF LookupPage
  <2>2. kept # {} /\ ~grown => Ahead(objects, next, kept) /\ ~Exhausted(next)
    BY <1>2, NotOnPage DEF Searching
  <2> HIDE DEF p, next
  <2> QED BY <2>1, <2>2 DEF p
<1> QED BY <1>1, <1>2

\* The same for a search by tags, which takes an empty page for the last one.
LEMMA RecoverPageEnds ==
  ASSUME NEW objects, Identified(objects), NEW matching \in SUBSET objects,
         Searching(objects, matching)
  PROVE  LET p == RecoverPage(objects, search, matching) IN
         /\ p.end \in {"found", "missing", "more"}
         /\ kept # {} /\ ~grown /\ p.end # "found" =>
              p.end = "more" /\ Ahead(objects, p.search, kept)
<1> DEFINE p == RecoverPage(objects, search, matching)
           page == List(objects, search.cursor)
           next == NextPage(search, page)
           l == LookupPage(objects, search, matching)
<1>1. CASE search.cursor = InvalidCursor
  <2>1. kept # {} => grown
    <3> SUFFICES ASSUME kept # {}, ~grown PROVE FALSE
      OBVIOUS
    <3>1. Ahead(objects, search, kept)
      BY DEF Searching
    <3> QED BY <1>1, <3>1 DEF Ahead, Started, InvalidCursor, NoCursor
  <2> QED BY <1>1, <2>1 DEF RecoverPage
<1>2. CASE search.cursor # InvalidCursor
  <2>1. p = [l EXCEPT !.end = IF @ = "more" /\ page.results = {} THEN "missing" ELSE @,
                      !.search.cursor = IF @ = NoCursor THEN InvalidCursor ELSE @]
    BY <1>2 DEF RecoverPage
  <2>2. CASE page.results \intersect matching # {}
    <3>1. l = [end |-> "found", object |-> FirstMatch(page.results \intersect matching).id,
               search |-> next]
      BY <2>2 DEF LookupPage
    <3>2. p.end = "found"
      <4> HIDE DEF p, l, next, page
      <4> QED BY <2>1, <3>1
    <3> QED BY <3>2
  <2>3. CASE page.results \intersect matching = {}
    <3>1. l = [end |-> IF Exhausted(next) THEN "missing" ELSE "more",
               object |-> NoCursor, search |-> next]
      BY <2>3 DEF LookupPage
    <3>2. next = [cursor |-> next.cursor, count |-> next.count, total |-> next.total]
      BY DEF NextPage
    <3>3. kept # {} /\ ~grown => /\ Ahead(objects, next, kept) /\ ~Exhausted(next)
                                 /\ page.results # {} /\ next.cursor # NoCursor
      BY <2>3, NotOnPage DEF Searching
    <3> HIDE DEF p, l, next, page
    <3>4. p.end = IF l.end = "more" /\ page.results = {} THEN "missing" ELSE l.end
      BY <2>1, <3>1
    <3>5. next.cursor # NoCursor => p.search = next
      BY <2>1, <3>1, <3>2
    <3> QED BY <3>1, <3>3, <3>4, <3>5 DEF p
  <2> QED BY <2>2, <2>3
<1> QED BY <1>1, <1>2

-----------------------------------------------------------------------------
(* The controller.                                                         *)

\* Pools are as many as names at the beginning.
LEMMA InitIInv == Init => IInv
<1> SUFFICES ASSUME Init PROVE IInv
  OBVIOUS
<1>1. PICK S \in SUBSET PoolName : pools = {[id |-> n, name |-> n, subnet |-> TRUE] : n \in S}
  BY DEF Init
<1>2. IsFiniteSet(pools)
  <2>1. IsFiniteSet(S)
    BY PoolNameAssumption, FS_Subset
  <2> DEFINE f == [n \in S |-> [id |-> n, name |-> n, subnet |-> TRUE]]
  <2>2. f \in Surjection(S, pools)
    BY <1>1 DEF Surjection
  <2> QED BY <2>1, <2>2, FS_Surjection
<1>3. ListsInv
  <2>1. allocs = {}
    BY DEF Init
  <2>2. Identified(allocs) /\ \A a \in allocs : a.mine \in BOOLEAN
    BY <2>1, FS_EmptySet DEF Identified
  <2>3. \A p \in pools : p.id \in PoolName /\ p.name = p.id /\ p.subnet = TRUE
    BY <1>1
  <2>4. \A p \in pools : p = [id |-> p.id, name |-> p.id, subnet |-> TRUE]
    BY <1>1
  <2>5. \A p \in pools : p = [id |-> p.id, name |-> p.id, subnet |-> p.subnet]
    <3> SUFFICES ASSUME NEW p \in pools
                 PROVE  p = [id |-> p.id, name |-> p.id, subnet |-> p.subnet]
      OBVIOUS
    <3>1. p.subnet = TRUE
      BY <1>1
    <3> QED BY <2>4, <3>1, Zenon
  <2>6. \A p, q \in pools : p.id = q.id => p = q
    BY <2>4, Zenon
  <2>7. Identified(pools)
    BY <1>2, <2>3, <2>6, PoolNameAssumption DEF Identified
  <2> QED BY <2>2, <2>3, <2>7, <2>5 DEF ListsInv
<1>4. HalfPoolsAreReported
  BY <1>1 DEF HalfPoolsAreReported
<1> QED BY <1>3, <1>4 DEF Init, IInv, SearchInv, CommandsInv, SearchFinds, At, Resting

\* The lists that are searched.
LEMMA ListsIdentified ==
  ASSUME ListsInv, NEW pool, NEW name
  PROVE  /\ Identified(pools) /\ Identified(In(pool))
         /\ Named(name) \in SUBSET pools /\ Mine(In(pool)) \in SUBSET In(pool)
<1>1. In(pool) \in SUBSET allocs
  BY DEF In
<1>2. Identified(In(pool))
  BY <1>1, SomeIdentified DEF ListsInv
<1> QED BY <1>2 DEF ListsInv, Named, Mine

\* A step of a search.
LEMMA SearchStepKeeps ==
  ASSUME IInv, LookupPool \/ LookupNextPage \/ RecoverNextPage \/ ListFails
  PROVE  IInv'
<1> USE DEF IInv
<1>1. ListsInv' /\ CommandsInv' /\ HalfPoolsAreReported'
  BY DEF LookupPool, LookupNextPage, RecoverNextPage, ListFails, cliVars, ListsInv,
         CommandsInv, HalfPoolsAreReported, At
<1>2. CASE LookupPool
  <2>1. /\ ctl' = "lookup" /\ search' = Started /\ ended' = "none" /\ grown' = FALSE
        /\ kept' = IdsOf(Named(SNATPool)) /\ UNCHANGED pools
    BY <1>2 DEF LookupPool, StartSearch, IdsOf
  <2>2. SearchInv' /\ SearchFinds'
    BY <2>1 DEF SearchInv, Searching, Ahead, SearchFinds, Named
  <2> QED BY <1>1, <2>2
<1>3. CASE LookupNextPage
  <2> DEFINE p == LookupPage(pools, search, Named(SNATPool))
  <2>1. /\ p.end \in {"found", "missing", "more"}
        /\ kept # {} /\ ~grown /\ p.end # "found" =>
             p.end = "more" /\ Ahead(pools, p.search, kept)
    BY <1>3, ListsIdentified, LookupPageEnds DEF SearchInv, LookupNextPage
  <2>2. \/ /\ p.end = "found" /\ poolRef' = p.object
           /\ StartSearch("recover", Mine(In(p.object)))
        \/ p.end = "missing" /\ EndSearch("idle", "missing") /\ UNCHANGED poolRef
        \/ /\ p.end = "more" /\ search' = p.search
           /\ UNCHANGED <<ctl, ended, poolRef, histVars>>
    BY <1>3 DEF LookupNextPage
  <2>3. ctl = "lookup" /\ UNCHANGED <<pools, allocs>>
    BY <1>3 DEF LookupNextPage
  <2> HIDE DEF p
  <2>4. CASE p.end = "found"
    <3>1. /\ ctl' = "recover" /\ search' = Started /\ ended' = "none" /\ grown' = FALSE
          /\ kept' = IdsOf(Mine(In(p.object))) /\ poolRef' = p.object
      BY <2>2, <2>4 DEF StartSearch, IdsOf
    <3>2. SearchInv' /\ SearchFinds'
      BY <2>3, <3>1 DEF SearchInv, Searching, Ahead, SearchFinds, Mine, In
    <3> QED BY <1>1, <3>2
  <2>5. CASE p.end = "missing"
    <3>1. ctl' = "idle" /\ ended' = "missing" /\ UNCHANGED <<kept, grown>>
      BY <2>2, <2>5 DEF EndSearch, histVars
    <3>2. SearchInv' /\ SearchFinds'
      BY <2>1, <2>5, <3>1 DEF SearchInv, SearchFinds
    <3> QED BY <1>1, <3>2
  <2>6. CASE p.end = "more"
    <3>1. search' = p.search /\ UNCHANGED <<ctl, ended, poolRef, kept, grown>>
      BY <2>2, <2>6 DEF histVars
    <3>2. SearchInv' /\ SearchFinds'
      BY <2>1, <2>3, <2>6, <3>1 DEF SearchInv, Searching, Ahead, SearchFinds, Named
    <3> QED BY <1>1, <3>2
  <2> QED BY <2>1, <2>4, <2>5, <2>6
<1>4. CASE RecoverNextPage
  <2> DEFINE p == RecoverPage(In(poolRef), search, Mine(In(poolRef)))
  <2>1. /\ p.end \in {"found", "missing", "more"}
        /\ kept # {} /\ ~grown /\ p.end # "found" =>
             p.end = "more" /\ Ahead(In(poolRef), p.search, kept)
    BY <1>4, ListsIdentified, RecoverPageEnds DEF SearchInv, RecoverNextPage
  <2>2. \/ p.end = "found" /\ EndSearch("idle", "found")
        \/ p.end = "missing" /\ EndSearch("allocate", "missing")
        \/ p.end = "more" /\ search' = p.search /\ UNCHANGED <<ctl, ended, histVars>>
    BY <1>4 DEF RecoverNextPage
  <2>3. ctl = "recover" /\ UNCHANGED <<pools, allocs, poolRef>>
    BY <1>4 DEF RecoverNextPage
  <2> HIDE DEF p
  <2>4. CASE p.end = "found"
    <3>1. ctl' = "idle" /\ ended' = "found" /\ grown' = FALSE
      BY <2>2, <2>4 DEF EndSearch
    <3> QED BY <1>1, <3>1 DEF SearchInv, SearchFinds
  <2>5. CASE p.end = "missing"
    <3>1. ctl' = "allocate" /\ ended' = "missing" /\ UNCHANGED <<kept, grown>>
      BY <2>2, <2>5 DEF EndSearch, histVars
    <3> QED BY <1>1, <2>1, <2>5, <3>1 DEF SearchInv, SearchFinds
  <2>6. CASE p.end = "more"
    <3>1. search' = p.search /\ UNCHANGED <<ctl, ended, kept, grown>>
      BY <2>2, <2>6 DEF histVars
    <3>2. SearchInv' /\ SearchFinds'
      BY <2>1, <2>3, <2>6, <3>1 DEF SearchInv, Searching, Ahead, SearchFinds, Mine, In
    <3> QED BY <1>1, <3>2
  <2> QED BY <2>1, <2>4, <2>5, <2>6
<1>5. CASE ListFails
  <2>1. ctl' \in {"idle", "allocate"} /\ ended' = "error" /\ grown' = FALSE
    BY <1>5 DEF ListFails, EndSearch
  <2> QED BY <1>1, <2>1 DEF SearchInv, SearchFinds
<1> QED BY <1>2, <1>3, <1>4, <1>5

\* A new allocation gets an id of its own.
LEMMA AddAllocationKeeps ==
  ASSUME ListsInv, NEW pool, NEW mine \in BOOLEAN, AddAllocation(pool, mine)
  PROVE  /\ Identified(allocs') /\ \A a \in allocs' : a.mine \in BOOLEAN
         /\ \A a \in allocs' : a \in allocs \/ a.id \notin IdsOf(allocs)
<1>1. PICK id \in Ids \ {a.id : a \in allocs} :
        allocs' = allocs \union {[id |-> id, pool |-> pool, mine |-> mine]}
  BY DEF AddAllocation
<1> DEFINE new == [id |-> id, pool |-> pool, mine |-> mine]
<1>2. new.id = id /\ id \in Nat \ {0} /\ new.mine \in BOOLEAN
  BY CommandsAssumption DEF Ids
<1>3. allocs' = allocs \union {new}
  BY <1>1
<1> HIDE DEF new
<1>4. IsFiniteSet(allocs')
  BY <1>3, FS_AddElement DEF ListsInv, Identified
<1>5. \A a \in allocs : a.id # id /\ a.id \in Nat \ {0} /\ a.mine \in BOOLEAN
  BY <1>1 DEF ListsInv, Identified
<1>6. \A a, b \in allocs' : a.id = b.id => a = b
  BY <1>2, <1>3, <1>5 DEF ListsInv, Identified
<1>7. (\A a \in allocs' : a.id \in Nat \ {0}) /\ (\A a \in allocs' : a.mine \in BOOLEAN)
  BY <1>2, <1>3, <1>5
<1>8. \A a \in allocs' : a \in allocs \/ a.id \notin IdsOf(allocs)
  BY <1>2, <1>3, <1>5 DEF IdsOf
<1> QED BY <1>4, <1>6, <1>7, <1>8 DEF Identified

\* The controller's allocation is nothing a search is at work on.
LEMMA AllocateKeeps == IInv /\ Allocate => IInv'
<1> SUFFICES ASSUME IInv, Allocate PROVE IInv'
  OBVIOUS
<1> USE DEF IInv
<1>1. /\ ctl' = "idle" /\ UNCHANGED <<pools, ended, kept, grown, cli, reported>>
  BY DEF Allocate, histVars, cliVars
<1>2. ListsInv'
  <2>1. CASE AddAllocation(poolRef, TRUE)
    BY <1>1, <2>1, AddAllocationKeeps DEF ListsInv
  <2>2. CASE UNCHANGED allocs
    BY <1>1, <2>2 DEF ListsInv
  <2> QED BY <2>1, <2>2 DEF Allocate
<1> QED BY <1>1, <1>2 DEF SearchInv, SearchFinds, CommandsInv, At, HalfPoolsAreReported

-----------------------------------------------------------------------------
(* The others, between two pages.                                          *)

\* A search goes on with what is still there of what it looks for, as long as
\* nothing is added that the total does not count.
LEMMA WatchedListKeeps ==
  ASSUME NEW old, Identified(old), NEW new, Identified(new),
         NEW was \in SUBSET old, NEW is \in SUBSET new, Searching(old, was),
         \A o \in new : o.id \in IdsOf(was) => o \in is,
         kept' = kept \intersect IdsOf(new),
         grown' = (grown \/ ~(IdsOf(new) \subseteq IdsOf(old))),
         UNCHANGED search
  PROVE  kept' \subseteq IdsOf(is) /\ (kept' # {} /\ ~grown' => Ahead(new, search, kept'))
<1>1. kept' \subseteq IdsOf(is)
  BY DEF Searching, IdsOf
<1>2. ASSUME kept' # {}, ~grown', search # Started PROVE Ahead(new, search, kept')
  <2>1. IdsOf(new) \subseteq IdsOf(old) /\ ~grown /\ kept # {}
    BY <1>2
  <2>2. /\ search.cursor \in Nat \ {0} /\ search.count \in Nat /\ search.total \in Nat
        /\ kept \subseteq Beyond(old, search.cursor)
        /\ search.count + Cardinality(Beyond(old, search.cursor)) <= search.total
    BY <1>2, <2>1 DEF Searching, Ahead
  <2>3. Beyond(new, search.cursor) \in SUBSET Beyond(old, search.cursor)
    BY <2>1 DEF Beyond
  <2>4. Cardinality(Beyond(new, search.cursor)) <= Cardinality(Beyond(old, search.cursor))
    BY <2>3, BeyondFinite, FS_Subset
  <2>5. kept' \subseteq Beyond(new, search.cursor)
    BY <2>2 DEF Beyond
  <2>6. /\ Cardinality(Beyond(new, search.cursor)) \in Nat
        /\ Cardinality(Beyond(old, search.cursor)) \in Nat
    BY BeyondFinite
  <2>7. search.count + Cardinality(Beyond(new, search.cursor)) <= search.total
    BY <2>2, <2>4, <2>6
  <2> QED BY <2>2, <2>5, <2>7 DEF Ahead
<1>3. search = Started => Ahead(new, search, kept')
  BY DEF Ahead
<1> QED BY <1>1, <1>2, <1>3

\* So a step of others leaves a search as it should be, if it changes the lists in
\* such a way.
LEMMA WatchKeeps ==
  ASSUME ListsInv, ListsInv', SearchInv, SearchFinds, UNCHANGED ctlVars, Watch,
         \A a \in allocs' : a \in allocs \/ a.id \notin IdsOf(allocs)
  PROVE  SearchInv' /\ SearchFinds'
<1>1. UNCHANGED <<ctl, search, poolRef, ended>>
  BY DEF ctlVars
<1>2. CASE ctl = "lookup"
  <2>1. /\ kept' = kept \intersect IdsOf(pools')
        /\ grown' = (grown \/ ~(IdsOf(pools') \subseteq IdsOf(pools)))
    BY <1>1, <1>2 DEF Watch, PoolIds, IdsOf
  <2> DEFINE was == Named(SNATPool)
             is == {p \in pools' : p.name = SNATPool}
  <2>2. Identified(pools) /\ Identified(pools') /\ Searching(pools, was)
    BY <1>2 DEF ListsInv, SearchInv
  <2>3. was \in SUBSET pools /\ is \in SUBSET pools'
    BY DEF Named
  <2>4. \A p \in pools' : p.id \in IdsOf(was) => p \in is
    BY DEF IdsOf, Named, ListsInv
  <2>5. kept' \subseteq IdsOf(is) /\ (kept' # {} /\ ~grown' => Ahead(pools', search, kept'))
    <3> HIDE DEF was, is
    <3> QED BY <1>1, <2>1, <2>2, <2>3, <2>4, WatchedListKeeps
  <2>6. grown' \in BOOLEAN
    BY <2>1, Zenon
  <2>7. Searching(pools, Named(SNATPool))'
    BY <1>1, <2>5 DEF Searching, Named, Ahead
  <2> QED BY <1>1, <1>2, <2>6, <2>7 DEF SearchInv, SearchFinds
<1>3. CASE ctl = "recover"
  <2> DEFINE old == In(poolRef)
             new == {a \in allocs' : a.pool = poolRef}
             was == Mine(old)
             is == {a \in new : a.mine}
  <2>1. /\ kept' = kept \intersect IdsOf(new)
        /\ grown' = (grown \/ ~(IdsOf(new) \subseteq IdsOf(old)))
    BY <1>1, <1>3 DEF Watch, In, IdsOf
  <2>2. Identified(old) /\ Identified(new) /\ Searching(old, was)
    <3>1. old \in SUBSET allocs /\ new \in SUBSET allocs'
      BY DEF In
    <3>2. Identified(allocs) /\ Identified(allocs')
      BY DEF ListsInv
    <3> HIDE DEF old, new
    <3>3. Identified(old) /\ Identified(new)
      BY <3>1, <3>2, SomeIdentified
    <3> QED BY <1>3, <3>3 DEF SearchInv, old
  <2>3. was \in SUBSET old /\ is \in SUBSET new
    BY DEF Mine
  <2>4. \A a \in new : a.id \in IdsOf(was) => a \in is
    <3> SUFFICES ASSUME NEW a \in new, a.id \in IdsOf(was) PROVE a.mine
      OBVIOUS
    <3>1. PICK b \in was : b.id = a.id
      BY DEF IdsOf
    <3>2. b \in allocs /\ b.mine
      BY DEF Mine, In
    <3>3. a \in allocs
      BY <3>1, <3>2 DEF IdsOf
    <3> QED BY <3>1, <3>2, <3>3 DEF ListsInv, Identified
  <2>5. kept' \subseteq IdsOf(is) /\ (kept' # {} /\ ~grown' => Ahead(new, search, kept'))
    <3> HIDE DEF old, new, was, is
    <3> QED BY <1>1, <2>1, <2>2, <2>3, <2>4, WatchedListKeeps
  <2>6. grown' \in BOOLEAN
    BY <2>1, Zenon
  <2>7. Searching(In(poolRef), Mine(In(poolRef)))'
    BY <1>1, <2>5 DEF Searching, In, Mine, Ahead
  <2> QED BY <1>1, <1>3, <2>6, <2>7 DEF SearchInv, SearchFinds
<1>4. CASE ctl \notin {"lookup", "recover"}
  <2>1. UNCHANGED <<kept, grown>>
    BY <1>4 DEF Watch, histVars
  <2> QED BY <1>1, <1>4, <2>1 DEF SearchInv, SearchFinds
<1> QED BY <1>2, <1>3, <1>4

\* What the commands are at work on.
Busy == {cli[c].pool : c \in Client}

\* A step of a command goes on with a pool or with none.
LEMMA CommandGoesOn ==
  ASSUME CommandsInv, NEW c \in Client, NEW step, NEW pool, Goto(c, step, pool),
         pool \in IF step = "idle" THEN {NoPool} ELSE PoolName
  PROVE  /\ CommandsInv'
         /\ \A id \in Busy : id \in Busy' \/ id = cli[c].pool
         /\ pool \in Busy'
<1>1. cli' = [cli EXCEPT ![c] = [pc |-> step, pool |-> pool]] /\ DOMAIN cli = Client
  BY DEF Goto, CommandsInv
<1>2. DOMAIN cli' = Client /\ cli'[c] = [pc |-> step, pool |-> pool]
  BY <1>1
<1>3. \A d \in Client : d # c => cli'[d] = cli[d]
  BY <1>1
<1>4. ASSUME NEW d \in Client
      PROVE  /\ cli'[d] = [pc |-> cli'[d].pc, pool |-> cli'[d].pool]
             /\ cli'[d].pool \in IF cli'[d].pc = "idle" THEN {NoPool} ELSE PoolName
  <2>1. CASE d = c
    BY <1>2, <2>1
  <2>2. CASE d # c
    BY <1>3, <2>2 DEF CommandsInv, At
  <2> QED BY <2>1, <2>2
<1>5. CommandsInv'
  BY <1>2, <1>4 DEF CommandsInv, At
<1>6. pool \in Busy'
  BY <1>2 DEF Busy
<1>7. \A id \in Busy : id \in Busy' \/ id = cli[c].pool
  BY <1>3 DEF Busy
<1> QED BY <1>5, <1>6, <1>7

\* A command that fails is reported; the one that adds the subnet or deletes
\* the pool clears that.
LEMMA CommandEnds ==
  ASSUME CommandsInv, NEW c \in Client, NEW pool
  PROVE  /\ Fail(c, pool) =>
              /\ CommandsInv' /\ reported' = reported \union {pool}
              /\ \A id \in Busy : id \in Busy' \/ id = cli[c].pool
         /\ Succeed(c, pool) =>
              /\ CommandsInv' /\ reported' = reported \ {pool}
              /\ \A id \in Busy : id \in Busy' \/ id = cli[c].pool
BY CommandGoesOn DEF Fail, Succeed

\* A command that changes the subnets of a pool changes nothing else of the pools.
LEMMA SubnetChanges ==
  ASSUME ListsInv, NEW n, NEW b \in BOOLEAN,
         pools' = {IF p.id = n THEN [p EXCEPT !.subnet = b] ELSE p : p \in pools}
  PROVE  /\ Identified(pools')
         /\ \A p \in pools' : /\ p = [id |-> p.id, name |-> p.id, subnet |-> p.subnet]
                              /\ p.subnet \in BOOLEAN
         /\ \A p \in pools' : p \in pools \/ (p.id = n /\ p.subnet = b)
         /\ \A p \in pools' : p.id = n => p.subnet = b
<1> DEFINE f == [p \in pools |-> IF p.id = n THEN [p EXCEPT !.subnet = b] ELSE p]
<1>1. ASSUME NEW p \in pools
      PROVE  /\ f[p] = IF p.id = n THEN [id |-> p.id, name |-> p.id, subnet |-> b]
                                   ELSE [id |-> p.id, name |-> p.id, subnet |-> p.subnet]
             /\ p.subnet \in BOOLEAN /\ p.id \in Nat \ {0}
  <2>1. p = [id |-> p.id, name |-> p.id, subnet |-> p.subnet]
    BY DEF ListsInv
  <2>2. [p EXCEPT !.subnet = b] = [id |-> p.id, name |-> p.id, subnet |-> b]
    BY <2>1
  <2>3. f[p] = IF p.id = n THEN [p EXCEPT !.subnet = b] ELSE p
    OBVIOUS
  <2>4. p.subnet \in BOOLEAN /\ p.id \in Nat \ {0}
    BY DEF ListsInv, Identified
  <2> HIDE DEF f
  <2> QED BY <2>1, <2>2, <2>3, <2>4
<1>2. /\ \A q \in pools' : \E p \in pools : q = f[p]
      /\ \A p \in pools : f[p] \in pools'
      /\ DOMAIN f = pools
  OBVIOUS
<1> HIDE DEF f
<1>3. f \in Surjection(pools, pools')
  <2>1. f = [p \in pools |-> f[p]]
    BY DEF f
  <2>2. f \in [pools -> pools']
    BY <1>2, <2>1
  <2> QED BY <1>2, <2>2 DEF Surjection
<1>4. IsFiniteSet(pools')
  BY <1>3, FS_Surjection DEF ListsInv, Identified
<1>5. ASSUME NEW p \in pools PROVE f[p].id = p.id
  <2>1. /\ [id |-> p.id, name |-> p.id, subnet |-> b].id = p.id
        /\ [id |-> p.id, name |-> p.id, subnet |-> p.subnet].id = p.id
    OBVIOUS
  <2> QED BY <1>1, <2>1
<1>6. \A q, r \in pools' : q.id = r.id => q = r
  <2> SUFFICES ASSUME NEW q \in pools', NEW r \in pools', q.id = r.id PROVE q = r
    OBVIOUS
  <2>1. PICK p \in pools : q = f[p]
    BY <1>2
  <2>2. PICK o \in pools : r = f[o]
    BY <1>2
  <2>3. p.id = o.id
    BY <1>5, <2>1, <2>2
  <2>4. p = o
    BY <2>3 DEF ListsInv, Identified
  <2> QED BY <2>1, <2>2, <2>4
<1>7. ASSUME NEW q \in pools'
      PROVE  /\ q.id \in Nat \ {0} /\ q.subnet \in BOOLEAN
             /\ q = [id |-> q.id, name |-> q.id, subnet |-> q.subnet]
             /\ q \in pools \/ (q.id = n /\ q.subnet = b)
             /\ q.id = n => q.subnet = b
  <2>1. PICK p \in pools : q = f[p]
    BY <1>2
  <2>2. CASE p.id = n
    <3>1. q = [id |-> n, name |-> n, subnet |-> b] /\ p.id \in Nat \ {0}
      BY <1>1, <2>1, <2>2
    <3> QED BY <2>2, <3>1
  <2>3. CASE p.id # n
    <3>1. q = p
      BY <2>1, <2>3 DEF f
    <3> QED BY <1>1, <2>3, <3>1 DEF ListsInv
  <2> QED BY <2>2, <2>3
<1> QED BY <1>4, <1>6, <1>7 DEF Identified

\* The commands keep the pools apart, and report the ones they leave without a subnet.
LEMMA CommandKeeps ==
  ASSUME ListsInv, CommandsInv, HalfPoolsAreReported, NEW c \in Client, Command(c)
  PROVE  ListsInv' /\ CommandsInv' /\ HalfPoolsAreReported'
<1>1. UNCHANGED allocs
  BY DEF Command
<1> DEFINE n == cli[c].pool
<1>2. \A p \in pools : ~p.subnet => p.id \in reported \union Busy
  BY DEF HalfPoolsAreReported, Busy
<1>3. /\ \A p \in pools : p.id \in Nat \ {0}
      /\ n \in Busy /\ (n \in PoolName \/ n = NoPool)
      /\ ~At(c, "idle") => n \in PoolName
      /\ At(c, "idle") => n = NoPool
  BY DEF ListsInv, Identified, Busy, CommandsInv
<1>4. \* Steps that leave the pools alone.
      ASSUME UNCHANGED pools, CommandsInv',
             \A id \in reported : id \in reported' \/ (\A p \in pools : p.id = id => p.subnet),
             \A id \in Busy : id \in Busy' \/ id \in reported' \/ id = NoPool
      PROVE  ListsInv' /\ CommandsInv' /\ HalfPoolsAreReported'
  <2>1. \A p \in pools : ~p.subnet => p.id \in reported' \union Busy'
    BY <1>2, <1>3, <1>4 DEF NoPool
  <2> QED BY <1>1, <1>4, <2>1 DEF ListsInv, HalfPoolsAreReported, Busy
<1>5. \* The command fails.
      ASSUME UNCHANGED pools, Fail(c, n) PROVE ListsInv' /\ CommandsInv' /\ HalfPoolsAreReported'
  <2>1. /\ CommandsInv' /\ reported' = reported \union {n}
        /\ \A id \in Busy : id \in Busy' \/ id = n
    BY <1>5, CommandEnds
  <2> HIDE DEF n
  <2> QED BY <1>4, <1>5, <2>1
<1>6. \* It goes on.
      ASSUME NEW step, step # "idle", NEW pool \in PoolName, pool = n \/ n = NoPool,
             Goto(c, step, pool)
      PROVE  /\ CommandsInv' /\ pool \in Busy'
             /\ \A id \in Busy : id \in Busy' \/ id = NoPool
  <2>1. /\ CommandsInv' /\ pool \in Busy'
        /\ \A id \in Busy : id \in Busy' \/ id = n
    BY <1>6, CommandGoesOn
  <2> QED BY <1>6, <2>1
<1>7. \* It begins, and fails or ends at once.
      ASSUME UNCHANGED pools, At(c, "idle"), NEW pool \in PoolName,
             Fail(c, pool) \/ (Goto(c, "idle", NoPool) /\ UNCHANGED reported)
      PROVE  ListsInv' /\ CommandsInv' /\ HalfPoolsAreReported'
  <2>1. /\ CommandsInv' /\ reported \subseteq reported'
        /\ \A id \in Busy : id \in Busy' \/ id = n
    <3>1. CASE Fail(c, pool)
      BY <3>1, CommandEnds
    <3>2. CASE Goto(c, "idle", NoPool) /\ UNCHANGED reported
      BY <3>2, CommandGoesOn
    <3> QED BY <1>7, <3>1, <3>2
  <2> QED BY <1>3, <1>4, <1>7, <2>1
<1>8. CASE CreatePool(c)
  <2>1. PICK m \in PoolName : IF m \in PoolIds THEN Fail(c, m)
                              ELSE Goto(c, "update", m) /\ UNCHANGED reported
    BY <1>8 DEF CreatePool
  <2>2. UNCHANGED pools /\ At(c, "idle")
    BY <1>8 DEF CreatePool, Start
  <2>3. CASE Fail(c, m)
    BY <1>7, <2>2, <2>3
  <2>4. CASE Goto(c, "update", m) /\ UNCHANGED reported
    BY <1>3, <1>4, <1>6, <2>2, <2>4
  <2> QED BY <2>1, <2>3, <2>4
<1>9. CASE UpdatePool(c)
  <2>1. n \in PoolName /\ n \in Nat \ {0}
    BY <1>3, <1>9, PoolNameAssumption DEF UpdatePool, At
  <2>2. CASE UNCHANGED pools /\ Fail(c, n)
    BY <1>5, <2>2
  <2>3. CASE /\ n \notin PoolIds
             /\ pools' = pools \union {[id |-> n, name |-> n, subnet |-> FALSE]}
             /\ Goto(c, "patch", n) /\ UNCHANGED reported
    <3>1. /\ CommandsInv' /\ n \in Busy'
          /\ \A id \in Busy : id \in Busy' \/ id = NoPool
      BY <1>6, <2>1, <2>3
    <3> DEFINE new == [id |-> n, name |-> n, subnet |-> FALSE]
    <3>2. /\ new.id = n /\ new.subnet = FALSE
          /\ new = [id |-> new.id, name |-> new.id, subnet |-> new.subnet]
      OBVIOUS
    <3>3. pools' = pools \union {new} /\ \A p \in pools : p.id # n
      BY <2>3 DEF PoolIds
    <3> HIDE DEF new, n
    <3>4. IsFiniteSet(pools')
      BY <3>3, FS_AddElement DEF ListsInv, Identified
    <3>5. Identified(pools')
      BY <1>3, <2>1, <3>2, <3>3, <3>4 DEF ListsInv, Identified
    <3>6. ListsInv'
      BY <1>1, <3>2, <3>3, <3>5 DEF ListsInv
    <3>7. \A p \in pools' : ~p.subnet => p.id \in reported' \union Busy'
      BY <1>2, <1>3, <2>3, <3>1, <3>2, <3>3 DEF NoPool
    <3> QED BY <3>1, <3>6, <3>7 DEF HalfPoolsAreReported, Busy
  <2> QED BY <1>9, <2>2, <2>3 DEF UpdatePool
<1>10. CASE PatchSubnet(c)
  <2>1. CASE UNCHANGED pools /\ Fail(c, n)
    BY <1>5, <2>1
  <2>2. CASE /\ n \in PoolIds /\ Succeed(c, n)
             /\ pools' = {IF p.id = n THEN [p EXCEPT !.subnet = TRUE] ELSE p : p \in pools}
    <3>1. /\ CommandsInv' /\ reported' = reported \ {n}
          /\ \A id \in Busy : id \in Busy' \/ id = n
      BY <2>2, CommandEnds
    <3>2. /\ Identified(pools')
          /\ \A p \in pools' : /\ p = [id |-> p.id, name |-> p.id, subnet |-> p.subnet]
                               /\ p.subnet \in BOOLEAN
          /\ \A p \in pools' : p \in pools \/ (p.id = n /\ p.subnet = TRUE)
          /\ \A p \in pools' : p.id = n => p.subnet = TRUE
      BY <2>2, SubnetChanges
    <3> HIDE DEF n
    <3>3. ListsInv'
      BY <1>1, <3>2 DEF ListsInv
    <3>4. \A p \in pools' : ~p.subnet => p.id \in reported' \union Busy'
      BY <1>2, <3>1, <3>2
    <3> QED BY <3>1, <3>3, <3>4 DEF HalfPoolsAreReported, Busy
  <2> QED BY <1>10, <2>1, <2>2 DEF PatchSubnet
<1>11. CASE DeletePool(c)
  <2>1. PICK m \in PoolName :
          \/ Goto(c, "subnets", m) /\ UNCHANGED reported
          \/ Goto(c, "idle", NoPool) /\ UNCHANGED reported
          \/ Fail(c, m)
    BY <1>11 DEF DeletePool
  <2>2. UNCHANGED pools /\ At(c, "idle")
    BY <1>11 DEF DeletePool, Start
  <2>3. CASE Goto(c, "subnets", m) /\ UNCHANGED reported
    BY <1>3, <1>4, <1>6, <2>2, <2>3
  <2>4. CASE Fail(c, m) \/ (Goto(c, "idle", NoPool) /\ UNCHANGED reported)
    BY <1>7, <2>2, <2>4
  <2> QED BY <2>1, <2>3, <2>4
<1>12. CASE ListSubnets(c)
  <2>1. PICK step \in {"unsubnet", "delete"} :
          \/ Goto(c, step, n) /\ UNCHANGED reported
          \/ Fail(c, n)
    BY <1>12 DEF ListSubnets
  <2>2. UNCHANGED pools /\ n \in PoolName
    BY <1>3, <1>12 DEF ListSubnets, At
  <2>3. CASE Goto(c, step, n) /\ UNCHANGED reported
    BY <1>4, <1>6, <2>2, <2>3
  <2>4. CASE Fail(c, n)
    BY <1>5, <2>2, <2>4
  <2> QED BY <2>1, <2>3, <2>4
<1>13. CASE DeleteSubnet(c)
  <2>1. CASE UNCHANGED pools /\ Fail(c, n)
    BY <1>5, <2>1
  <2>2. CASE /\ Goto(c, "delete", n) /\ UNCHANGED reported
             /\ pools' = {IF p.id = n THEN [p EXCEPT !.subnet = FALSE] ELSE p : p \in pools}
    <3>1. n \in PoolName
      BY <1>3, <1>13 DEF DeleteSubnet, At
    <3>2. /\ CommandsInv' /\ n \in Busy'
          /\ \A id \in Busy : id \in Busy' \/ id = NoPool
      BY <1>6, <2>2, <3>1
    <3>3. /\ Identified(pools')
          /\ \A p \in pools' : /\ p = [id |-> p.id, name |-> p.id, subnet |-> p.subnet]
                               /\ p.subnet \in BOOLEAN
          /\ \A p \in pools' : p \in pools \/ (p.id = n /\ p.subnet = FALSE)
      BY <2>2, SubnetChanges
    <3> HIDE DEF n
    <3>4. ListsInv'
      BY <1>1, <3>3 DEF ListsInv
    <3>5. \A p \in pools' : ~p.subnet => p.id \in reported' \union Busy'
      BY <1>2, <1>3, <2>2, <3>2, <3>3 DEF NoPool
    <3> QED BY <3>2, <3>4, <3>5 DEF HalfPoolsAreReported, Busy
  <2> QED BY <1>13, <2>1, <2>2 DEF DeleteSubnet
<1>14. CASE DeleteEmptyPool(c)
  <2>1. CASE UNCHANGED pools /\ Fail(c, n)
    BY <1>5, <2>1
  <2>2. CASE pools' = {p \in pools : p.id # n} /\ Succeed(c, n)
    <3>1. /\ CommandsInv' /\ reported' = reported \ {n}
          /\ \A id \in Busy : id \in Busy' \/ id = n
      BY <2>2, CommandEnds
    <3>2. pools' \in SUBSET pools /\ \A p \in pools' : p.id # n
      BY <2>2
    <3> HIDE DEF n
    <3>3. Identified(pools')
      BY <3>2, SomeIdentified DEF ListsInv
    <3>4. ListsInv'
      BY <1>1, <3>2, <3>3 DEF ListsInv
    <3>5. \A p \in pools' : ~p.subnet => p.id \in reported' \union Busy'
      BY <1>2, <3>1, <3>2
    <3> QED BY <3>1, <3>4, <3>5 DEF HalfPoolsAreReported, Busy
  <2> QED BY <1>14, <2>1, <2>2 DEF DeleteEmptyPool
<1>15. CASE Kill(c)
  BY <1>5, <1>15 DEF Kill
<1> QED BY <1>8, <1>9, <1>10, <1>11, <1>12, <1>13, <1>14, <1>15 DEF Command

\* Every step keeps the invariant.
LEMMA NextKeeps == IInv /\ [Next]_vars => IInv'
<1> SUFFICES ASSUME IInv, [Next]_vars PROVE IInv'
  OBVIOUS
<1>1. CASE LookupPool \/ LookupNextPage \/ RecoverNextPage \/ ListFails
  BY <1>1, SearchStepKeeps
<1>2. CASE Allocate
  BY <1>2, AllocateKeeps
<1>3. CASE Others /\ UNCHANGED ctlVars /\ Watch
  <2>1. /\ ListsInv' /\ CommandsInv' /\ HalfPoolsAreReported'
        /\ \A a \in allocs' : a \in allocs \/ a.id \notin IdsOf(allocs)
    <3>1. ASSUME NEW c \in Client, Command(c)
          PROVE  /\ ListsInv' /\ CommandsInv' /\ HalfPoolsAreReported'
                 /\ UNCHANGED allocs
      BY <3>1, CommandKeeps DEF Command, IInv
    <3>2. CASE OtherAllocates
      <4>1. /\ AddAllocation(SNATPool, FALSE) /\ UNCHANGED <<pools, cli, reported>>
        BY <3>2 DEF OtherAllocates, cliVars
      <4>2. /\ Identified(allocs') /\ \A a \in allocs' : a.mine \in BOOLEAN
            /\ \A a \in allocs' : a \in allocs \/ a.id \notin IdsOf(allocs)
        BY <4>1, AddAllocationKeeps DEF IInv
      <4> QED BY <4>1, <4>2 DEF IInv, ListsInv, CommandsInv, At, HalfPoolsAreReported
    <3>3. CASE OtherReleases
      <4>1. /\ allocs' \in SUBSET allocs /\ UNCHANGED <<pools, cli, reported>>
        BY <3>3 DEF OtherReleases, cliVars
      <4>2. Identified(allocs')
        BY <4>1, SomeIdentified DEF IInv, ListsInv
      <4> QED BY <4>1, <4>2 DEF IInv, ListsInv, CommandsInv, At, HalfPoolsAreReported
    <3> QED BY <1>3, <3>1, <3>2, <3>3 DEF Others
  <2>2. SearchInv' /\ SearchFinds'
    BY <1>3, <2>1, WatchKeeps DEF IInv
  <2> QED BY <2>1, <2>2 DEF IInv
<1>4. CASE UNCHANGED vars
  BY <1>4 DEF vars, ctlVars, histVars, cliVars, IInv, ListsInv, SearchInv, Searching, Ahead,
     Named, Mine, In, CommandsInv, At, SearchFinds, HalfPoolsAreReported
<1> QED BY <1>1, <1>2, <1>3, <1>4 DEF Next, Controller

-----------------------------------------------------------------------------
\* IPPools: a search by name or by tags only ends without a result if nothing
\* it looks for existed all the time, unless objects were added meanwhile
\* (lookupIPPoolID and tryRecover follow the cursors until the announced
\* total is reached).
THEOREM SearchIsReliable == Spec => []SearchFinds
<1>1. Init => IInv
  BY InitIInv
<1>2. IInv /\ [Next]_vars => IInv'
  BY NextKeeps
<1>3. IInv => SearchFinds
  BY DEF IInv
<1> QED BY <1>1, <1>2, <1>3, PTL DEF Spec

\* IPPools: a pool without addresses is one a command works on or has failed
\* on (createIPPool and deleteIPPool return the error of each of their calls).
THEOREM HalfPools == Spec => []HalfPoolsAreReported
<1>1. Init => IInv
  BY InitIInv
<1>2. IInv /\ [Next]_vars => IInv'
  BY NextKeeps
<1>3. IInv => HalfPoolsAreReported
  BY DEF IInv
<1> QED BY <1>1, <1>2, <1>3, PTL DEF Spec

=============================================================================
