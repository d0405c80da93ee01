------------------------------- MODULE Listing -------------------------------
(***************************************************************************)
(* Lists of the NSX-T API and the searches built on them. A list answers   *)
(* with a page of objects, their total number and a cursor to go on after  *)
(* the last of them; objects come and go between two pages.                *)
(*                                                                         *)
(* A search is a record of the next cursor, the total of the first page    *)
(* and the number of objects seen so far.                                  *)
(***************************************************************************)
EXTENDS Integers, FiniteSets, FiniteSetsExt

CONSTANT PageSize   \* the number of objects on a page

ASSUME PageSizeAssumption == PageSize \in Nat \ {0}

NoCursor == 0
\* The string read from the cursor of the last page, which is nil.
InvalidCursor == -1

\* The first n objects in the order of their ids.
FirstOf(objects, n) == {o \in objects : Cardinality({p \in objects : p.id <= o.id}) <= n}

\* List: objects are listed in the order of their ids.
List(objects, cursor) ==
  LET rest == {o \in objects : o.id > cursor}
      page == FirstOf(rest, PageSize)
  IN  [results |-> page, total |-> Cardinality(objects),
       cursor  |-> IF page = rest THEN NoCursor ELSE Max({o.id : o \in page})]

\* Of the objects on a page that match, the one listed first.
FirstMatch(found) == CHOOSE o \in found : \A p \in found : o.id <= p.id

-----------------------------------------------------------------------------
Started == [cursor |-> NoCursor, total |-> 0, count |-> 0]

\* Mutant: only the objects of the last page are counted.
NextPage_LastOnly(s, page) ==
  [cursor |-> page.cursor, count |-> Cardinality(page.results),
   total  |-> IF s.cursor = NoCursor THEN page.total ELSE s.total]

NextPage(s, page) ==
  [cursor |-> page.cursor, count |-> s.count + Cardinality(page.results),
   total  |-> IF s.cursor = NoCursor THEN page.total ELSE s.total]

\* Mutant: a full page is taken for the last one.
Exhausted_FirstPage(s) == TRUE

\* As many objects have been seen as the first page has announced.
Exhausted(s) == s.count >= s.total

\* One page of a look-up by name, of the objects that match it: one of them,
\* the end, or another page. After the last page the search begins again if
\* objects have vanished meanwhile.
LookupPage(objects, s, matching) ==
  LET page  == List(objects, s.cursor)
      next  == NextPage(s, page)
      found == page.results \intersect matching
  IN  IF found # {}
      THEN [end |-> "found", object |-> FirstMatch(found).id, search |-> next]
      ELSE [end |-> IF Exhausted(next) THEN "missing" ELSE "more",
            object |-> NoCursor, search |-> next]

\* One page of reflectTryRecover: like a look-up, but it also ends at an empty
\* page, and after the last page it asks for a cursor that does not exist.
RecoverPage(objects, s, matching) ==
  IF s.cursor = InvalidCursor
  THEN [end |-> "missing", object |-> NoCursor, search |-> s]
  ELSE LET p == LookupPage(objects, s, matching)
           r == List(objects, s.cursor)
       IN  [p EXCEPT !.end = IF @ = "more" /\ r.results = {} THEN "missing" ELSE @,
                     !.search.cursor = IF @ = NoCursor THEN InvalidCursor ELSE @]

\* Look-ups that take the first page for the whole list: of edge clusters,
\* transport zones and logical switches.
FirstPageHas(objects, matching) == List(objects, NoCursor).results \intersect matching # {}
=============================================================================
