------------------------------- MODULE UtList -------------------------------
(***************************************************************************)
(* The linked lists of datastructures/utlist.h: singly linked (LL), doubly *)
(* linked (DL, where the head's prev is the tail) and circular (CDL).  All *)
(* lists of a program share one heap of next and prev pointers.            *)
(***************************************************************************)
EXTENDS Integers, Sequences, FiniteSets, SequencesExt, MergeSort, Pointers

CONSTANTS
  Nodes,        \* the elements
  NodeRanks     \* comparison functions, as the rank of each element

ASSUME ListAssumption ==
  /\ NULL \notin Nodes /\ JUNK \notin Nodes
  /\ NodeRanks \subseteq [Nodes -> Int]

VARIABLES
  kind,         \* which macros the program uses: "LL", "DL" or "CDL"
  heap,         \* the heads of two lists, and the pointers
  items,        \* the elements the first list should have, in order
  items2        \* and the second

listVars == <<kind, heap, items, items2>>

\* The order in which LL_FOREACH, DL_FOREACH and CDL_FOREACH visit a list:
\* up to NULL, or until the loop comes back to the head.
Foreach(h, head) ==
  Path([e \in Nodes |-> IF h.next[e] = head THEN NULL ELSE h.next[e]],
       head, Cardinality(Nodes) + 1)

\* LL_SEARCH and its variants: the first element that compares equal.
Search(h, head, rank, r) ==
  LET found == SelectSeq(Foreach(h, head), LAMBDA e : rank[e] = r)
  IN  IF found = <<>> THEN NULL ELSE Head(found)

-----------------------------------------------------------------------------
(* Singly linked.                                                          *)

\* The element before e, or the last one when e is not there.
Before(h, e) ==
  LET path == Foreach(h, h.head)
      k == CHOOSE k \in DOMAIN path :
             /\ h.next[path[k]] \in {e, NULL}
             /\ \A j \in 1 .. k - 1 : h.next[path[j]] \notin {e, NULL}
  IN  path[k]

LL_prepend(h, add) == [h EXCEPT !.next[add] = h.head, !.head = add]

LL_append(h, add) ==
  IF h.head = NULL THEN [h EXCEPT !.next[add] = NULL, !.head = add]
  ELSE [h EXCEPT !.next[add] = NULL, !.next[Before(h, NULL)] = add]

LL_concat(h) ==
  IF h.head = NULL THEN [h EXCEPT !.head = h.head2]
  ELSE [h EXCEPT !.next[Before(h, NULL)] = h.head2]

LL_delete(h, del) ==
  IF h.head = del THEN [h EXCEPT !.head = h.next[del]]
  ELSE IF h.next[Before(h, del)] = NULL THEN h
  ELSE [h EXCEPT !.next[Before(h, del)] = h.next[del]]

\* add comes to where the pointer to el was.
PutFor(h, el, add) ==
  IF h.head = el THEN [h EXCEPT !.head = add]
  ELSE IF h.next[Before(h, el)] = NULL THEN h
  ELSE [h EXCEPT !.next[Before(h, el)] = add]

LL_replace_elem(h, el, add) == PutFor([h EXCEPT !.next[add] = h.next[el]], el, add)

LL_prepend_elem(h, el, add) == PutFor([h EXCEPT !.next[add] = el], el, add)

-----------------------------------------------------------------------------
(* Doubly linked.                                                          *)

DL_prepend(h, add) ==
  IF h.head = NULL
  THEN [h EXCEPT !.next[add] = NULL, !.prev[add] = add, !.head = add]
  ELSE [h EXCEPT !.next[add] = h.head, !.prev[add] = h.prev[h.head],
                 !.prev[h.head] = add, !.head = add]

DL_append(h, add) ==
  IF h.head = NULL
  THEN [h EXCEPT !.head = add, !.prev[add] = add, !.next[add] = NULL]
  ELSE [h EXCEPT !.prev[add] = h.prev[h.head], !.next[h.prev[h.head]] = add,
                 !.prev[h.head] = add, !.next[add] = NULL]

\* Mutated form of DL_concat: the tail stays that of the first list.
DL_concat_tail(h) ==
  IF h.head2 = NULL THEN h
  ELSE IF h.head = NULL THEN [h EXCEPT !.head = h.head2]
  ELSE [h EXCEPT !.prev[h.head2] = h.prev[h.head], !.next[h.prev[h.head]] = h.head2]

DL_concat(h) ==
  IF h.head2 = NULL THEN h
  ELSE IF h.head = NULL THEN [h EXCEPT !.head = h.head2]
  ELSE [h EXCEPT !.prev[h.head2] = h.prev[h.head], !.next[h.prev[h.head]] = h.head2,
                 !.prev[h.head] = h.prev[h.head2]]

DL_delete(h, del) ==
  IF h.prev[del] = del THEN [h EXCEPT !.head = NULL]
  ELSE IF del = h.head
  THEN [h EXCEPT !.prev[h.next[del]] = h.prev[del], !.head = h.next[del]]
  ELSE LET after == IF h.next[del] # NULL THEN h.next[del] ELSE h.head
       IN  [h EXCEPT !.next[h.prev[del]] = h.next[del], !.prev[after] = h.prev[del]]

DL_replace_elem(h, el, add) ==
  LET g == [h EXCEPT !.next[add] = h.next[el], !.prev[add] = h.prev[el]]
      after == h.next[el]
  IN  IF h.head = el /\ after = NULL
      THEN [g EXCEPT !.head = add, !.prev[add] = add]
      ELSE IF h.head = el
      THEN [g EXCEPT !.head = add, !.prev[after] = add]
      ELSE [g EXCEPT !.next[h.prev[el]] = add,
                     !.prev[IF after = NULL THEN h.head ELSE after] = add]

DL_prepend_elem(h, el, add) ==
  LET g == [h EXCEPT !.next[add] = el, !.prev[add] = h.prev[el], !.prev[el] = add]
  IN  IF h.head = el THEN [g EXCEPT !.head = add]
      ELSE [g EXCEPT !.next[g.prev[add]] = add]

-----------------------------------------------------------------------------
(* Circular.                                                               *)

CDL_prepend(h, add) ==
  IF h.head = NULL THEN [h EXCEPT !.prev[add] = add, !.next[add] = add, !.head = add]
  ELSE [h EXCEPT !.prev[add] = h.prev[h.head], !.next[add] = h.head,
                 !.prev[h.head] = add, !.next[h.prev[h.head]] = add, !.head = add]

CDL_delete(h, del) ==
  IF h.head = del /\ h.next[del] = del THEN [h EXCEPT !.head = NULL]
  ELSE [h EXCEPT !.prev[h.next[del]] = h.prev[del], !.next[h.prev[del]] = h.next[del],
                 !.head = IF del = @ THEN h.next[del] ELSE @]

CDL_replace_elem(h, el, add) ==
  IF h.next[el] = el
  THEN [h EXCEPT !.next[add] = add, !.prev[add] = add, !.head = add]
  ELSE [h EXCEPT !.next[add] = h.next[el], !.prev[add] = h.prev[el],
                 !.prev[h.next[el]] = add, !.next[h.prev[el]] = add,
                 !.head = IF @ = el THEN add ELSE @]

CDL_prepend_elem(h, el, add) ==
  LET g == [h EXCEPT !.next[add] = el, !.prev[add] = h.prev[el], !.prev[el] = add]
  IN  [g EXCEPT !.next[g.prev[add]] = add, !.head = IF @ = el THEN add ELSE @]

-----------------------------------------------------------------------------
(* Whatever the kind.                                                      *)

\* Mutated form of Relink_node: the element does not learn what is before it.
Relink_node_one_way(g, e) ==
  [heap |-> IF g.tail = NULL THEN [g.heap EXCEPT !.head = e]
            ELSE [g.heap EXCEPT !.next[g.tail] = e],
   tail |-> e]

\* A sort links e behind the tail of the list that it builds.
Relink_node(g, e) ==
  LET linked == IF g.tail = NULL THEN [g.heap EXCEPT !.head = e]
                ELSE [g.heap EXCEPT !.next[g.tail] = e]
  IN  [heap |-> IF kind = "LL" THEN linked ELSE [linked EXCEPT !.prev[e] = g.tail],
       tail |-> e]

\* The elements are relinked one after the other, then the ends.
Relinked(h, order) ==
  LET end == FoldLeft(Relink_node, [heap |-> [h EXCEPT !.head = NULL], tail |-> NULL], order)
      head == end.heap.head
  IN  CASE kind = "LL" -> [end.heap EXCEPT !.next[end.tail] = NULL]
        [] kind = "DL" -> [end.heap EXCEPT !.prev[head] = end.tail, !.next[end.tail] = NULL]
        [] kind = "CDL" -> [end.heap EXCEPT !.prev[head] = end.tail, !.next[end.tail] = head]

\* The list as runs of insize elements; the last one may be shorter.
Runs(list, insize) ==
  [r \in 1 .. (Len(list) + insize - 1) \div insize |->
     SubSeq(list, (r - 1) * insize + 1, Min({r * insize, Len(list)}))]

\* The passes from runs of insize on: each reads the list along the pointers
\* that the one before has set, and the pass with one merge is the last.
RECURSIVE SortPasses(_, _, _)
SortPasses(h, rank, insize) ==
  LET merged == Pass(rank, Runs(Foreach(h, h.head), insize))
      g == Relinked(h, FlattenSeq(merged))
  IN  IF Len(merged) <= 1 THEN g ELSE SortPasses(g, rank, 2 * insize)

\* LL_SORT, DL_SORT, CDL_SORT.
SortList(h, rank) == IF h.head = NULL THEN h ELSE SortPasses(h, rank, 1)

PrependTo(h, e) ==
  CASE kind = "LL" -> LL_prepend(h, e)
    [] kind = "DL" -> DL_prepend(h, e)
    [] kind = "CDL" -> CDL_prepend(h, e)

AppendTo(h, e) == IF kind = "LL" THEN LL_append(h, e) ELSE DL_append(h, e)

\* The macro, and the element is freed.
DeleteFrom(h, e) ==
  LET g == CASE kind = "LL" -> LL_delete(h, e)
             [] kind = "DL" -> DL_delete(h, e)
             [] kind = "CDL" -> CDL_delete(h, e)
  IN  [g EXCEPT !.next[e] = JUNK, !.prev[e] = JUNK]

Replace(h, el, add) ==
  LET g == CASE kind = "LL" -> LL_replace_elem(h, el, add)
             [] kind = "DL" -> DL_replace_elem(h, el, add)
             [] kind = "CDL" -> CDL_replace_elem(h, el, add)
  IN  [g EXCEPT !.next[el] = JUNK, !.prev[el] = JUNK]

PrependElem(h, el, add) ==
  CASE kind = "LL" -> LL_prepend_elem(h, el, add)
    [] kind = "DL" -> DL_prepend_elem(h, el, add)
    [] kind = "CDL" -> CDL_prepend_elem(h, el, add)

\* Mutated form of Safely: the loop reads the next element after the body.
RECURSIVE Safely_late(_, _, _, _)
Safely_late(h, el, last, gone) ==
  IF el \in {NULL, JUNK} THEN h
  ELSE LET g == IF el \in gone THEN DeleteFrom(h, el) ELSE h
       IN  Safely_late(g, IF kind = "CDL" /\ el = last THEN NULL ELSE g.next[el], last, gone)

\* LL_FOREACH_SAFE, DL_FOREACH_SAFE, CDL_FOREACH_SAFE from el on, with a body
\* that deletes the element when it is in gone.
RECURSIVE Safely(_, _, _, _)
Safely(h, el, last, gone) ==
  IF el = NULL THEN h
  ELSE Safely(IF el \in gone THEN DeleteFrom(h, el) ELSE h,
              IF kind = "CDL" /\ el = last THEN NULL ELSE h.next[el], last, gone)

-----------------------------------------------------------------------------
Free == Nodes \ (ToSet(items) \cup ToSet(items2))

Prepend_node(e) ==
  /\ heap' = PrependTo(heap, e) /\ items' = <<e>> \o items
  /\ UNCHANGED <<kind, items2>>

Append_node(e) ==
  /\ kind # "CDL"
  /\ heap' = AppendTo(heap, e) /\ items' = Append(items, e)
  /\ UNCHANGED <<kind, items2>>

\* The same on the other list.
Append_other(e) ==
  /\ kind # "CDL"
  /\ LET g == AppendTo([heap EXCEPT !.head = heap.head2, !.head2 = heap.head], e)
     IN  heap' = [g EXCEPT !.head = g.head2, !.head2 = g.head]
  /\ items2' = Append(items2, e)
  /\ UNCHANGED <<kind, items>>

\* The second list is given up after it became part of the first.
Concat ==
  /\ kind # "CDL"
  /\ heap' = [(IF kind = "LL" THEN LL_concat(heap) ELSE DL_concat(heap))
                EXCEPT !.head2 = NULL]
  /\ items' = items \o items2 /\ items2' = <<>>
  /\ UNCHANGED kind

Delete_node(e) ==
  /\ heap' = DeleteFrom(heap, e) /\ items' = SelectSeq(items, LAMBDA x : x # e)
  /\ UNCHANGED <<kind, items2>>

Replace_node(el, add) ==
  /\ heap' = Replace(heap, el, add)
  /\ items' = [k \in DOMAIN items |-> IF items[k] = el THEN add ELSE items[k]]
  /\ UNCHANGED <<kind, items2>>

Prepend_before(el, add) ==
  /\ heap' = PrependElem(heap, el, add)
  /\ LET k == CHOOSE k \in DOMAIN items : items[k] = el
     IN  items' = InsertAt(items, k, add)
  /\ UNCHANGED <<kind, items2>>

Sort_nodes(rank) ==
  /\ heap' = SortList(heap, rank)
  /\ items' = CHOOSE s \in {t \in [DOMAIN items -> ToSet(items)] :
                              IsStableSort(rank, items, t)} : TRUE
  /\ UNCHANGED <<kind, items2>>

Delete_in_loop(gone) ==
  /\ heap' = Safely(heap, heap.head, IF heap.head = NULL \/ kind = "LL" THEN NULL
                                     ELSE heap.prev[heap.head], gone)
  /\ items' = SelectSeq(items, LAMBDA x : x \notin gone)
  /\ UNCHANGED <<kind, items2>>

ListInit ==
  /\ kind \in {"LL", "DL", "CDL"}
  /\ heap = [head |-> NULL, head2 |-> NULL,
             next |-> [e \in Nodes |-> JUNK], prev |-> [e \in Nodes |-> JUNK]]
  /\ items = <<>> /\ items2 = <<>>

ListNext ==
  \/ \E e \in Free : Prepend_node(e) \/ Append_node(e) \/ Append_other(e)
  \/ \E e \in ToSet(items) : Delete_node(e)
  \/ \E el \in ToSet(items), add \in Free : Replace_node(el, add) \/ Prepend_before(el, add)
  \/ \E rank \in NodeRanks : Sort_nodes(rank)
  \/ \E gone \in SUBSET ToSet(items) : Delete_in_loop(gone)
  \/ Concat

ListSpec == ListInit /\ [][ListNext]_listVars

-----------------------------------------------------------------------------
(* Properties.                                                             *)

\* Every loop over a list visits what was put in and not taken out, in order,
\* and a search finds the first element that compares equal.
ListsHoldItems ==
  /\ Foreach(heap, heap.head) = items
  /\ Foreach(heap, heap.head2) = items2
  /\ \A rank \in NodeRanks : \A r \in {rank[e] : e \in Nodes} :
       LET equal == {k \in DOMAIN items : rank[items[k]] = r}
       IN  Search(heap, heap.head, rank, r) =
             IF equal = {} THEN NULL ELSE items[CHOOSE k \in equal : \A j \in equal : k <= j]

\* The pointers of the elements of list, when they are linked in this order.
LinkedAs(h, list) ==
  LET n == Len(list)
      Place(e) == CHOOSE k \in DOMAIN list : list[k] = e
      After(e) == IF Place(e) < n THEN list[Place(e) + 1]
                  ELSE IF kind = "CDL" THEN list[1] ELSE NULL
      Ahead(e) == IF kind = "LL" THEN JUNK
                  ELSE IF Place(e) > 1 THEN list[Place(e) - 1] ELSE list[n]
  IN  [h EXCEPT
         !.next = [e \in Nodes |-> IF e \in ToSet(list) THEN After(e) ELSE @[e]],
         !.prev = [e \in Nodes |-> IF e \in ToSet(list) THEN Ahead(e) ELSE @[e]]]

\* The pointers are exactly those of the lists: prev undoes next, the head of
\* a DL knows its tail, a CDL is closed, and no pointer leads to a freed element.
PointersAreThose ==
  LET fresh == [head |-> heap.head, head2 |-> heap.head2,
                next |-> [e \in Nodes |-> JUNK], prev |-> [e \in Nodes |-> JUNK]]
  IN  heap = LinkedAs(LinkedAs(fresh, items), items2)

\* What utlist promises: its items, and nothing but their pointers.
ListsKeep == ListsHoldItems /\ PointersAreThose
=============================================================================
