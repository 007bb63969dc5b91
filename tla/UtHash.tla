------------------------------- MODULE UtHash -------------------------------
(***************************************************************************)
(* The hash table of datastructures/uthash.h, which holds the tasks of the *)
(* driver (dtask_map).  An element is its own key and its own hash handle. *)
(* Elements are linked twice: in application order, and in the chain of    *)
(* their bucket.  Buckets double when a chain grows too long.              *)
(***************************************************************************)
EXTENDS Integers, Sequences, FiniteSets, SequencesExt, MergeSort, Pointers

CONSTANTS
  Elements,           \* the elements that may be in a table
  HashFunctions,      \* what HASH_FCN may be: the hash values of the elements
  Thresholds,         \* values of HASH_BKT_CAPACITY_THRESH, 10 in the code
  InitialBuckets,     \* HASH_INITIAL_NUM_BUCKETS, 32 in the code
  MaxBuckets,         \* bound on the number of buckets
  Ranks               \* comparison functions, as the rank of each element

ASSUME HashAssumption ==
  /\ NULL \notin Elements /\ IsFiniteSet(Elements)
  /\ HashFunctions \subseteq [Elements -> Nat]
  /\ Thresholds \subseteq Nat \ {0}
  /\ InitialBuckets \in Nat \ {0} /\ MaxBuckets \in Nat
  /\ Ranks \subseteq [Elements -> Int]

VARIABLES
  hashv,      \* the hash function
  thresh,     \* the capacity of a bucket
  ht,         \* the table: its head, the handles of the elements, and tbl
  dst,        \* another table, filled by HASH_SELECT
  iter        \* a loop of HASH_ITER

hashVars == <<hashv, thresh, ht, dst, iter>>

HandlePointers == [Elements -> Elements \cup {NULL}]
Loose == [e \in Elements |-> NULL]

EmptyBuckets(n) ==
  [b \in 0 .. n - 1 |-> [hh_head |-> NULL, count |-> 0, expand_mult |-> 0]]

\* No head, no table.  A handle that is in no table holds no pointer.
Empty ==
  [head |-> NULL, next |-> Loose, prev |-> Loose, hh_next |-> Loose, hh_prev |-> Loose,
   tbl |-> [num_buckets |-> 0, buckets |-> <<>>, num_items |-> 0, tail |-> NULL,
            ineff_expands |-> 0, noexpand |-> FALSE]]

AppOrder(h) == Path(h.next, h.head, Cardinality(Elements) + 1)
Items(h) == ToSet(AppOrder(h))
Chain(h, b) == Path(h.hh_next, h.tbl.buckets[b].hh_head, Cardinality(Elements) + 1)

To_bkt(e, num_buckets) == hashv[e] % num_buckets

\* The elements in the order of their buckets, chain after chain.
InBucketOrder(h) ==
  LET upto[b \in 0 .. h.tbl.num_buckets] ==
        IF b = 0 THEN <<>> ELSE upto[b - 1] \o Chain(h, b - 1)
  IN  upto[h.tbl.num_buckets]

-----------------------------------------------------------------------------
(* Buckets.                                                                *)

\* Mutated form of Push: the old head does not learn of its new neighbour.
Push_one_way(h, b, e) ==
  [h EXCEPT !.hh_next[e] = h.tbl.buckets[b].hh_head, !.hh_prev[e] = NULL,
            !.tbl.buckets[b].hh_head = e, !.tbl.buckets[b].count = @ + 1]

\* e becomes the head of a chain.
Push(h, b, e) ==
  LET first == h.tbl.buckets[b].hh_head IN
  [h EXCEPT !.hh_next[e] = first,
            !.hh_prev = [x \in Elements |->
                           IF x = e THEN NULL ELSE IF x = first THEN e ELSE @[x]],
            !.tbl.buckets[b].hh_head = e,
            !.tbl.buckets[b].count = @ + 1]

\* e is moved to its bucket of n; a chain beyond the ideal length may grow.
Move(g, e, n, ideal) ==
  LET b == To_bkt(e, n)
      count == g.tbl.buckets[b].count + 1
  IN  IF count > ideal
      THEN [Push(g, b, e) EXCEPT !.tbl.buckets[b].expand_mult = count \div ideal]
      ELSE Push(g, b, e)

\* The table while the elements are moved, in bucket order, to n new buckets.
Moved(h, n, ideal) ==
  LET all == InBucketOrder(h)
      after[k \in 0 .. Len(all)] ==
        IF k = 0 THEN [h EXCEPT !.tbl.num_buckets = n, !.tbl.buckets = EmptyBuckets(n)]
        ELSE Move(after[k - 1], all[k], n, ideal)
  IN  after

\* Mutated form of Expand_buckets: the elements keep their old bucket numbers.
Expand_buckets_in_place(h) ==
  LET n == 2 * h.tbl.num_buckets
      all == InBucketOrder(h)
      after[k \in 0 .. Len(all)] ==
        IF k = 0 THEN [h EXCEPT !.tbl.num_buckets = n, !.tbl.buckets = EmptyBuckets(n)]
        ELSE Push(after[k - 1], To_bkt(all[k], h.tbl.num_buckets), all[k])
  IN  after[Len(all)]

\* How many elements are beyond the ideal length of their chains.
Nonideal_items(h, ideal) ==
  LET Nonideal(b) == LET c == h.tbl.buckets[b].count IN IF c > ideal THEN c - ideal ELSE 0
  IN  FoldLeft(LAMBDA sum, b : sum + Nonideal(b - 1), 0, [b \in 1 .. h.tbl.num_buckets |-> b])

\* Twice as many buckets.  Two expansions in a row that leave more than half
\* of the elements beyond the ideal length inhibit any other.
Expand_buckets(h) ==
  LET n == 2 * h.tbl.num_buckets
      items == h.tbl.num_items
      ideal == items \div n + IF items % n # 0 THEN 1 ELSE 0
      moved == Moved(h, n, ideal)[Len(InBucketOrder(h))]
      ineff == IF Nonideal_items(moved, ideal) > items \div 2 THEN h.tbl.ineff_expands + 1 ELSE 0
  IN  [moved EXCEPT !.tbl.ineff_expands = ineff, !.tbl.noexpand = @ \/ ineff > 1]

\* Mutated form of Add_to_bkt: the buckets never grow.
Add_to_bkt_fixed(h, e) == Push(h, To_bkt(e, h.tbl.num_buckets), e)

Add_to_bkt(h, e) ==
  LET b == To_bkt(e, h.tbl.num_buckets)
      g == Push(h, b, e)
      bucket == g.tbl.buckets[b]
  IN  IF bucket.count >= (bucket.expand_mult + 1) * thresh /\ ~ g.tbl.noexpand
      THEN Expand_buckets(g) ELSE g

Del_in_bkt(h, b, e) ==
  LET before == h.hh_prev[e]
      after == h.hh_next[e]
  IN  [h EXCEPT !.tbl.buckets[b].count = @ - 1,
                !.tbl.buckets[b].hh_head = IF @ = e THEN after ELSE @,
                !.hh_next = [x \in Elements |->
                  IF x = e THEN NULL ELSE IF x = before THEN after ELSE @[x]],
                !.hh_prev = [x \in Elements |->
                  IF x = e THEN NULL ELSE IF x = after THEN before ELSE @[x]]]

-----------------------------------------------------------------------------
(* Operations on a table.                                                  *)

Make_table(h, e) ==
  [h EXCEPT !.head = e,
            !.tbl = [Empty.tbl EXCEPT !.num_buckets = InitialBuckets,
                                      !.buckets = EmptyBuckets(InitialBuckets),
                                      !.tail = e]]

\* Mutated form of Hash_add: the tail stays where it is.
Hash_add_tail(h, e) ==
  LET linked == IF h.head = NULL THEN Make_table(h, e)
                ELSE [h EXCEPT !.next[h.tbl.tail] = e, !.prev[e] = h.tbl.tail]
  IN  Add_to_bkt([linked EXCEPT !.tbl.num_items = @ + 1], e)

\* e, which is in no table, is linked behind the tail and put in its bucket.
Hash_add(h, e) ==
  LET linked == IF h.head = NULL THEN Make_table(h, e)
                ELSE [h EXCEPT !.next[h.tbl.tail] = e, !.prev[e] = h.tbl.tail,
                               !.tbl.tail = e]
  IN  Add_to_bkt([linked EXCEPT !.tbl.num_items = @ + 1], e)

\* e is taken out of both lists; the table goes with its last element.  The
\* caller frees e.
Hash_delete(h, e) ==
  LET before == h.prev[e]
      after == h.next[e]
      unlinked ==
        [h EXCEPT !.head = IF before = NULL THEN after ELSE @,
                  !.next = [x \in Elements |->
                    IF x = e THEN NULL ELSE IF x = before THEN after ELSE @[x]],
                  !.prev = [x \in Elements |->
                    IF x = e THEN NULL ELSE IF x = after THEN before ELSE @[x]],
                  !.tbl.tail = IF @ = e THEN before ELSE @,
                  !.tbl.num_items = @ - 1]
  IN  IF before = NULL /\ after = NULL THEN Empty
      ELSE Del_in_bkt(unlinked, To_bkt(e, h.tbl.num_buckets), e)

\* The element of its bucket that has the key, if any.
Hash_find(h, key) ==
  IF /\ h.head # NULL
     /\ key \in ToSet(Chain(h, To_bkt(key, h.tbl.num_buckets)))
  THEN key ELSE NULL

\* A sort links e behind the tail of the list that it builds.
Relink(g, e) ==
  [list |-> IF g.tail = NULL THEN e ELSE g.list,
   tail |-> e,
   next |-> IF g.tail = NULL THEN g.next ELSE [g.next EXCEPT ![g.tail] = e],
   prev |-> [g.prev EXCEPT ![e] = g.tail]]

\* Mutated form of Linked: the tail goes on to what was behind it.
Linked_open(h, order) ==
  LET after[k \in 0 .. Len(order)] ==
        IF k = 0 THEN [list |-> NULL, tail |-> NULL, next |-> h.next, prev |-> h.prev]
        ELSE Relink(after[k - 1], order[k])
      g == after[Len(order)]
  IN  [h EXCEPT !.head = g.list, !.tbl.tail = g.tail, !.next = g.next, !.prev = g.prev]

\* The elements are relinked one after the other, and the tail is closed.
Linked(h, order) ==
  LET after[k \in 0 .. Len(order)] ==
        IF k = 0 THEN [list |-> NULL, tail |-> NULL, next |-> h.next, prev |-> h.prev]
        ELSE Relink(after[k - 1], order[k])
      g == after[Len(order)]
  IN  [h EXCEPT !.head = g.list, !.tbl.tail = g.tail,
                !.next = [g.next EXCEPT ![g.tail] = NULL], !.prev = g.prev]

Hash_srt(h, rank) == IF h.head = NULL THEN h ELSE Linked(h, Sorted(rank, AppOrder(h)))

\* The table and its last element after e was dealt with: it joins if chosen.
Selected(g, e, chosen) ==
  LET linked == IF g.last = NULL THEN Make_table(g.table, e)
                ELSE [g.table EXCEPT !.prev[e] = g.last, !.next[g.last] = e]
  IN  IF e \in chosen
      THEN [table |-> [Add_to_bkt(linked, e) EXCEPT !.tbl.num_items = @ + 1], last |-> e]
      ELSE g

\* The elements of the chosen set, bucket after bucket, in a table of their own.
Hash_select(h, chosen) ==
  LET all == IF h.head = NULL THEN <<>> ELSE InBucketOrder(h)
      after[k \in 0 .. Len(all)] ==
        IF k = 0 THEN [table |-> Empty, last |-> NULL]
        ELSE Selected(after[k - 1], all[k], chosen)
  IN  after[Len(all)].table

-----------------------------------------------------------------------------
(* The table under use.                                                    *)

Idle == iter.on = FALSE
NoLoop == [on |-> FALSE, el |-> NULL, tmp |-> NULL, todo |-> <<>>]

Add(e) ==
  /\ Idle /\ Hash_find(ht, e) = NULL
  /\ ht' = Hash_add(ht, e)
  /\ ht'.tbl.num_buckets <= MaxBuckets
  /\ UNCHANGED <<hashv, thresh, dst, iter>>

Delete(e) ==
  /\ Idle /\ Hash_find(ht, e) = e
  /\ ht' = Hash_delete(ht, e)
  /\ dst' = IF Hash_find(dst, e) = e THEN Hash_delete(dst, e) ELSE dst
  /\ UNCHANGED <<hashv, thresh, iter>>

Sort(rank) ==
  /\ Idle
  /\ ht' = Hash_srt(ht, rank)
  /\ UNCHANGED <<hashv, thresh, dst, iter>>

\* HASH_CLEAR, and with it the other table.
Clear ==
  /\ Idle
  /\ ht' = Empty
  /\ dst' = Empty
  /\ UNCHANGED <<hashv, thresh, iter>>

\* num_items is still zero when the first element is selected: an expansion
\* at once would divide by an ideal length of zero, which a threshold of ten
\* excludes.
Select(chosen) ==
  /\ Idle /\ thresh > 1 /\ dst = Empty
  /\ dst' = Hash_select(ht, chosen)
  /\ UNCHANGED <<hashv, thresh, ht, iter>>

Begin_iter ==
  /\ Idle
  /\ iter' = [on |-> TRUE, el |-> ht.head,
              tmp |-> IF ht.head = NULL THEN NULL ELSE ht.next[ht.head],
              todo |-> AppOrder(ht)]
  /\ UNCHANGED <<hashv, thresh, ht, dst>>

\* Mutated form of Next_el: the loop reads where to go on from the element.
Next_el_unsafe(h) ==
  LET el == h.next[iter.el]
  IN  [el |-> el, tmp |-> IF el = NULL THEN NULL ELSE h.next[el]]

Next_el(h) == [el |-> iter.tmp, tmp |-> IF iter.tmp = NULL THEN NULL ELSE h.next[iter.tmp]]

\* The list without e.
Without(list, e) ==
  IF e \in ToSet(list) THEN RemoveAt(list, CHOOSE k \in DOMAIN list : list[k] = e) ELSE list

\* The body of the loop may delete any one element but the next.
Iterate(gone) ==
  /\ iter.on /\ iter.el # NULL
  /\ gone \in (Items(ht) \ {iter.tmp}) \cup {NULL}
  /\ LET h == IF gone = NULL THEN ht ELSE Hash_delete(ht, gone) IN
     /\ ht' = h
     /\ iter' = [on |-> TRUE, el |-> Next_el(h).el, tmp |-> Next_el(h).tmp,
                 todo |-> Without(Tail(iter.todo), gone)]
  /\ dst' = IF gone \in Items(dst) THEN Hash_delete(dst, gone) ELSE dst
  /\ UNCHANGED <<hashv, thresh>>

End_iter ==
  /\ iter.on /\ iter.el = NULL
  /\ iter' = NoLoop
  /\ UNCHANGED <<hashv, thresh, ht, dst>>

HashInit ==
  /\ hashv \in HashFunctions
  /\ thresh \in Thresholds
  /\ ht = Empty /\ dst = Empty
  /\ iter = NoLoop

HashNext ==
  \/ \E e \in Elements : Add(e) \/ Delete(e)
  \/ \E rank \in Ranks : Sort(rank)
  \/ \E chosen \in SUBSET Elements : Select(chosen)
  \/ \E gone \in Elements \cup {NULL} : Iterate(gone)
  \/ Clear \/ Begin_iter \/ End_iter

HashSpec == HashInit /\ [][HashNext]_hashVars

-----------------------------------------------------------------------------
(* Properties.                                                             *)

\* What HASH_FSCK checks after every change: each chain and the list are well
\* linked both ways, and the counts are those of the chains and of the list.
Fsck(h) ==
  LET WellLinked(list, prev) ==
        \A k \in DOMAIN list : prev[list[k]] = IF k = 1 THEN NULL ELSE list[k - 1]
      buckets == h.tbl.buckets
  IN  h.head # NULL =>
        /\ \A b \in DOMAIN buckets :
             /\ WellLinked(Chain(h, b), h.hh_prev)
             /\ buckets[b].count = Len(Chain(h, b))
        /\ WellLinked(AppOrder(h), h.prev)
        /\ h.tbl.num_items = Len(AppOrder(h))
        /\ Cardinality(UNION {ToSet(Chain(h, b)) : b \in DOMAIN buckets}) = h.tbl.num_items

\* The handles hold pointers to elements, and both tables pass the integrity
\* check of uthash after every operation.
HashTypeOK ==
  /\ \A h \in {ht, dst} :
       /\ h.head \in Elements \cup {NULL}
       /\ {h.next, h.prev, h.hh_next, h.hh_prev} \subseteq HandlePointers
       /\ h.head # NULL => DOMAIN h.tbl.buckets = 0 .. h.tbl.num_buckets - 1
       /\ Fsck(h)
  /\ iter.el \in Elements \cup {NULL} /\ iter.tmp \in Elements \cup {NULL}

\* HASH_FIND finds an element exactly when it is in the table, however often
\* the buckets have been doubled since it was added.
FindIsExact ==
  \A h \in {ht, dst} : \A e \in Elements :
    Hash_find(h, e) = IF e \in Items(h) THEN e ELSE NULL

\* A chain never exceeds expand_mult + 1 times the threshold, unless further
\* expansion was given up.
ChainsBounded ==
  \A h \in {ht, dst} : h.head # NULL /\ ~ h.tbl.noexpand =>
    \A b \in DOMAIN h.tbl.buckets :
      h.tbl.buckets[b].count <= (h.tbl.buckets[b].expand_mult + 1) * thresh

\* HASH_ITER visits, in order, every element that was there when it began and
\* was not deleted first; rt_dtask_dispose deletes each one it visits.
IterationIsExact ==
  iter.on => /\ iter.el = NULL <=> iter.todo = <<>>
             /\ iter.el # NULL => iter.el = Head(iter.todo)

OrderOf == INSTANCE OrderedSet WITH items <- AppOrder(ht)

\* The table implements a set that remembers its order: through additions at
\* the tail, deletions anywhere, expansions, sorts and clearing.
KeepsOrder == OrderOf!Spec
=============================================================================
