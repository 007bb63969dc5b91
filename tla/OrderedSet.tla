----------------------------- MODULE OrderedSet -----------------------------
(***************************************************************************)
(* What uthash promises: a set that remembers the order in which its       *)
(* elements came, or the order it was last sorted in.                      *)
(***************************************************************************)
EXTENDS MergeSort, SequencesExt

CONSTANTS Elements, Ranks

VARIABLE items      \* the elements in application order

AddLast ==
  \E e \in Elements \ {items[k] : k \in DOMAIN items} : items' = Append(items, e)

RemoveOne ==
  \E k \in DOMAIN items : items' = RemoveAt(items, k)

RemoveAll == items' = <<>>

Reorder == \E rank \in Ranks : IsStableSort(rank, items, items')

Spec ==
  items = <<>> /\ [][AddLast \/ RemoveOne \/ RemoveAll \/ Reorder]_items
=============================================================================
