----------------------------- MODULE MergeSort -----------------------------
(***************************************************************************)
(* The bottom-up merge sort of linked lists that HASH_SRT, LL_SORT,        *)
(* DL_SORT and CDL_SORT share.  The list is the sequence that its next     *)
(* pointers link, cut into runs; rank stands for the comparison function.  *)
(***************************************************************************)
EXTENDS Integers, Sequences

\* After i elements of p and j of q the merge goes on with p.
FromFirst(rank, p, q, i, j) ==
  i < Len(p) /\ (j < Len(q) => rank[p[i + 1]] <= rank[q[j + 1]])

\* How many of the first k elements of the merge are from p.
Taken(rank, p, q) ==
  LET i[k \in 0 .. Len(p) + Len(q)] ==
        IF k = 0 THEN 0
        ELSE LET before == i[k - 1]
             IN  IF FromFirst(rank, p, q, before, k - 1 - before) THEN before + 1 ELSE before
  IN  i

\* The elements of two adjacent runs, the smaller head first.
Merge(rank, p, q) ==
  LET taken == Taken(rank, p, q)
      Pick(i, j) == IF FromFirst(rank, p, q, i, j) THEN p[i + 1] ELSE q[j + 1]
  IN  [k \in 1 .. Len(p) + Len(q) |-> Pick(taken[k - 1], k - 1 - taken[k - 1])]

\* One pass merges every two runs; the last one may have none to merge with.
Pass(rank, runs) ==
  [r \in 1 .. (Len(runs) + 1) \div 2 |->
     Merge(rank, runs[2 * r - 1], IF 2 * r <= Len(runs) THEN runs[2 * r] ELSE <<>>)]

\* The runs after each pass; every element is a run at first.
Passes(rank, list) ==
  LET runs[k \in 0 .. Len(list)] ==
        IF k = 0 THEN [j \in 1 .. Len(list) |-> <<list[j]>>] ELSE Pass(rank, runs[k - 1])
  IN  runs

\* Passes until one merge does the whole list, which is not empty.
Sorted(rank, list) ==
  LET runs == Passes(rank, list)
      last == CHOOSE k \in 1 .. Len(list) :
                Len(runs[k]) = 1 /\ \A j \in 1 .. k - 1 : Len(runs[j]) # 1
  IN  runs[last][1]

-----------------------------------------------------------------------------
\* What a sort of s promises: t has the elements of s in the order of rank,
\* and those of equal rank as they were.
IsStableSort(rank, s, t) ==
  LET Place(list, x) == CHOOSE k \in DOMAIN list : list[k] = x
      Members == {s[k] : k \in DOMAIN s}
  IN  /\ Len(t) = Len(s) /\ {t[k] : k \in DOMAIN t} = Members
      /\ \A x, y \in Members :
           Place(t, x) < Place(t, y) <=>
             \/ rank[x] < rank[y]
             \/ rank[x] = rank[y] /\ Place(s, x) < Place(s, y)
=============================================================================
