------------------------------ MODULE UtArray ------------------------------
(***************************************************************************)
(* The dynamic array of datastructures/utarray.h: n slots of memory, of    *)
(* which the first i are elements.  The array owns its elements: icd.copy  *)
(* makes one (strdup in ut_str_icd), icd.dtor frees it.                    *)
(***************************************************************************)
EXTENDS Integers, Sequences, FiniteSets, SequencesExt, Pointers

CONSTANTS
  Values,       \* what can be put into an array
  ZERO,         \* an element that memset cleared, for which dtor does nothing
  FirstSlots,   \* the slots of the first allocation, 8 in the code
  MaxLength     \* bound on the length

ASSUME ArrayAssumption ==
  /\ ZERO \notin Values /\ JUNK \notin Values
  /\ FirstSlots \in Nat \ {0} /\ MaxLength \in Nat

VARIABLES
  arr,      \* the array: i, n and the slots d
  alive,    \* how many copies of each value the array's functions have made
            \* and not yet freed
  content   \* the elements the array should have

arrayVars == <<arr, alive, content>>

Slice(a, from, to) == [k \in 1 .. to - from |-> a.d[from + k - 1]]
Elts(a) == Slice(a, 0, a.i)

Twice(n) == IF n = 0 THEN FirstSlots ELSE 2 * n

\* The slots after k rounds of the loop that doubles them.
Doublings(n) == LET slots[k \in Nat] == IF k = 0 THEN n ELSE Twice(slots[k - 1]) IN slots

\* The loop ends as soon as the slots are enough; one more each round at least.
Doubled(n, needed) ==
  LET rounds == CHOOSE k \in 0 .. needed :
        needed <= Doublings(n)[k] /\ \A l \in 0 .. k - 1 : Doublings(n)[l] < needed
  IN  Doublings(n)[rounds]

Reserve(a, by) ==
  LET n == Doubled(a.n, a.i + by)
  IN  [a EXCEPT !.n = n, !.d = [k \in 0 .. n - 1 |-> IF k < a.n THEN a.d[k] ELSE JUNK]]

\* memcpy or icd.copy of the sequence w to the slots from j on; a write
\* beyond the slots is lost.
Copy(a, j, w) ==
  [a EXCEPT !.d = [k \in DOMAIN a.d |-> IF k \in j .. j + Len(w) - 1 THEN w[k - j + 1] ELSE @[k]]]

\* Mutated form of Open: it moves one element less.
Open_short(a, j, by) == IF j < a.i THEN Copy(a, j + by, Slice(a, j, a.i - 1)) ELSE a

\* memmove of the elements from j on, to make room for by others.
Open(a, j, by) == IF j < a.i THEN Copy(a, j + by, Slice(a, j, a.i)) ELSE a

Count(w, v) == Cardinality({k \in DOMAIN w : w[k] = v})
Made(w) == [v \in Values |-> alive[v] + Count(w, v)]
Freed(w) == [v \in Values |-> alive[v] - Count(w, v)]

-----------------------------------------------------------------------------
Push_back(v) ==
  LET a == Reserve(arr, 1) IN
  /\ Len(content) < MaxLength
  /\ arr' = [Copy(a, a.i, <<v>>) EXCEPT !.i = @ + 1]
  /\ alive' = Made(<<v>>)
  /\ content' = Append(content, v)

Pop_back ==
  /\ arr.i > 0
  /\ arr' = [arr EXCEPT !.i = @ - 1]
  /\ alive' = Freed(<<arr.d[arr.i - 1]>>)
  /\ content' = Front(content)

Extend_back ==
  LET a == Reserve(arr, 1) IN
  /\ Len(content) < MaxLength
  /\ arr' = [Copy(a, a.i, <<ZERO>>) EXCEPT !.i = @ + 1]
  /\ content' = Append(content, ZERO)
  /\ UNCHANGED alive

\* utarray_insert: the slots are reserved even when j is out of range.
Insert(v, j) ==
  LET a == Reserve(arr, 1) IN
  /\ Len(content) < MaxLength
  /\ IF j > arr.i
     THEN arr' = a /\ UNCHANGED <<alive, content>>
     ELSE /\ arr' = [Copy(Open(a, j, 1), j, <<v>>) EXCEPT !.i = @ + 1]
          /\ alive' = Made(<<v>>)
          /\ content' = InsertAt(content, j + 1, v)

\* utarray_inserta, and at the end utarray_concat: a copy of another array.
Inserta(w, j) ==
  /\ Len(content) + Len(w) <= MaxLength
  /\ w # <<>> /\ j <= arr.i
  /\ arr' = [Copy(Open(Reserve(arr, Len(w)), j, Len(w)), j, w) EXCEPT !.i = @ + Len(w)]
  /\ alive' = Made(w)
  /\ content' = SubSeq(content, 1, j) \o w \o SubSeq(content, j + 1, Len(content))

\* Mutated form of Resize: the elements beyond num are not freed.
Resize_leaking(num) ==
  LET a == IF arr.i < num THEN Reserve(arr, num - arr.i) ELSE arr
      zeros == [k \in 1 .. num - arr.i |-> ZERO]
  IN  /\ arr' = [(IF arr.i < num THEN Copy(a, arr.i, zeros) ELSE a) EXCEPT !.i = num]
      /\ content' = IF num < arr.i THEN SubSeq(content, 1, num) ELSE content \o zeros
      /\ UNCHANGED alive

Resize(num) ==
  LET a == IF arr.i < num THEN Reserve(arr, num - arr.i) ELSE arr
      zeros == [k \in 1 .. num - arr.i |-> ZERO]
  IN  /\ arr' = [(IF arr.i < num THEN Copy(a, arr.i, zeros) ELSE a) EXCEPT !.i = num]
      /\ alive' = IF num < arr.i THEN Freed(Slice(arr, num, arr.i)) ELSE alive
      /\ content' = IF num < arr.i THEN SubSeq(content, 1, num) ELSE content \o zeros

Erase(pos, len) ==
  /\ pos + len <= arr.i
  /\ arr' = [(IF arr.i > pos + len THEN Copy(arr, pos, Slice(arr, pos + len, arr.i)) ELSE arr)
               EXCEPT !.i = @ - len]
  /\ alive' = Freed(Slice(arr, pos, pos + len))
  /\ content' = SubSeq(content, 1, pos) \o SubSeq(content, pos + len + 1, Len(content))

\* utarray_clear.
Clear_array ==
  /\ arr.i > 0
  /\ arr' = [arr EXCEPT !.i = 0]
  /\ alive' = Freed(Elts(arr))
  /\ content' = <<>>

\* utarray_done and utarray_init.
Renew_array ==
  /\ arr' = [i |-> 0, n |-> 0, d |-> <<>>]
  /\ alive' = IF arr.n > 0 THEN Freed(Elts(arr)) ELSE alive
  /\ content' = <<>>

ArrayInit ==
  /\ arr = [i |-> 0, n |-> 0, d |-> <<>>]
  /\ alive = [v \in Values |-> 0]
  /\ content = <<>>

Others == UNION {[1 .. n -> Values] : n \in 1 .. 2}

ArrayNext ==
  \/ \E v \in Values : Push_back(v) \/ \E j \in 0 .. MaxLength : Insert(v, j)
  \/ \E w \in Others, j \in 0 .. MaxLength : Inserta(w, j)
  \/ \E num \in 0 .. MaxLength : Resize(num)
  \/ \E pos, len \in 0 .. MaxLength : Erase(pos, len)
  \/ Pop_back \/ Extend_back \/ Clear_array \/ Renew_array

ArraySpec == ArrayInit /\ [][ArrayNext]_arrayVars

-----------------------------------------------------------------------------
(* Properties.                                                             *)

\* The elements are those that were put in, where they were put, and they lie
\* within the allocated slots.
ArrayHoldsContent ==
  /\ arr.i <= arr.n /\ DOMAIN arr.d = IF arr.n = 0 THEN {} ELSE 0 .. arr.n - 1
  /\ Elts(arr) = content

\* Every copy that was made is freed once, when its element goes: the array
\* owns as many copies of a value as it has elements of that value.
CopiesAreOwned == \A v \in Values : alive[v] = Count(content, v)

\* What utarray promises: its content, and whom the copies belong to.
ArrayKeeps == ArrayHoldsContent /\ CopiesAreOwned
=============================================================================
