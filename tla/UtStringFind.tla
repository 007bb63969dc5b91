---------------------------- MODULE UtStringFind ----------------------------
(***************************************************************************)
(* The search of datastructures/utstring.h for a substring, in both        *)
(* directions, by the method of Knuth, Morris and Pratt.  Strings of C are *)
(* functions on 0 .. n - 1 here.                                           *)
(***************************************************************************)
EXTENDS UtString, FiniteSets

CString(w) == [k \in 0 .. Len(w) - 1 |-> w[k + 1]]
Length(f) == Cardinality(DOMAIN f)

\* Where to go on in the needle when its place i does not fit the letter c.
RECURSIVE Fall(_, _, _, _)
Fall(needle, table, c, i) ==
  IF i > -1 /\ needle[i] # c THEN Fall(needle, table, c, table[i]) ELSE i

\* Mutated form of Entry: the search always falls back one border further.
Entry_far(needle, i, j, table) ==
  IF i < Length(needle) THEN table[j] ELSE j

\* The entry for place i, whose longest border has length j.
Entry(needle, i, j, table) ==
  IF i < Length(needle) /\ needle[i] = needle[j] THEN table[j] ELSE j

RECURSIVE Fill(_, _, _, _)
Fill(needle, i, j, table) ==
  IF i = Length(needle) THEN table
  ELSE LET next == Fall(needle, table, needle[i], j) + 1
       IN  Fill(needle, i + 1, next,
                [table EXCEPT ![i + 1] = Entry(needle, i + 1, next, table)])

BuildTable(needle) == Fill(needle, 0, -1, [k \in 0 .. Length(needle) |-> -1])

RECURSIVE Scan(_, _, _, _, _)
Scan(hay, needle, table, i, j) ==
  IF j < Length(hay) /\ Length(hay) - j + i >= Length(needle)
  THEN LET next == Fall(needle, table, hay[j], i) + 1
       IN  IF next >= Length(needle) THEN j + 1 - next
           ELSE Scan(hay, needle, table, next, j + 1)
  ELSE -1

\* From right to left: the table is shifted by one, since -1 is a place now.
RECURSIVE FallR(_, _, _, _)
FallR(needle, table, c, i) ==
  IF i < Length(needle) /\ needle[i] # c THEN FallR(needle, table, c, table[i + 1]) ELSE i

RECURSIVE FillR(_, _, _, _)
FillR(needle, i, j, table) ==
  IF i < 0 THEN table
  ELSE LET next == FallR(needle, table, needle[i], j) - 1
           entry == IF i - 1 >= 0 /\ needle[i - 1] = needle[next] THEN table[next + 1] ELSE next
       IN  FillR(needle, i - 1, next, [table EXCEPT ![i] = entry])

BuildTableR(needle) ==
  LET n == Length(needle) IN FillR(needle, n - 1, n, [k \in 0 .. n |-> n])

RECURSIVE ScanR(_, _, _, _, _)
ScanR(hay, needle, table, i, j) ==
  IF j >= 0 /\ j >= i
  THEN LET next == FallR(needle, table, hay[j], i) - 1
       IN  IF next < 0 THEN j ELSE ScanR(hay, needle, table, next, j - 1)
  ELSE -1

\* A negative start counts from the end of the string.
Start_position(s, start) == IF start < 0 THEN s.i + start ELSE start

\* utstring_find; start is a place of the string.
Find(s, start, needle) ==
  LET from == Start_position(s, start)
      len == s.i - from
      found == Scan([k \in 0 .. len - 1 |-> s.d[from + k + 1]], needle, BuildTable(needle), 0, 0)
  IN  IF len >= Length(needle) /\ Length(needle) > 0 /\ found >= 0 THEN found + from ELSE -1

\* utstring_findR: the part of the string up to and with start.
FindR(s, start, needle) ==
  LET len == Start_position(s, start) + 1
      n == Length(needle)
  IN  IF len >= n /\ n > 0
      THEN ScanR(CString(s.d), needle, BuildTableR(needle), n - 1, len - 1) ELSE -1

-----------------------------------------------------------------------------
(* Properties.                                                             *)

\* The needle lies at place p of the text.
Occurs(needle, p) ==
  p >= 0 /\ p + Len(needle) <= Len(text) /\ SubSeq(text, p + 1, p + Len(needle)) = needle

\* utstring_find returns the first occurrence from the start on and
\* utstring_findR the last one that ends at the start or before, or -1.
FindsNearest ==
  \A needle \in Words \ {<<>>} : \A start \in - Len(text) .. Len(text) - 1 :
    LET from == Start_position(str, start)
        after == {p \in from .. Len(text) : Occurs(needle, p)}
        before == {p \in 0 .. from + 1 - Len(needle) : Occurs(needle, p)}
    IN  /\ Find(str, start, CString(needle)) =
             IF after = {} THEN -1 ELSE CHOOSE p \in after : \A q \in after : p <= q
        /\ FindR(str, start, CString(needle)) =
             IF before = {} THEN -1 ELSE CHOOSE p \in before : \A q \in before : q <= p
=============================================================================
