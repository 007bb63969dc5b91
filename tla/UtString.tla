------------------------------ MODULE UtString ------------------------------
(***************************************************************************)
(* The dynamic string of datastructures/utstring.h: a buffer that grows,   *)
(* with its terminator.                                                    *)
(***************************************************************************)
EXTENDS Integers, Sequences

CONSTANTS
  Letters,       \* the characters
  END,           \* the terminator
  FirstSize,     \* the size of the first allocation, 100 in the code
  MaxText        \* bound on the length of a string

ASSUME StringAssumption ==
  END \notin Letters /\ FirstSize \in Nat \ {0} /\ MaxText \in Nat

VARIABLES
  str,           \* the string: its buffer d, allocated size n, first unused i
  text           \* what was put into it

stringVars == <<str, text>>

\* Mutated form of Reserve_bytes: the part already used is not counted.
Reserve_bytes_unused(s, amt) == IF s.n < amt THEN [s EXCEPT !.n = @ + amt] ELSE s

Reserve_bytes(s, amt) == IF s.n - s.i < amt THEN [s EXCEPT !.n = @ + amt] ELSE s

\* The letters of w and a terminator, from the first unused byte on; what
\* would lie beyond the allocation is cut off.
Put(s, w) ==
  LET all == SubSeq(s.d, 1, s.i) \o w \o <<END>>
  IN  [s EXCEPT !.d = SubSeq(all, 1, IF Len(all) < s.n THEN Len(all) ELSE s.n),
                !.i = @ + Len(w)]

\* utstring_bincpy, and utstring_concat with the body of another string.
Bincpy(s, w) == Put(Reserve_bytes(s, Len(w) + 1), w)

\* A try that does not fit makes room: for the length that vsnprintf tells,
\* or, when it says no more than -1, for twice the allocation.
MoreSpace(s, w, told) == Reserve_bytes(s, IF told THEN Len(w) + 1 ELSE 2 * s.n)

\* The string at each try.
Tries(s, w, told) ==
  LET at[k \in Nat] == IF k = 0 THEN s ELSE MoreSpace(at[k - 1], w, told) IN at

\* utstring_printf_va: tries until the text and its terminator fit.  Each one
\* adds a byte at least.
Printf_va(s, w, told) ==
  LET Fits(k) == Len(w) < Tries(s, w, told)[k].n - Tries(s, w, told)[k].i
      last == CHOOSE k \in 0 .. Len(w) :
                (Fits(k) \/ k = Len(w)) /\ \A j \in 0 .. k - 1 : ~ Fits(j)
  IN  Put(Tries(s, w, told)[last], w)

NewString == Put(Reserve_bytes([d |-> <<>>, n |-> 0, i |-> 0], FirstSize), <<>>)

-----------------------------------------------------------------------------
Words == UNION {[1 .. n -> Letters] : n \in 0 .. MaxText}

Append_bytes(w) ==
  /\ Len(text) + Len(w) <= MaxText
  /\ str' = Bincpy(str, w) /\ text' = text \o w

Append_formatted(w, told) ==
  /\ Len(text) + Len(w) <= MaxText
  /\ str' = Printf_va(str, w, told) /\ text' = text \o w

Clear_string == str' = [str EXCEPT !.i = 0, !.d = <<END>>] /\ text' = <<>>

StringInit == str = NewString /\ text = <<>>

StringNext ==
  \/ \E w \in Words : Append_bytes(w)
  \/ \E w \in Words, told \in BOOLEAN : Append_formatted(w, told)
  \/ Clear_string

StringSpec == StringInit /\ [][StringNext]_stringVars

-----------------------------------------------------------------------------
(* Properties.                                                             *)

\* The buffer holds what was put in and a terminator, all of it allocated.
TextIsThere == str.d = Append(text, END) /\ str.i = Len(text) /\ str.i < str.n
=============================================================================
