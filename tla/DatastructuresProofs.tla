------------------------ MODULE DatastructuresProofs ------------------------
(***************************************************************************)
(* Proofs about the containers: the string holds its text (TextIsThere),   *)
(* the array its elements and their copies (ArrayKeeps), and the hash      *)
(* table passes its integrity check, finds what it has, lets a loop        *)
(* delete, implements a set that remembers its order, and keeps its chains *)
(* short (HashTypeOK, FindIsExact, IterationIsExact, KeepsOrder,           *)
(* ChainsBounded).                                                         *)
(*                                                                         *)
(* The loops of the code are recursive functions on the natural numbers;   *)
(* that such functions exist is NatRecursion, which like the inductions is *)
(* argued by a least counterexample (NatMin).                              *)
(***************************************************************************)
EXTENDS UtHash, UtArray, UtString, FiniteSetTheorems, NaturalsInduction, WellFoundedInduction, TLAPS

USE StringAssumption, ArrayAssumption

-----------------------------------------------------------------------------
(* Induction and recursion on the natural numbers.                         *)

LEMMA NatMin ==
  ASSUME NEW T, T \subseteq Nat, T # {}
  PROVE  \E x \in T : \A y \in T : x <= y
  <1>1. PICK x \in T : \A y \in T : <<y, x>> \notin OpToRel(<, Nat)
    BY NatLessThanWellFounded, WFMin
  <1>2. \A y \in T : ~ (y < x)
    BY <1>1 DEF OpToRel
  <1>3. QED
    BY <1>2

\* A set of numbers with 0 and the successor of each of its members has all.
LEMMA NatAll ==
  ASSUME NEW T, 0 \in T, \A k \in Nat : k \in T => k + 1 \in T
  PROVE  Nat \subseteq T
  <1>1. SUFFICES ASSUME Nat \ T # {} PROVE FALSE
    OBVIOUS
  <1>2. PICK x \in Nat \ T : \A y \in Nat \ T : x <= y
    <2>1. Nat \ T \subseteq Nat
      OBVIOUS
    <2>2. QED
      BY <1>1, <2>1, NatMin
  <1>3. x - 1 \in Nat /\ x - 1 \in T
    BY <1>2
  <1>4. QED
    BY <1>2, <1>3

\* What the values of a recursive function are up to n.
Begun(S, a, step, n, g) ==
  /\ g \in [0 .. n -> S] /\ g[0] = a
  /\ \A k \in 0 .. n - 1 : g[k + 1] = step[g[k]]

LEMMA BegunOnce ==
  ASSUME NEW S, NEW a \in S, NEW step \in [S -> S], NEW m \in Nat, NEW n \in Nat, m <= n,
         NEW g, NEW h, Begun(S, a, step, m, g), Begun(S, a, step, n, h)
  PROVE  \A k \in 0 .. m : g[k] = h[k]
  <1> DEFINE T == {k \in Nat : k <= m => g[k] = h[k]}
  <1>1. 0 \in T
    BY DEF Begun
  <1>2. ASSUME NEW k \in Nat, k \in T
        PROVE  k + 1 \in T
    <2>1. SUFFICES ASSUME k + 1 <= m PROVE g[k + 1] = h[k + 1]
      OBVIOUS
    <2>2. k \in 0 .. m - 1 /\ k \in 0 .. n - 1 /\ g[k] = h[k]
      BY <1>2, <2>1
    <2>3. QED
      BY <2>2 DEF Begun
  <1> HIDE DEF T
  <1>3. Nat \subseteq T
    BY <1>1, <1>2, NatAll
  <1>4. QED
    BY <1>3 DEF T

LEMMA BegunExists ==
  ASSUME NEW S, NEW a \in S, NEW step \in [S -> S]
  PROVE  \A n \in Nat : \E g : Begun(S, a, step, n, g)
  <1> DEFINE T == {n \in Nat : \E g : Begun(S, a, step, n, g)}
  <1>1. 0 \in T
    <2>1. Begun(S, a, step, 0, [k \in 0 .. 0 |-> a])
      BY DEF Begun
    <2>2. QED
      BY <2>1
  <1>2. ASSUME NEW n \in Nat, n \in T
        PROVE  n + 1 \in T
    <2>1. PICK g : Begun(S, a, step, n, g)
      BY <1>2
    <2> DEFINE h == [k \in 0 .. n + 1 |-> IF k = n + 1 THEN step[g[n]] ELSE g[k]]
    <2>2. g \in [0 .. n -> S] /\ g[n] \in S /\ g[0] = a
      BY <2>1 DEF Begun
    <2>3. h \in [0 .. n + 1 -> S] /\ h[0] = a
      BY <2>2
    <2>4. ASSUME NEW k \in 0 .. (n + 1) - 1
          PROVE  h[k + 1] = step[h[k]]
      <3>1. CASE k = n
        BY <3>1
      <3>2. CASE k # n
        <4>1. k \in 0 .. n - 1 /\ h[k] = g[k] /\ h[k + 1] = g[k + 1]
          BY <2>4, <3>2
        <4>2. QED
          BY <2>1, <4>1 DEF Begun
      <3>3. QED
        BY <3>1, <3>2
    <2> HIDE DEF h
    <2>5. Begun(S, a, step, n + 1, h)
      BY <2>3, <2>4 DEF Begun
    <2>6. QED
      BY <2>5
  <1> HIDE DEF T
  <1>3. Nat \subseteq T
    BY <1>1, <1>2, NatAll
  <1>4. QED
    BY <1>3 DEF T

\* A function on the natural numbers that starts with a and goes on by step.
Recurs(S, a, step, f) ==
  /\ f \in [Nat -> S] /\ f[0] = a
  /\ \A k \in Nat : f[k + 1] = step[f[k]]

\* There is such a function.
LEMMA NatRecursion ==
  ASSUME NEW S, NEW a \in S, NEW step \in [S -> S]
  PROVE  \E f : Recurs(S, a, step, f)
  <1> DEFINE G(n) == CHOOSE g : Begun(S, a, step, n, g)
             f == [n \in Nat |-> G(n)[n]]
  <1>1. ASSUME NEW n \in Nat PROVE Begun(S, a, step, n, G(n))
    BY BegunExists
  <1> HIDE DEF G
  <1>2. f \in [Nat -> S]
    <2>1. SUFFICES ASSUME NEW n \in Nat PROVE G(n)[n] \in S
      OBVIOUS
    <2>2. Begun(S, a, step, n, G(n))
      BY <1>1
    <2>3. QED
      BY <2>2 DEF Begun
  <1>3. f[0] = a
    <2>1. Begun(S, a, step, 0, G(0))
      BY <1>1
    <2>2. QED
      BY <2>1 DEF Begun
  <1>4. ASSUME NEW k \in Nat
        PROVE  f[k + 1] = step[f[k]]
    <2>1. Begun(S, a, step, k, G(k)) /\ Begun(S, a, step, k + 1, G(k + 1))
      BY <1>1
    <2>2. G(k)[k] = G(k + 1)[k]
      <3>1. \A j \in 0 .. k : G(k)[j] = G(k + 1)[j]
        <4>1. k + 1 \in Nat /\ k <= k + 1
          OBVIOUS
        <4>2. QED
          BY <2>1, <4>1, BegunOnce
      <3>2. QED
        BY <3>1
    <2>3. G(k + 1)[k + 1] = step[G(k + 1)[k]]
      BY <2>1 DEF Begun
    <2>4. QED
      BY <2>2, <2>3
  <1> HIDE DEF f
  <1>5. QED
    BY <1>2, <1>3, <1>4 DEF Recurs

LEMMA ConcatIs ==
  ASSUME NEW S, NEW a \in Seq(S), NEW b \in Seq(S)
  PROVE  a \o b \in Seq(S) /\ Len(a \o b) = Len(a) + Len(b)
  OBVIOUS

-----------------------------------------------------------------------------
(* The string.                                                             *)

Strings == [d : Seq(Letters \cup {END}), n : Nat, i : Nat]

\* The buffer s holds the text t, with room for the terminator.
HoldsText(s, t) ==
  /\ s \in Strings /\ t \in Seq(Letters)
  /\ s.d = Append(t, END) /\ s.i = Len(t) /\ s.i < s.n

\* The invariant of the string: its buffer holds the text.
TextInv == HoldsText(str, text)

LEMMA SequenceBegins ==
  ASSUME NEW S, NEW t \in Seq(S), NEW u \in Seq(S)
  PROVE  SubSeq(t \o u, 1, Len(t)) = t
  OBVIOUS

(***************************************************************************)
(* When the used part of a buffer is t and w fits with the terminator, Put *)
(* leaves the buffer with t and w; nothing is cut off.                     *)
(***************************************************************************)
LEMMA PutHolds ==
  ASSUME NEW s \in Strings, NEW t \in Seq(Letters), NEW w \in Seq(Letters),
         SubSeq(s.d, 1, s.i) = t, s.i = Len(t), s.i + Len(w) < s.n
  PROVE  HoldsText(Put(s, w), t \o w)
  <1> DEFINE all == t \o w \o <<END>>
  <1>1. all \in Seq(Letters \cup {END})
    OBVIOUS
  <1>2. Len(all) = Len(t) + Len(w) + 1 /\ Len(t \o w) = Len(t) + Len(w)
    OBVIOUS
  <1>3. all = Append(t \o w, END)
    OBVIOUS
  <1>4. s.n \in Nat /\ s.i \in Nat /\ Len(w) \in Nat /\ Len(t) \in Nat
    BY DEF Strings
  <1>5. SubSeq(all, 1, Len(all)) = all
    BY <1>1
  <1>6. t \o w \in Seq(Letters)
    OBVIOUS
  <1> HIDE DEF all
  <1>7. SubSeq(all, 1, IF Len(all) < s.n THEN Len(all) ELSE s.n) = all
    <2>1. Len(all) <= s.n /\ Len(all) \in Nat
      BY <1>2, <1>4
    <2>2. CASE Len(all) < s.n
      BY <1>5, <2>2
    <2>3. CASE ~ (Len(all) < s.n)
      <3>1. Len(all) = s.n
        BY <2>1, <2>3, <1>4
      <3>2. QED
        BY <3>1, <2>3, <1>5
    <2>4. QED
      BY <2>2, <2>3
  <1>8. Put(s, w) = [s EXCEPT !.d = SubSeq(all, 1, IF Len(all) < s.n THEN Len(all) ELSE s.n),
                              !.i = @ + Len(w)]
    BY DEF Put, all
  <1>9. Put(s, w) = [s EXCEPT !.d = all, !.i = @ + Len(w)]
    BY <1>7, <1>8
  <1>10. /\ Put(s, w).d = all /\ Put(s, w).n = s.n /\ Put(s, w).i = s.i + Len(w)
         /\ Put(s, w) \in Strings
    <2>1. s.i + Len(w) \in Nat
      BY <1>4
    <2>2. s = [d |-> s.d, n |-> s.n, i |-> s.i]
      BY DEF Strings
    <2>3. Put(s, w) = [d |-> all, n |-> s.n, i |-> s.i + Len(w)]
      BY <1>9, <2>2
    <2>4. QED
      BY <1>1, <1>4, <2>1, <2>3 DEF Strings
  <1>11. QED
    BY <1>2, <1>3, <1>4, <1>6, <1>10 DEF HoldsText

\* Reserve_bytes makes room for amt bytes and keeps the rest.
LEMMA ReservesBytes ==
  ASSUME NEW s \in Strings, NEW amt \in Nat
  PROVE  /\ Reserve_bytes(s, amt) \in Strings
         /\ Reserve_bytes(s, amt).d = s.d /\ Reserve_bytes(s, amt).i = s.i
         /\ s.i <= s.n => Reserve_bytes(s, amt).n >= s.i + amt
  <1>1. s.n \in Nat /\ s.i \in Nat
    BY DEF Strings
  <1>2. CASE s.n - s.i < amt
    <2>1. Reserve_bytes(s, amt) = [s EXCEPT !.n = @ + amt]
      BY <1>2 DEF Reserve_bytes
    <2>2. s.n + amt \in Nat /\ (s.i <= s.n => s.n + amt >= s.i + amt)
      BY <1>1
    <2>3. QED
      BY <2>1, <2>2 DEF Strings
  <1>3. CASE ~ (s.n - s.i < amt)
    BY <1>1, <1>3 DEF Reserve_bytes
  <1>4. QED
    BY <1>2, <1>3

\* utstring_bincpy puts w behind the text.
LEMMA BincpyHolds ==
  ASSUME NEW s, NEW t, NEW w \in Seq(Letters), HoldsText(s, t)
  PROVE  HoldsText(Bincpy(s, w), t \o w)
  <1> DEFINE r == Reserve_bytes(s, Len(w) + 1)
  <1>1. s \in Strings /\ t \in Seq(Letters) /\ s.n \in Nat /\ s.i \in Nat /\ s.i < s.n
    BY DEF HoldsText, Strings
  <1>2. Len(w) \in Nat /\ Len(w) + 1 \in Nat
    OBVIOUS
  <1>3. r \in Strings /\ r.d = s.d /\ r.i = s.i /\ r.n >= s.i + (Len(w) + 1)
    <2>1. s.i <= s.n
      BY <1>1
    <2>2. \A amt \in Nat : /\ Reserve_bytes(s, amt) \in Strings
                          /\ Reserve_bytes(s, amt).d = s.d /\ Reserve_bytes(s, amt).i = s.i
                          /\ Reserve_bytes(s, amt).n >= s.i + amt
      BY <1>1, <2>1, ReservesBytes
    <2>3. QED
      BY <1>2, <2>2
  <1> HIDE DEF r
  <1>4. SubSeq(Append(t, END), 1, Len(t)) = t
    BY <1>1
  <1>5. SubSeq(r.d, 1, r.i) = t /\ r.i = Len(t)
    BY <1>3, <1>4 DEF HoldsText
  <1>6. r.i + Len(w) < r.n
    <2>1. r.n \in Nat
      BY <1>3 DEF Strings
    <2>2. QED
      BY <1>1, <1>2, <1>3, <2>1
  <1>7. HoldsText(Put(r, w), t \o w)
    BY <1>1, <1>3, <1>5, <1>6, PutHolds
  <1>8. QED
    BY <1>7 DEF Bincpy, r

\* More space leaves the text, and is one byte more at least; it is enough when
\* the length is known.
LEMMA MoreSpaceIs ==
  ASSUME NEW s \in Strings, NEW w \in Seq(Letters), NEW told
  PROVE  /\ MoreSpace(s, w, told) \in Strings
         /\ MoreSpace(s, w, told).d = s.d /\ MoreSpace(s, w, told).i = s.i
         /\ s.i < s.n => \/ MoreSpace(s, w, told).n >= s.n + 1
                        \/ MoreSpace(s, w, told).n >= s.i + Len(w) + 1
  <1> DEFINE amt == IF told THEN Len(w) + 1 ELSE 2 * s.n
             r == Reserve_bytes(s, amt)
  <1>1. s.n \in Nat /\ s.i \in Nat /\ Len(w) \in Nat
    BY DEF Strings
  <1>2. amt \in Nat
    BY <1>1
  <1>3. MoreSpace(s, w, told) = r
    BY DEF MoreSpace
  <1> HIDE DEF amt
  <1>4. r \in Strings /\ r.d = s.d /\ r.i = s.i /\ (s.i <= s.n => r.n >= s.i + amt)
    BY <1>2, ReservesBytes
  <1>5. r.n \in Nat
    BY <1>4 DEF Strings
  <1> HIDE DEF r
  <1>6. ASSUME s.i < s.n PROVE r.n >= s.n + 1 \/ r.n >= s.i + Len(w) + 1
    <2>1. r.n >= s.i + amt
      BY <1>1, <1>4, <1>6
    <2>2. CASE told
      <3>1. amt = Len(w) + 1
        BY <2>2 DEF amt
      <3>2. QED
        BY <1>1, <1>5, <2>1, <3>1
    <2>3. CASE ~ told
      <3>1. amt = 2 * s.n
        BY <2>3 DEF amt
      <3>2. QED
        BY <1>1, <1>5, <1>6, <2>1, <3>1
    <2>4. QED
      BY <2>2, <2>3
  <1>7. QED
    BY <1>3, <1>4, <1>6

LEMMA TriesIs ==
  ASSUME NEW s \in Strings, NEW w \in Seq(Letters), NEW told
  PROVE  /\ Tries(s, w, told)[0] = s
         /\ \A k \in Nat : Tries(s, w, told)[k + 1] = MoreSpace(Tries(s, w, told)[k], w, told)
  <1> DEFINE Is(g) == g = [k \in Nat |-> IF k = 0 THEN s ELSE MoreSpace(g[k - 1], w, told)]
             step == [r \in Strings |-> MoreSpace(r, w, told)]
  <1>1. step \in [Strings -> Strings]
    BY MoreSpaceIs
  <1>2. PICK f : Recurs(Strings, s, step, f)
    <2> HIDE DEF step
    <2>1. QED
      BY <1>1, NatRecursion
  <1>3. Is(f)
    <2>1. ASSUME NEW k \in Nat PROVE f[k] = IF k = 0 THEN s ELSE MoreSpace(f[k - 1], w, told)
      <3>1. CASE k = 0
        BY <1>2, <3>1 DEF Recurs
      <3>2. CASE k # 0
        <4>1. k - 1 \in Nat /\ (k - 1) + 1 = k
          BY <3>2
        <4>2. f[(k - 1) + 1] = step[f[k - 1]] /\ f[k - 1] \in Strings
          BY <1>2, <4>1 DEF Recurs
        <4>3. QED
          BY <3>2, <4>1, <4>2
      <3>3. QED
        BY <3>1, <3>2
    <2>2. QED
      BY <1>2, <2>1 DEF Recurs
  <1>4. Tries(s, w, told) = CHOOSE g : Is(g)
    BY DEF Tries
  <1>5. Is(Tries(s, w, told))
    <2> HIDE DEF Is
    <2>1. QED
      BY <1>3, <1>4
  <1> DEFINE g == Tries(s, w, told)
  <1>6. g = [k \in Nat |-> IF k = 0 THEN s ELSE MoreSpace(g[k - 1], w, told)]
    BY <1>5
  <1> HIDE DEF g, Is
  <1>7. g[0] = s
    BY <1>6
  <1>8. ASSUME NEW k \in Nat PROVE g[k + 1] = MoreSpace(g[k], w, told)
    <2>1. k + 1 \in Nat /\ k + 1 # 0 /\ (k + 1) - 1 = k
      OBVIOUS
    <2>2. g[k + 1] = IF k + 1 = 0 THEN s ELSE MoreSpace(g[(k + 1) - 1], w, told)
      BY <1>6, <2>1
    <2>3. QED
      BY <2>1, <2>2
  <1>9. QED
    BY <1>7, <1>8 DEF g

\* Before the k-th try there are k bytes more, unless the text fits anyway.
LEMMA TriesGrow ==
  ASSUME NEW s \in Strings, s.i < s.n, NEW w \in Seq(Letters), NEW told
  PROVE  \A k \in 0 .. Len(w) :
           LET r == Tries(s, w, told)[k]
           IN  r \in Strings /\ r.d = s.d /\ r.i = s.i /\ r.n >= s.i + k + 1
  <1> DEFINE g == Tries(s, w, told)
             Grown(k, r) == r \in Strings /\ r.d = s.d /\ r.i = s.i /\ r.n >= s.i + k + 1
             U == {k \in Nat : k <= Len(w) => Grown(k, g[k])}
  <1>1. s.n \in Nat /\ s.i \in Nat /\ Len(w) \in Nat
    BY DEF Strings
  <1>2. g[0] = s /\ \A k \in Nat : g[k + 1] = MoreSpace(g[k], w, told)
    BY TriesIs
  <1> HIDE DEF g
  <1>3. 0 \in U
    <2>1. s.n >= s.i + 0 + 1
      BY <1>1
    <2>2. Grown(0, g[0])
      BY <1>2, <2>1
    <2>3. QED
      BY <2>2
  <1>4. ASSUME NEW k \in Nat, k \in U PROVE k + 1 \in U
    <2>1. CASE k + 1 <= Len(w)
      <3> DEFINE r == g[k]
                 n == MoreSpace(r, w, told)
      <3>1. r \in Strings /\ r.d = s.d /\ r.i = s.i /\ r.n >= s.i + k + 1
        BY <1>1, <1>4, <2>1
      <3>2. g[k + 1] = n
        BY <1>2
      <3> HIDE DEF r
      <3>3. r.n \in Nat /\ r.i < r.n
        BY <1>1, <3>1 DEF Strings
      <3>4. n \in Strings /\ n.d = r.d /\ n.i = r.i /\ (n.n >= r.n + 1 \/ n.n >= r.i + Len(w) + 1)
        BY <3>1, <3>3, MoreSpaceIs
      <3> HIDE DEF n
      <3>5. n.n \in Nat
        BY <3>4 DEF Strings
      <3>6. n.n >= s.i + (k + 1) + 1
        BY <1>1, <2>1, <3>1, <3>3, <3>4, <3>5
      <3>7. Grown(k + 1, g[k + 1])
        BY <3>1, <3>2, <3>4, <3>6
      <3>8. QED
        BY <3>7
    <2>2. CASE ~ (k + 1 <= Len(w))
      BY <2>2
    <2>3. QED
      BY <2>1, <2>2
  <1> HIDE DEF U
  <1>5. Nat \subseteq U
    BY <1>3, <1>4, NatAll
  <1>6. \A k \in 0 .. Len(w) : k \in Nat /\ k <= Len(w)
    BY <1>1
  <1>7. QED
    BY <1>5, <1>6 DEF U, g

(***************************************************************************)
(* utstring_printf_va puts w behind the text: at the first try when it     *)
(* fits, and else at a later one, for which the string has grown by what   *)
(* vsnprintf asked for, or often enough.                                   *)
(***************************************************************************)
LEMMA PrintfHolds ==
  ASSUME NEW s, NEW t, NEW w \in Seq(Letters), HoldsText(s, t), NEW told
  PROVE  HoldsText(Printf_va(s, w, told), t \o w)
  <1> DEFINE g == Tries(s, w, told)
             Fits(k) == Len(w) < g[k].n - g[k].i
             Ends(k) == (Fits(k) \/ k = Len(w)) /\ \A j \in 0 .. k - 1 : ~ Fits(j)
             T == {k \in 0 .. Len(w) : Fits(k) \/ k = Len(w)}
             last == CHOOSE k \in 0 .. Len(w) : Ends(k)
  <1>1. /\ s \in Strings /\ t \in Seq(Letters) /\ s.n \in Nat /\ s.i \in Nat /\ s.i = Len(t)
        /\ s.i < s.n /\ s.d = Append(t, END) /\ Len(w) \in Nat
    BY DEF HoldsText, Strings
  <1>2. Printf_va(s, w, told) = Put(g[last], w)
    BY DEF Printf_va
  <1>3. ASSUME NEW k \in 0 .. Len(w)
        PROVE  g[k] \in Strings /\ g[k].d = s.d /\ g[k].i = s.i /\ g[k].n >= s.i + k + 1
    BY <1>1, TriesGrow
  <1> HIDE DEF g
  <1>4. \E k \in 0 .. Len(w) : Ends(k)
    <2> HIDE DEF Fits
    <2>1. T \subseteq Nat /\ Len(w) \in T
      BY <1>1
    <2>2. PICK k \in T : \A j \in T : k <= j
      <3> HIDE DEF T
      <3>1. QED
        BY <2>1, NatMin
    <2>3. ASSUME NEW j \in 0 .. k - 1 PROVE ~ Fits(j)
      <3>1. j \in 0 .. Len(w) /\ ~ (k <= j)
        BY <1>1, <2>3
      <3>2. QED
        BY <2>2, <3>1
    <2>4. QED
      BY <2>2, <2>3
  <1>5. last \in 0 .. Len(w) /\ Ends(last)
    <2> HIDE DEF Ends
    <2>1. QED
      BY <1>4
  <1> DEFINE r == g[last]
  <1> HIDE DEF last
  <1>6. r \in Strings /\ r.d = s.d /\ r.i = s.i /\ r.n >= s.i + last + 1
    BY <1>3, <1>5
  <1>7. r.n \in Nat /\ last \in Nat
    BY <1>1, <1>5, <1>6 DEF Strings
  <1>8. r.i + Len(w) < r.n
    <2>1. CASE Fits(last)
      BY <1>1, <1>6, <1>7, <2>1
    <2>2. CASE last = Len(w)
      <3> HIDE DEF r
      <3>1. QED
        BY <1>1, <1>6, <1>7, <2>2
    <2>3. QED
      BY <1>5, <2>1, <2>2
  <1> HIDE DEF r
  <1>9. SubSeq(r.d, 1, r.i) = t /\ r.i = Len(t)
    <2>1. SubSeq(Append(t, END), 1, Len(t)) = t
      BY <1>1
    <2>2. QED
      BY <1>1, <1>6, <2>1
  <1>10. HoldsText(Put(r, w), t \o w)
    BY <1>1, <1>6, <1>8, <1>9, PutHolds
  <1>11. QED
    BY <1>2, <1>10 DEF r

\* A new string holds the empty text.
LEMMA NewHolds == HoldsText(NewString, <<>>)
  <1> DEFINE s == [d |-> <<>>, n |-> 0, i |-> 0]
             r == Reserve_bytes(s, FirstSize)
  <1>1. s \in Strings /\ FirstSize \in Nat /\ FirstSize > 0
    BY DEF Strings
  <1>2. r = [d |-> <<>>, n |-> FirstSize, i |-> 0]
    BY <1>1 DEF Reserve_bytes
  <1>3. r \in Strings
    BY <1>1, ReservesBytes
  <1>4. r.d = <<>> /\ r.i = 0 /\ r.n = FirstSize
    BY <1>2
  <1>5. SubSeq(r.d, 1, r.i) = <<>> /\ <<>> \in Seq(Letters) /\ Len(<<>>) = 0 /\ <<>> \o <<>> = <<>>
    BY <1>4
  <1> HIDE DEF r
  <1>6. HoldsText(Put(r, <<>>), <<>> \o <<>>)
    <2>1. r.i = Len(<<>>) /\ r.i + Len(<<>>) < r.n
      BY <1>1, <1>4, <1>5
    <2>2. QED
      BY <1>3, <1>5, <2>1, PutHolds
  <1>7. HoldsText(Put(r, <<>>), <<>>)
    BY <1>5, <1>6
  <1>8. QED
    BY <1>7 DEF NewString, r

LEMMA TextStep ==
  ASSUME TextInv, [StringNext]_stringVars
  PROVE  TextInv'
  <1>1. ASSUME NEW w \in Words PROVE w \in Seq(Letters)
    BY DEF Words
  <1>2. ASSUME NEW w \in Words, Append_bytes(w) PROVE TextInv'
    <2>1. w \in Seq(Letters)
      BY <1>1
    <2>2. HoldsText(Bincpy(str, w), text \o w)
      BY <2>1, BincpyHolds DEF TextInv
    <2>3. QED
      BY <1>2, <2>2 DEF Append_bytes, TextInv
  <1>3. ASSUME NEW w \in Words, NEW told \in BOOLEAN, Append_formatted(w, told) PROVE TextInv'
    <2>1. w \in Seq(Letters)
      BY <1>1
    <2>2. HoldsText(Printf_va(str, w, told), text \o w)
      BY <2>1, PrintfHolds DEF TextInv
    <2>3. QED
      BY <1>3, <2>2 DEF Append_formatted, TextInv
  <1>4. ASSUME Clear_string PROVE TextInv'
    <2>1. str \in Strings /\ str.n \in Nat /\ str.i \in Nat /\ 0 < str.n
      BY DEF TextInv, HoldsText, Strings
    <2>2. str' = [str EXCEPT !.i = 0, !.d = <<END>>] /\ text' = <<>>
      BY <1>4 DEF Clear_string
    <2>3. <<END>> \in Seq(Letters \cup {END}) /\ <<END>> = Append(<<>>, END)
          /\ <<>> \in Seq(Letters) /\ Len(<<>>) = 0
      OBVIOUS
    <2>4. str' \in Strings /\ str'.d = <<END>> /\ str'.i = 0 /\ str'.n = str.n
      BY <2>1, <2>2, <2>3 DEF Strings
    <2>5. QED
      BY <2>1, <2>2, <2>3, <2>4 DEF TextInv, HoldsText
  <1>5. ASSUME UNCHANGED stringVars PROVE TextInv'
    BY <1>5 DEF TextInv, stringVars
  <1>6. QED
    BY <1>2, <1>3, <1>4, <1>5 DEF StringNext

(***************************************************************************)
(* Whatever is appended, by utstring_bincpy or by utstring_printf, and     *)
(* however often the string is cleared, its buffer holds the whole text    *)
(* and a terminator, within the bytes allocated.                           *)
(***************************************************************************)
THEOREM TextAlwaysThere == StringSpec => []TextIsThere
  <1>1. StringInit => TextInv
    BY NewHolds DEF StringInit, TextInv
  <1>2. TextInv /\ [StringNext]_stringVars => TextInv'
    BY TextStep
  <1>3. TextInv => TextIsThere
    BY DEF TextInv, HoldsText, TextIsThere
  <1>4. QED
    BY <1>1, <1>2, <1>3, PTL DEF StringSpec

-----------------------------------------------------------------------------
(* The slots of the array: the loop of utarray_reserve.                    *)

\* A round of the loop adds one slot at least.
LEMMA TwiceGrows ==
  ASSUME NEW m \in Nat
  PROVE  Twice(m) \in Nat /\ Twice(m) >= m + 1
  <1>1. FirstSlots \in Nat /\ FirstSlots >= 1
    OBVIOUS
  <1>2. CASE m = 0
    BY <1>1, <1>2 DEF Twice
  <1>3. CASE m # 0
    <2>1. Twice(m) = 2 * m
      BY <1>3 DEF Twice
    <2>2. QED
      BY <1>3, <2>1
  <1>4. QED
    BY <1>2, <1>3

LEMMA DoublingsIs ==
  ASSUME NEW n \in Nat
  PROVE  /\ Doublings(n) \in [Nat -> Nat]
         /\ Doublings(n)[0] = n
         /\ \A k \in Nat : Doublings(n)[k + 1] = Twice(Doublings(n)[k])
  <1> DEFINE Is(g) == g = [k \in Nat |-> IF k = 0 THEN n ELSE Twice(g[k - 1])]
             step == [m \in Nat |-> Twice(m)]
  <1>1. step \in [Nat -> Nat]
    BY TwiceGrows
  <1>2. PICK f : Recurs(Nat, n, step, f)
    <2> HIDE DEF step
    <2>1. QED
      BY <1>1, NatRecursion
  <1>3. Is(f)
    <2>1. ASSUME NEW k \in Nat PROVE f[k] = IF k = 0 THEN n ELSE Twice(f[k - 1])
      <3>1. CASE k = 0
        BY <1>2, <3>1 DEF Recurs
      <3>2. CASE k # 0
        <4>1. k - 1 \in Nat /\ (k - 1) + 1 = k
          BY <3>2
        <4>2. f[(k - 1) + 1] = step[f[k - 1]] /\ f[k - 1] \in Nat
          BY <1>2, <4>1 DEF Recurs
        <4>3. QED
          BY <3>2, <4>1, <4>2
      <3>3. QED
        BY <3>1, <3>2
    <2>2. QED
      BY <1>2, <2>1 DEF Recurs
  <1>4. Doublings(n) = CHOOSE g : Is(g)
    BY DEF Doublings
  <1>5. Is(Doublings(n))
    <2> HIDE DEF Is
    <2>1. QED
      BY <1>3, <1>4
  <1> DEFINE g == Doublings(n)
  <1>6. g = [k \in Nat |-> IF k = 0 THEN n ELSE Twice(g[k - 1])]
    BY <1>5
  <1> HIDE DEF g, Is
  <1>7. g[0] = n
    BY <1>6
  <1>8. ASSUME NEW k \in Nat PROVE g[k + 1] = Twice(g[k])
    <2>1. k + 1 \in Nat /\ k + 1 # 0 /\ (k + 1) - 1 = k
      OBVIOUS
    <2>2. g[k + 1] = IF k + 1 = 0 THEN n ELSE Twice(g[(k + 1) - 1])
      BY <1>6, <2>1
    <2>3. QED
      BY <2>1, <2>2
  <1> DEFINE T == {k \in Nat : g[k] \in Nat}
  <1>9. 0 \in T
    BY <1>7
  <1>10. ASSUME NEW k \in Nat, k \in T PROVE k + 1 \in T
    BY <1>8, <1>10, TwiceGrows
  <1>11. Nat \subseteq T
    <2> HIDE DEF T
    <2>1. QED
      BY <1>9, <1>10, NatAll
  <1>12. g \in [Nat -> Nat]
    <2>1. DOMAIN g = Nat /\ g = [k \in Nat |-> g[k]]
      BY <1>6
    <2>2. \A k \in Nat : g[k] \in Nat
      BY <1>11
    <2>3. QED
      BY <2>1, <2>2
  <1>13. QED
    BY <1>7, <1>8, <1>12 DEF g

\* After k rounds there are k slots at least, and none was lost.
LEMMA DoublingsGrow ==
  ASSUME NEW n \in Nat
  PROVE  \A k \in Nat : Doublings(n)[k] >= k /\ Doublings(n)[k] >= n
  <1> DEFINE g == Doublings(n)
             T == {k \in Nat : g[k] >= k /\ g[k] >= n}
  <1>1. /\ g \in [Nat -> Nat] /\ g[0] = n
        /\ \A k \in Nat : g[k + 1] = Twice(g[k])
    BY DoublingsIs
  <1> HIDE DEF g
  <1>2. 0 \in T
    BY <1>1
  <1>3. ASSUME NEW k \in Nat, k \in T PROVE k + 1 \in T
    <2>1. g[k] \in Nat /\ g[k] >= k /\ g[k] >= n
      BY <1>1, <1>3
    <2>2. g[k + 1] \in Nat /\ g[k + 1] >= g[k] + 1
      BY <1>1, <2>1, TwiceGrows
    <2>3. g[k + 1] >= k + 1 /\ g[k + 1] >= n
      BY <2>1, <2>2
    <2>4. QED
      BY <2>3
  <1> HIDE DEF T
  <1>4. Nat \subseteq T
    BY <1>2, <1>3, NatAll
  <1>5. QED
    BY <1>4 DEF T, g

\* The loop ends: the slots are enough, and no fewer than before.
LEMMA DoubledIsEnough ==
  ASSUME NEW n \in Nat, NEW needed \in Nat
  PROVE  Doubled(n, needed) \in Nat /\ Doubled(n, needed) >= needed /\ Doubled(n, needed) >= n
  <1> DEFINE g == Doublings(n)
             T == {k \in Nat : needed <= g[k]}
             Ends(k) == needed <= g[k] /\ \A l \in 0 .. k - 1 : g[l] < needed
  <1>1. g \in [Nat -> Nat] /\ \A k \in Nat : g[k] >= k /\ g[k] >= n
    BY DoublingsIs, DoublingsGrow
  <1>2. Doubled(n, needed) = g[CHOOSE k \in 0 .. needed : Ends(k)]
    BY DEF Doubled
  <1> HIDE DEF g
  <1>3. needed \in T /\ T \subseteq Nat
    BY <1>1
  <1>4. PICK k \in T : \A l \in T : k <= l
    <2> HIDE DEF T
    <2>1. QED
      BY <1>3, NatMin
  <1>5. k \in 0 .. needed
    BY <1>3, <1>4
  <1>6. Ends(k)
    <2>1. ASSUME NEW l \in 0 .. k - 1 PROVE g[l] < needed
      <3>1. l \in Nat /\ k \in Nat /\ ~ (k <= l)
        BY <1>3, <1>4
      <3>2. g[l] \in Nat /\ ~ (needed <= g[l])
        BY <1>1, <1>4, <3>1
      <3>3. QED
        BY <3>2
    <2>2. QED
      BY <1>4, <2>1
  <1> DEFINE c == CHOOSE l \in 0 .. needed : Ends(l)
  <1>7. c \in 0 .. needed /\ Ends(c)
    <2> HIDE DEF Ends
    <2>1. QED
      BY <1>5, <1>6
  <1>8. Doubled(n, needed) = g[c]
    BY <1>2
  <1> HIDE DEF c
  <1>9. c \in Nat /\ g[c] \in Nat /\ g[c] >= n /\ g[c] >= needed
    <2>1. c \in Nat /\ needed <= g[c]
      BY <1>7
    <2>2. g[c] \in Nat /\ g[c] >= n
      BY <1>1, <2>1
    <2>3. QED
      BY <2>1, <2>2
  <1>10. QED
    BY <1>8, <1>9

-----------------------------------------------------------------------------
(* Sequences that are cut and put together, and how often a value occurs   *)
(* in them.                                                                *)

\* t with the elements from j + 1 to e replaced by w.
Replaced(t, j, e, w) == SubSeq(t, 1, j) \o w \o SubSeq(t, e + 1, Len(t))

\* The elements of u are the first j of t, then w, then those of t after e.
IsReplaced(u, t, j, e, w) ==
  /\ Len(u) = (j + Len(w)) + (Len(t) - e)
  /\ \A k \in 1 .. j : u[k] = t[k]
  /\ \A k \in 1 .. Len(w) : u[j + k] = w[k]
  /\ \A k \in 1 .. Len(t) - e : u[(j + Len(w)) + k] = t[e + k]

LEMMA ReplacedIs ==
  ASSUME NEW S, NEW t \in Seq(S), NEW w \in Seq(S), NEW j \in Nat, NEW e \in Nat,
         j <= e, e <= Len(t)
  PROVE  Replaced(t, j, e, w) \in Seq(S) /\ IsReplaced(Replaced(t, j, e, w), t, j, e, w)
  <1> DEFINE a == SubSeq(t, 1, j)
             b == SubSeq(t, e + 1, Len(t))
             aw == a \o w
  <1>1. Len(t) \in Nat /\ Len(w) \in Nat /\ j <= Len(t)
    OBVIOUS
  <1>2. a \in Seq(S) /\ Len(a) = j /\ \A k \in 1 .. j : a[k] = t[k]
    BY <1>1
  <1>3. b \in Seq(S) /\ Len(b) = Len(t) - e /\ \A k \in 1 .. Len(t) - e : b[k] = t[e + k]
    <2>1. b \in Seq(S)
      BY <1>1
    <2>2. Len(b) = Len(t) - e
      BY <1>1
    <2>3. ASSUME NEW k \in 1 .. Len(t) - e PROVE b[k] = t[e + k]
      <3>1. b[k] = t[(e + 1) + k - 1]
        BY <1>1, <2>2
      <3>2. (e + 1) + k - 1 = e + k
        OBVIOUS
      <3>3. QED
        BY <3>1, <3>2
    <2>4. QED
      BY <2>1, <2>2, <2>3
  <1> HIDE DEF a, b
  <1>4. /\ aw \in Seq(S) /\ Len(aw) = j + Len(w)
        /\ \A k \in 1 .. j : aw[k] = t[k]
        /\ \A k \in 1 .. Len(w) : aw[j + k] = w[k]
    <2>1. aw \in Seq(S) /\ Len(aw) = j + Len(w)
      BY <1>2
    <2>2. ASSUME NEW k \in 1 .. j PROVE aw[k] = t[k]
      BY <1>1, <1>2
    <2>3. ASSUME NEW k \in 1 .. Len(w) PROVE aw[j + k] = w[k]
      BY <1>1, <1>2
    <2>4. QED
      BY <2>1, <2>2, <2>3
  <1> HIDE DEF aw
  <1>5. Replaced(t, j, e, w) = aw \o b
    BY DEF Replaced, aw, a, b
  <1> DEFINE r == aw \o b
  <1>6. r \in Seq(S) /\ Len(r) = (j + Len(w)) + (Len(t) - e)
    <2>1. r \in Seq(S) /\ Len(r) = Len(aw) + Len(b)
      <3>1. aw \in Seq(S) /\ b \in Seq(S)
        BY <1>3, <1>4
      <3>2. QED
        BY <3>1, ConcatIs
    <2>2. QED
      BY <1>3, <1>4, <2>1
  <1>7. \A k \in 1 .. Len(aw) : r[k] = aw[k]
    BY <1>3, <1>4
  <1>8. \A k \in 1 .. Len(b) : r[Len(aw) + k] = b[k]
    BY <1>3, <1>4
  <1> HIDE DEF r
  <1>9. \A k \in 1 .. j : r[k] = t[k]
    BY <1>1, <1>4, <1>7
  <1>10. \A k \in 1 .. Len(w) : r[j + k] = w[k]
    BY <1>1, <1>4, <1>7
  <1>11. \A k \in 1 .. Len(t) - e : r[(j + Len(w)) + k] = t[e + k]
    BY <1>3, <1>4, <1>8
  <1>12. QED
    BY <1>5, <1>6, <1>9, <1>10, <1>11 DEF IsReplaced, r

Occurrences(w, v) == {k \in DOMAIN w : w[k] = v}

LEMMA OccurrencesFinite ==
  ASSUME NEW S, NEW w \in Seq(S), NEW v
  PROVE  IsFiniteSet(Occurrences(w, v)) /\ Count(w, v) = Cardinality(Occurrences(w, v))
         /\ Count(w, v) \in Nat
  <1>1. Occurrences(w, v) \subseteq 1 .. Len(w) /\ Len(w) \in Nat
    BY DEF Occurrences
  <1>2. IsFiniteSet(1 .. Len(w))
    BY <1>1, FS_Interval
  <1>3. IsFiniteSet(Occurrences(w, v))
    BY <1>1, <1>2, FS_Subset
  <1>4. Count(w, v) = Cardinality(Occurrences(w, v))
    BY DEF Count, Occurrences
  <1>5. Cardinality(Occurrences(w, v)) \in Nat
    BY <1>3, FS_CardinalityType
  <1>6. QED
    BY <1>3, <1>4, <1>5

\* A value occurs in two sequences together as often as in the one and in
\* the other.
LEMMA CountConcat ==
  ASSUME NEW S, NEW a \in Seq(S), NEW b \in Seq(S), NEW v
  PROVE  Count(a \o b, v) = Count(a, v) + Count(b, v)
  <1> DEFINE A == Occurrences(a, v)
             B == Occurrences(b, v)
             C == {Len(a) + k : k \in B}
             r == a \o b
  <1>1. Len(a) \in Nat /\ Len(b) \in Nat /\ DOMAIN a = 1 .. Len(a) /\ DOMAIN b = 1 .. Len(b)
    OBVIOUS
  <1>2. /\ r \in Seq(S) /\ DOMAIN r = 1 .. Len(a) + Len(b)
        /\ \A k \in 1 .. Len(a) : r[k] = a[k]
        /\ \A k \in 1 .. Len(b) : r[Len(a) + k] = b[k]
    OBVIOUS
  <1> HIDE DEF r
  <1>3. A \subseteq 1 .. Len(a) /\ B \subseteq 1 .. Len(b)
    BY <1>1 DEF Occurrences
  <1>4. Occurrences(r, v) = A \cup C
    <2>1. ASSUME NEW k \in Occurrences(r, v) PROVE k \in A \cup C
      <3>1. k \in 1 .. Len(a) + Len(b) /\ r[k] = v
        BY <1>2, <2>1 DEF Occurrences
      <3>2. CASE k <= Len(a)
        <4>1. k \in 1 .. Len(a) /\ a[k] = v
          BY <1>1, <1>2, <3>1, <3>2
        <4>2. QED
          BY <1>1, <4>1 DEF Occurrences
      <3>3. CASE ~ (k <= Len(a))
        <4>1. k - Len(a) \in 1 .. Len(b) /\ k = Len(a) + (k - Len(a))
          BY <1>1, <3>1, <3>3
        <4>2. b[k - Len(a)] = v
          BY <1>2, <3>1, <4>1
        <4>3. k - Len(a) \in B
          BY <1>1, <4>1, <4>2 DEF Occurrences
        <4>4. QED
          BY <4>1, <4>3
      <3>4. QED
        BY <3>2, <3>3
    <2>2. ASSUME NEW k \in A PROVE k \in Occurrences(r, v)
      <3>1. k \in 1 .. Len(a) /\ a[k] = v
        BY <1>1 DEF Occurrences
      <3>2. k \in 1 .. Len(a) + Len(b) /\ r[k] = v
        BY <1>1, <1>2, <3>1
      <3>3. QED
        BY <1>2, <3>2 DEF Occurrences
    <2>3. ASSUME NEW k \in B PROVE Len(a) + k \in Occurrences(r, v)
      <3>1. k \in 1 .. Len(b) /\ b[k] = v
        BY <1>1 DEF Occurrences
      <3>2. Len(a) + k \in 1 .. Len(a) + Len(b) /\ r[Len(a) + k] = v
        BY <1>1, <1>2, <3>1
      <3>3. QED
        BY <1>2, <3>2 DEF Occurrences
    <2>4. QED
      BY <2>1, <2>2, <2>3
  <1>5. A \cap C = {}
    <2>1. \A x \in B : ~ (Len(a) + x \in 1 .. Len(a))
      BY <1>1, <1>3
    <2>2. QED
      BY <1>3, <2>1
  <1>6. /\ IsFiniteSet(A) /\ IsFiniteSet(B)
        /\ Count(a, v) = Cardinality(A) /\ Count(b, v) = Cardinality(B)
        /\ Count(r, v) = Cardinality(Occurrences(r, v))
    BY <1>2, OccurrencesFinite
  <1> HIDE DEF A, B
  <1>7. ExistsBijection(B, C)
    <2> DEFINE f == [x \in B |-> Len(a) + x]
    <2>1. f \in [B -> C] /\ \A y \in C : \E x \in B : f[x] = y
      OBVIOUS
    <2>2. ASSUME NEW x \in B, NEW y \in B, f[x] = f[y] PROVE x = y
      <3>1. x \in Int /\ y \in Int /\ Len(a) + x = Len(a) + y
        BY <1>3, <2>2
      <3>2. QED
        BY <1>1, <3>1
    <2> HIDE DEF f
    <2>3. f \in Bijection(B, C)
      BY <2>1, <2>2 DEF Bijection, Injection, IsInjective, Surjection
    <2>4. QED
      BY <2>3 DEF ExistsBijection
  <1> HIDE DEF C
  <1>8. IsFiniteSet(C) /\ Cardinality(C) = Cardinality(B)
    BY <1>6, <1>7, FS_Bijection
  <1>9. Cardinality(A \cup C) = Cardinality(A) + Cardinality(C) - Cardinality(A \cap C)
    BY <1>6, <1>8, FS_Union
  <1>10. Cardinality(A \cap C) = 0 /\ Cardinality(A) \in Nat /\ Cardinality(C) \in Nat
    BY <1>5, <1>6, <1>8, FS_EmptySet, FS_CardinalityType
  <1>11. Count(r, v) = Cardinality(A) + Cardinality(C)
    BY <1>4, <1>6, <1>9, <1>10
  <1>12. QED
    BY <1>6, <1>8, <1>11 DEF r

\* What does not occur is counted zero times.
LEMMA CountNone ==
  ASSUME NEW S, NEW w \in Seq(S), NEW v, \A k \in 1 .. Len(w) : w[k] # v
  PROVE  Count(w, v) = 0
  <1>1. {k \in DOMAIN w : w[k] = v} = {}
    OBVIOUS
  <1>2. QED
    BY <1>1, FS_EmptySet DEF Count

\* Of a part that goes and one that comes, the occurrences go and come.
LEMMA CountReplaced ==
  ASSUME NEW S, NEW t \in Seq(S), NEW w \in Seq(S), NEW j \in Nat, NEW e \in Nat,
         j <= e, e <= Len(t), NEW v
  PROVE  Count(Replaced(t, j, e, w), v) = (Count(t, v) - Count(SubSeq(t, j + 1, e), v)) + Count(w, v)
  <1> DEFINE a == SubSeq(t, 1, j)
             m == SubSeq(t, j + 1, e)
             b == SubSeq(t, e + 1, Len(t))
  <1>1. a \in Seq(S) /\ m \in Seq(S) /\ b \in Seq(S) /\ Len(t) \in Nat
    OBVIOUS
  <1>2. t = (a \o m) \o b
    <2>1. Len(a) = j /\ Len(m) = e - j /\ Len(b) = Len(t) - e
      BY <1>1
    <2>2. \A k \in 1 .. j : a[k] = t[k]
      BY <1>1, <2>1
    <2>3. \A k \in 1 .. e - j : m[k] = t[j + k]
      BY <1>1, <2>1
    <2>4. \A k \in 1 .. Len(t) - e : b[k] = t[e + k]
      BY <1>1, <2>1
    <2> HIDE DEF a, m, b
    <2> DEFINE am == a \o m
    <2>5. am \in Seq(S) /\ Len(am) = e
      <3>1. am \in Seq(S) /\ Len(am) = Len(a) + Len(m)
        BY <1>1
      <3>2. QED
        BY <2>1, <3>1
    <2>6. ASSUME NEW k \in 1 .. e PROVE am[k] = t[k]
      <3>1. CASE k <= j
        BY <1>1, <2>1, <2>2, <3>1
      <3>2. CASE ~ (k <= j)
        <4>1. k - j \in 1 .. e - j /\ j + (k - j) = k
          BY <3>2
        <4>2. am[k] = m[k - j]
          BY <1>1, <2>1, <3>2
        <4>3. QED
          BY <2>3, <4>1, <4>2
      <3>3. QED
        BY <3>1, <3>2
    <2> HIDE DEF am
    <2> DEFINE amb == am \o b
    <2>7. amb \in Seq(S) /\ Len(amb) = Len(t)
      <3>1. amb \in Seq(S) /\ Len(amb) = Len(am) + Len(b)
        <4>1. am \in Seq(S) /\ b \in Seq(S)
          BY <1>1, <2>5
        <4>2. QED
          BY <4>1, ConcatIs
      <3>2. QED
        BY <1>1, <2>1, <2>5, <3>1
    <2>8. ASSUME NEW k \in 1 .. Len(t) PROVE amb[k] = t[k]
      <3>1. CASE k <= e
        BY <1>1, <2>5, <2>6, <3>1
      <3>2. CASE ~ (k <= e)
        <4>1. k - e \in 1 .. Len(t) - e /\ e + (k - e) = k
          BY <1>1, <3>2
        <4>2. amb[k] = b[k - e]
          <5>1. am \in Seq(S) /\ b \in Seq(S) /\ Len(am) = e
            BY <1>1, <2>5
          <5>2. k \in Nat /\ k > Len(am) /\ k <= Len(am) + Len(b)
            BY <1>1, <2>1, <3>2, <5>1
          <5>3. (am \o b)[k] = b[k - Len(am)]
            BY <5>1, <5>2
          <5>4. QED
            BY <5>1, <5>3
        <4>3. QED
          BY <2>4, <4>1, <4>2
      <3>3. QED
        BY <3>1, <3>2
    <2> HIDE DEF amb
    <2>9. amb = t
      BY <2>7, <2>8
    <2>10. QED
      BY <2>9 DEF amb, am
  <1>3. Replaced(t, j, e, w) = (a \o w) \o b
    BY DEF Replaced
  <1> HIDE DEF a, m, b
  <1>4. a \o m \in Seq(S) /\ a \o w \in Seq(S)
    BY <1>1
  <1>5. Count(t, v) = (Count(a, v) + Count(m, v)) + Count(b, v)
    <2>1. Count(a \o m, v) = Count(a, v) + Count(m, v)
      BY <1>1, CountConcat
    <2>2. Count((a \o m) \o b, v) = Count(a \o m, v) + Count(b, v)
      BY <1>1, <1>4, CountConcat
    <2>3. QED
      BY <1>2, <2>1, <2>2
  <1>6. Count(Replaced(t, j, e, w), v) = (Count(a, v) + Count(w, v)) + Count(b, v)
    <2>1. Count(a \o w, v) = Count(a, v) + Count(w, v)
      BY <1>1, CountConcat
    <2>2. Count((a \o w) \o b, v) = Count(a \o w, v) + Count(b, v)
      BY <1>1, <1>4, CountConcat
    <2>3. QED
      BY <1>3, <2>1, <2>2
  <1>7. /\ Count(a, v) \in Nat /\ Count(b, v) \in Nat
        /\ Count(m, v) \in Nat /\ Count(w, v) \in Nat
    BY <1>1, OccurrencesFinite
  <1>8. QED
    BY <1>5, <1>6, <1>7 DEF m

-----------------------------------------------------------------------------
(* The array.                                                              *)

Elems == Values \cup {ZERO}

\* An array: its first i slots are in use, its slots are numbered from 0.
IsArray(a) ==
  /\ a = [i |-> a.i, n |-> a.n, d |-> a.d]
  /\ a.i \in Nat /\ a.n \in Nat /\ a.i <= a.n /\ DOMAIN a.d = 0 .. a.n - 1

\* The array holds the elements of the sequence w.
HoldsElements(a, w) ==
  /\ IsArray(a) /\ w \in Seq(Elems) /\ Len(w) = a.i
  /\ \A k \in 1 .. a.i : a.d[k - 1] = w[k]

\* The invariant of the array: it holds the content and owns its copies.
ArrayInv == HoldsElements(arr, content) /\ DOMAIN alive = Values /\ CopiesAreOwned

\* c is a with the elements of w in the slots from j on.
IsCopy(c, a, j, w) ==
  /\ IsArray(c) /\ c.i = a.i /\ c.n = a.n
  /\ \A k \in 0 .. a.n - 1 :
       c.d[k] = IF k \in j .. j + Len(w) - 1 THEN w[k - j + 1] ELSE a.d[k]

LEMMA CopyIs ==
  ASSUME NEW a, IsArray(a), NEW j \in Nat, NEW w
  PROVE  IsCopy(Copy(a, j, w), a, j, w)
  <1> DEFINE d == [k \in DOMAIN a.d |-> IF k \in j .. j + Len(w) - 1 THEN w[k - j + 1] ELSE a.d[k]]
  <1>1. /\ a = [i |-> a.i, n |-> a.n, d |-> a.d]
        /\ a.i \in Nat /\ a.n \in Nat /\ a.i <= a.n /\ DOMAIN a.d = 0 .. a.n - 1
    BY DEF IsArray
  <1>2. Copy(a, j, w) = [a EXCEPT !.d = d]
    BY DEF Copy
  <1>3. /\ DOMAIN d = 0 .. a.n - 1
        /\ \A k \in 0 .. a.n - 1 : d[k] = IF k \in j .. j + Len(w) - 1 THEN w[k - j + 1] ELSE a.d[k]
    BY <1>1
  <1> HIDE DEF d
  <1>4. Copy(a, j, w) = [i |-> a.i, n |-> a.n, d |-> d]
    BY <1>1, <1>2
  <1>5. Copy(a, j, w).i = a.i /\ Copy(a, j, w).n = a.n /\ Copy(a, j, w).d = d
    BY <1>4
  <1>6. IsArray(Copy(a, j, w))
    BY <1>1, <1>3, <1>4, <1>5 DEF IsArray
  <1>7. QED
    BY <1>3, <1>5, <1>6 DEF IsCopy

\* utarray_reserve: room for by more elements, and the slots keep their elements.
LEMMA ReserveIs ==
  ASSUME NEW a, IsArray(a), NEW by \in Nat
  PROVE  /\ IsArray(Reserve(a, by)) /\ Reserve(a, by).i = a.i
         /\ Reserve(a, by).n >= a.i + by /\ Reserve(a, by).n >= a.n
         /\ \A k \in 0 .. a.n - 1 : Reserve(a, by).d[k] = a.d[k]
  <1> DEFINE n == Doubled(a.n, a.i + by)
             d == [k \in 0 .. n - 1 |-> IF k < a.n THEN a.d[k] ELSE JUNK]
             r == Reserve(a, by)
  <1>1. /\ a = [i |-> a.i, n |-> a.n, d |-> a.d]
        /\ a.i \in Nat /\ a.n \in Nat /\ a.i <= a.n /\ DOMAIN a.d = 0 .. a.n - 1
    BY DEF IsArray
  <1>2. a.i + by \in Nat
    BY <1>1
  <1>3. n \in Nat /\ n >= a.i + by /\ n >= a.n
    BY <1>1, <1>2, DoubledIsEnough
  <1>4. r = [a EXCEPT !.n = n, !.d = d]
    BY DEF Reserve
  <1> HIDE DEF r, n
  <1>5. DOMAIN d = 0 .. n - 1 /\ \A k \in 0 .. a.n - 1 : d[k] = a.d[k]
    BY <1>1, <1>3
  <1> HIDE DEF d
  <1>6. r = [i |-> a.i, n |-> n, d |-> d]
    BY <1>1, <1>4
  <1>7. r.i = a.i /\ r.n = n /\ r.d = d
    BY <1>6
  <1>8. a.i <= n
    BY <1>1, <1>3
  <1>9. IsArray(r)
    BY <1>1, <1>3, <1>5, <1>6, <1>7, <1>8 DEF IsArray
  <1>10. QED
    BY <1>3, <1>5, <1>7, <1>9 DEF r

\* The memmove of an insertion: the elements from j on have moved by by slots.
LEMMA OpenIs ==
  ASSUME NEW a, IsArray(a), NEW j \in Nat, NEW by \in Nat, j <= a.i, a.i + by <= a.n
  PROVE  /\ IsArray(Open(a, j, by)) /\ Open(a, j, by).i = a.i /\ Open(a, j, by).n = a.n
         /\ \A k \in 0 .. j - 1 : Open(a, j, by).d[k] = a.d[k]
         /\ \A k \in j .. a.i - 1 : Open(a, j, by).d[k + by] = a.d[k]
  <1>1. a.i \in Nat /\ a.n \in Nat /\ a.i <= a.n /\ DOMAIN a.d = 0 .. a.n - 1
    BY DEF IsArray
  <1>2. CASE j < a.i
    <2> DEFINE w == Slice(a, j, a.i)
               c == Copy(a, j + by, w)
    <2>1. Open(a, j, by) = c
      BY <1>2 DEF Open
    <2>2. Len(w) = a.i - j /\ \A k \in 1 .. a.i - j : w[k] = a.d[j + k - 1]
      <3>1. w = [k \in 1 .. a.i - j |-> a.d[j + k - 1]]
        BY DEF Slice
      <3>2. a.i - j \in Nat
        BY <1>1
      <3>3. QED
        BY <3>1, <3>2
    <2> HIDE DEF w
    <2>3. j + by \in Nat
      OBVIOUS
    <2>4. /\ IsArray(c) /\ c.i = a.i /\ c.n = a.n
          /\ \A k \in 0 .. a.n - 1 :
               c.d[k] = IF k \in j + by .. (j + by) + Len(w) - 1
                        THEN w[k - (j + by) + 1] ELSE a.d[k]
      <3>1. IsCopy(c, a, j + by, w)
        BY <2>3, CopyIs
      <3>2. QED
        BY <3>1 DEF IsCopy
    <2> HIDE DEF c
    <2>5. ASSUME NEW k \in 0 .. j - 1 PROVE c.d[k] = a.d[k]
      <3>1. k \in 0 .. a.n - 1
        BY <1>1
      <3>2. k < j + by
        OBVIOUS
      <3>3. k \notin j + by .. (j + by) + Len(w) - 1
        BY <3>2
      <3>4. QED
        BY <2>4, <3>1, <3>3
    <2>6. ASSUME NEW k \in j .. a.i - 1 PROVE c.d[k + by] = a.d[k]
      <3>1. k + by \in 0 .. a.n - 1
        BY <1>1
      <3>2. k + by \in j + by .. (j + by) + Len(w) - 1
        <4>1. Len(w) = a.i - j
          BY <2>2
        <4> DEFINE used == a.i
                   moved == Len(w)
        <4>2. used \in Nat /\ k \in Int /\ j <= k /\ k <= used - 1 /\ moved = used - j
          BY <1>1, <4>1
        <4> HIDE DEF used, moved
        <4>3. k + by \in j + by .. (j + by) + moved - 1
          BY <4>2
        <4>4. QED
          BY <4>3 DEF moved
      <3>3. c.d[k + by] = w[(k + by) - (j + by) + 1]
        BY <2>4, <3>1, <3>2
      <3>4. (k + by) - (j + by) + 1 = k - j + 1 /\ k - j + 1 \in 1 .. a.i - j
            /\ j + (k - j + 1) - 1 = k
        BY <1>1
      <3>5. QED
        BY <2>2, <3>3, <3>4
    <2>7. QED
      BY <2>1, <2>4, <2>5, <2>6
  <1>3. CASE ~ (j < a.i)
    <2>1. Open(a, j, by) = a /\ j = a.i
      BY <1>1, <1>3 DEF Open
    <2>2. j .. a.i - 1 = {}
      BY <1>1, <2>1
    <2>3. QED
      BY <2>1, <2>2
  <1>4. QED
    BY <1>2, <1>3

(***************************************************************************)
(* An insertion: slots are reserved, the elements from j on are moved, and *)
(* w is copied into the gap.  Push_back, Extend_back and the growth of     *)
(* Resize are insertions at the end.                                       *)
(***************************************************************************)
Inserted(a, j, w) ==
  [Copy(Open(Reserve(a, Len(w)), j, Len(w)), j, w) EXCEPT !.i = @ + Len(w)]

LEMMA InsertHolds ==
  ASSUME NEW a, NEW t, HoldsElements(a, t), NEW w \in Seq(Elems), NEW j \in Nat, j <= a.i
  PROVE  HoldsElements(Inserted(a, j, w), Replaced(t, j, j, w))
  <1> DEFINE l == Len(w)
             r == Reserve(a, l)
             o == Open(r, j, l)
             c == Copy(o, j, w)
             s == Inserted(a, j, w)
             u == Replaced(t, j, j, w)
  <1>1. /\ IsArray(a) /\ t \in Seq(Elems) /\ Len(t) = a.i
        /\ \A k \in 1 .. a.i : a.d[k - 1] = t[k]
    BY DEF HoldsElements
  <1>2. a.i \in Nat /\ a.n \in Nat /\ a.i <= a.n /\ l \in Nat
    BY <1>1 DEF IsArray
  <1>3. s = [c EXCEPT !.i = @ + l]
    BY DEF Inserted
  <1>4. /\ u \in Seq(Elems) /\ Len(u) = (j + l) + (a.i - j)
        /\ \A k \in 1 .. j : u[k] = t[k]
        /\ \A k \in 1 .. l : u[j + k] = w[k]
        /\ \A k \in 1 .. a.i - j : u[(j + l) + k] = t[j + k]
    <2>1. j <= j /\ j <= Len(t)
      BY <1>1
    <2> HIDE DEF u, l
    <2>2. /\ Len(u) = (j + Len(w)) + (Len(t) - j)
          /\ \A k \in 1 .. j : u[k] = t[k]
          /\ \A k \in 1 .. Len(w) : u[j + k] = w[k]
          /\ \A k \in 1 .. Len(t) - j : u[(j + Len(w)) + k] = t[j + k]
      <3>1. IsReplaced(u, t, j, j, w)
        BY <1>1, <2>1, ReplacedIs DEF u
      <3>2. QED
        BY <1>1, <3>1 DEF IsReplaced
    <2>3. u \in Seq(Elems)
      BY <1>1, <2>1, ReplacedIs DEF u
    <2>4. QED
      BY <1>1, <2>2, <2>3 DEF l
  <1> HIDE DEF u, s, l
  <1>5. /\ IsArray(r) /\ r.i = a.i /\ r.n >= a.i + l /\ r.n >= a.n
        /\ \A k \in 0 .. a.n - 1 : r.d[k] = a.d[k]
    BY <1>1, <1>2, ReserveIs
  <1> HIDE DEF r
  <1>6. r.n \in Nat
    BY <1>5 DEF IsArray
  <1>7. /\ IsArray(o) /\ o.i = a.i /\ o.n = r.n
        /\ \A k \in 0 .. j - 1 : o.d[k] = r.d[k]
        /\ \A k \in j .. a.i - 1 : o.d[k + l] = r.d[k]
    <2>1. j <= r.i /\ r.i + l <= r.n
      BY <1>2, <1>5, <1>6
    <2>2. QED
      BY <1>2, <1>5, <2>1, OpenIs
  <1> HIDE DEF o
  <1>8. /\ IsArray(c) /\ c.i = a.i /\ c.n = r.n
        /\ \A k \in 0 .. r.n - 1 :
             c.d[k] = IF k \in j .. j + l - 1 THEN w[k - j + 1] ELSE o.d[k]
    <2>1. IsCopy(c, o, j, w)
      BY <1>7, CopyIs
    <2> HIDE DEF c
    <2>2. QED
      BY <1>7, <2>1 DEF IsCopy, l
  <1> HIDE DEF c
  <1>9. /\ s = [i |-> a.i + l, n |-> r.n, d |-> c.d]
        /\ s.i = a.i + l /\ s.n = r.n /\ s.d = c.d
    BY <1>3, <1>8 DEF IsArray
  <1>10. IsArray(s)
    <2>1. s.i \in Nat /\ s.i <= s.n
      BY <1>2, <1>5, <1>6, <1>9
    <2>2. DOMAIN s.d = 0 .. s.n - 1
      BY <1>8, <1>9 DEF IsArray
    <2>3. QED
      BY <1>6, <1>9, <2>1, <2>2 DEF IsArray
  <1>11. Len(u) = s.i
    BY <1>2, <1>4, <1>9
  <1>12. ASSUME NEW k \in 1 .. j PROVE c.d[k - 1] = u[k]
    <2>1. k - 1 \in 0 .. r.n - 1 /\ k - 1 \notin j .. j + l - 1
      BY <1>2, <1>5, <1>6
    <2>2. k - 1 \in 0 .. j - 1 /\ k - 1 \in 0 .. a.n - 1 /\ k \in 1 .. a.i
      BY <1>2
    <2>3. c.d[k - 1] = o.d[k - 1]
      BY <1>8, <2>1
    <2>4. o.d[k - 1] = a.d[k - 1]
      BY <1>5, <1>7, <2>2
    <2>5. QED
      BY <1>1, <1>4, <2>2, <2>3, <2>4
  <1>13. ASSUME NEW k \in 1 .. l PROVE c.d[(j + k) - 1] = u[j + k]
    <2>1. (j + k) - 1 \in 0 .. r.n - 1 /\ (j + k) - 1 \in j .. j + l - 1
          /\ ((j + k) - 1) - j + 1 = k
      BY <1>2, <1>5, <1>6
    <2>2. c.d[(j + k) - 1] = w[k]
      BY <1>8, <2>1
    <2>3. QED
      BY <1>4, <2>2
  <1>14. ASSUME NEW k \in 1 .. a.i - j PROVE c.d[((j + l) + k) - 1] = u[(j + l) + k]
    <2>1. /\ ((j + l) + k) - 1 \in 0 .. r.n - 1 /\ ((j + l) + k) - 1 \notin j .. j + l - 1
          /\ ((j + l) + k) - 1 = ((j + k) - 1) + l
      BY <1>2, <1>5, <1>6
    <2>2. /\ (j + k) - 1 \in j .. a.i - 1 /\ (j + k) - 1 \in 0 .. a.n - 1
          /\ j + k \in 1 .. a.i
      BY <1>2
    <2>3. c.d[((j + l) + k) - 1] = o.d[((j + k) - 1) + l]
      BY <1>8, <2>1
    <2>4. o.d[((j + k) - 1) + l] = r.d[(j + k) - 1]
      BY <1>7, <2>2
    <2>5. r.d[(j + k) - 1] = a.d[(j + k) - 1]
      BY <1>5, <2>2
    <2>6. a.d[(j + k) - 1] = t[j + k]
      BY <1>1, <2>2
    <2>7. QED
      BY <1>4, <2>3, <2>4, <2>5, <2>6
  <1>15. ASSUME NEW k \in 1 .. s.i PROVE s.d[k - 1] = u[k]
    <2>1. k \in Int /\ 1 <= k /\ k <= a.i + l
      BY <1>2, <1>9
    <2>2. CASE k <= j
      <3>1. k \in 1 .. j
        BY <2>1, <2>2
      <3>2. QED
        BY <1>9, <1>12, <3>1
    <2>3. CASE ~ (k <= j) /\ k <= j + l
      <3>1. k - j \in 1 .. l /\ j + (k - j) = k
        BY <1>2, <2>1, <2>3
      <3>2. c.d[(j + (k - j)) - 1] = u[j + (k - j)]
        BY <1>13, <3>1
      <3>3. QED
        BY <1>9, <3>1, <3>2
    <2>4. CASE ~ (k <= j + l)
      <3>1. k - (j + l) \in 1 .. a.i - j /\ (j + l) + (k - (j + l)) = k
        BY <1>2, <2>1, <2>4
      <3>2. c.d[((j + l) + (k - (j + l))) - 1] = u[(j + l) + (k - (j + l))]
        BY <1>14, <3>1
      <3>3. QED
        BY <1>9, <3>1, <3>2
    <2>5. QED
      BY <2>2, <2>3, <2>4
  <1>16. QED
    BY <1>4, <1>10, <1>11, <1>15 DEF HoldsElements, s, u

\* The elements of a part of the array are a part of the content.
LEMMA SliceIs ==
  ASSUME NEW a, NEW t, HoldsElements(a, t), NEW from \in Nat, NEW to \in Nat,
         from <= to, to <= a.i
  PROVE  Slice(a, from, to) = SubSeq(t, from + 1, to)
  <1> DEFINE w == Slice(a, from, to)
             u == SubSeq(t, from + 1, to)
  <1>1. /\ t \in Seq(Elems) /\ Len(t) = a.i /\ a.i \in Nat
        /\ \A k \in 1 .. a.i : a.d[k - 1] = t[k]
    BY DEF HoldsElements, IsArray
  <1>2. w = [k \in 1 .. to - from |-> a.d[from + k - 1]]
    BY DEF Slice
  <1>3. u = [k \in 1 .. to - from |-> t[from + k]]
    <2>1. Len(u) = to - from /\ u \in Seq(Elems)
      BY <1>1
    <2>2. ASSUME NEW k \in 1 .. to - from PROVE u[k] = t[from + k]
      <3>1. /\ from + 1 \in 1 .. Len(t) + 1 /\ to \in 0 .. Len(t)
            /\ k \in 1 .. (to - (from + 1)) + 1
        BY <1>1
      <3>2. u[k] = t[((from + 1) + k) - 1]
        BY <1>1, <3>1
      <3>3. ((from + 1) + k) - 1 = from + k
        OBVIOUS
      <3>4. QED
        BY <3>2, <3>3
    <2> HIDE DEF u
    <2>3. u = [k \in 1 .. Len(u) |-> u[k]]
      BY <2>1
    <2>4. QED
      BY <2>1, <2>2, <2>3
  <1>4. ASSUME NEW k \in 1 .. to - from PROVE a.d[from + k - 1] = t[from + k]
    <2>1. from + k \in 1 .. a.i /\ from + k - 1 = (from + k) - 1
      BY <1>1
    <2>2. QED
      BY <1>1, <2>1
  <1> HIDE DEF w, u
  <1>5. w = u
    BY <1>2, <1>3, <1>4
  <1>6. QED
    BY <1>5 DEF w, u

(***************************************************************************)
(* A removal: the elements behind the hole are moved into it.  Pop_back,   *)
(* utarray_clear and the shrinking of Resize are removals at the end,      *)
(* where nothing is moved.                                                 *)
(***************************************************************************)
Erased(a, pos, len) ==
  [(IF a.i > pos + len THEN Copy(a, pos, Slice(a, pos + len, a.i)) ELSE a) EXCEPT !.i = @ - len]

LEMMA EraseHolds ==
  ASSUME NEW a, NEW t, HoldsElements(a, t), NEW pos \in Nat, NEW len \in Nat, pos + len <= a.i
  PROVE  HoldsElements(Erased(a, pos, len), Replaced(t, pos, pos + len, <<>>))
  <1> DEFINE e == pos + len
             w == SubSeq(t, e + 1, a.i)
             c == IF a.i > e THEN Copy(a, pos, Slice(a, e, a.i)) ELSE a
             s == Erased(a, pos, len)
             u == Replaced(t, pos, e, <<>>)
  <1>1. /\ IsArray(a) /\ t \in Seq(Elems) /\ Len(t) = a.i
        /\ \A k \in 1 .. a.i : a.d[k - 1] = t[k]
    BY DEF HoldsElements
  <1>2. a.i \in Nat /\ a.n \in Nat /\ a.i <= a.n /\ e \in Nat /\ pos <= e /\ e <= a.i
    BY <1>1 DEF IsArray
  <1>3. s = [c EXCEPT !.i = @ - len]
    BY DEF Erased
  <1>4. /\ u \in Seq(Elems) /\ Len(u) = pos + (a.i - e)
        /\ \A k \in 1 .. pos : u[k] = t[k]
        /\ \A k \in 1 .. a.i - e : u[pos + k] = t[e + k]
    <2> HIDE DEF e
    <2>1. <<>> \in Seq(Elems) /\ Len(<<>>) = 0
      OBVIOUS
    <2>2. u \in Seq(Elems) /\ IsReplaced(u, t, pos, e, <<>>)
      BY <1>1, <1>2, <2>1, ReplacedIs
    <2> HIDE DEF u
    <2>3. /\ Len(u) = (pos + 0) + (a.i - e)
          /\ \A k \in 1 .. pos : u[k] = t[k]
          /\ \A k \in 1 .. a.i - e : u[(pos + 0) + k] = t[e + k]
      BY <1>1, <2>1, <2>2 DEF IsReplaced
    <2>4. pos + 0 = pos
      OBVIOUS
    <2>5. QED
      BY <2>2, <2>3, <2>4
  <1>5. Len(w) = a.i - e /\ \A k \in 1 .. a.i - e : w[k] = t[e + k]
    <2> HIDE DEF e
    <2>1. Len(w) = a.i - e
      BY <1>1, <1>2
    <2>2. ASSUME NEW k \in 1 .. a.i - e PROVE w[k] = t[e + k]
      <3>1. k \in 1 .. Len(w)
        BY <2>1
      <3>2. w[k] = t[(e + 1) + k - 1]
        BY <1>1, <1>2, <3>1
      <3>3. (e + 1) + k - 1 = e + k
        BY <1>2
      <3>4. QED
        BY <3>2, <3>3
    <2>3. QED
      BY <2>1, <2>2
  <1> HIDE DEF u, s, w
  <1>6. /\ IsArray(c) /\ c.i = a.i /\ c.n = a.n
        /\ \A k \in 1 .. pos : c.d[k - 1] = t[k]
        /\ \A k \in 1 .. a.i - e : c.d[(pos + k) - 1] = t[e + k]
    <2>1. CASE a.i > e
      <3>1. Slice(a, e, a.i) = w
        BY <1>2, SliceIs DEF w
      <3>2. c = Copy(a, pos, w)
        BY <2>1, <3>1
      <3> HIDE DEF c, e
      <3>3. IsCopy(c, a, pos, w)
        BY <1>1, <3>2, CopyIs
      <3>4. /\ IsArray(c) /\ c.i = a.i /\ c.n = a.n
            /\ \A k \in 0 .. a.n - 1 :
                 c.d[k] = IF k \in pos .. pos + Len(w) - 1 THEN w[k - pos + 1] ELSE a.d[k]
        BY <3>3 DEF IsCopy
      <3>5. ASSUME NEW k \in 1 .. pos PROVE c.d[k - 1] = t[k]
        <4>1. k - 1 \in 0 .. a.n - 1 /\ k - 1 \notin pos .. pos + Len(w) - 1 /\ k \in 1 .. a.i
          BY <1>2
        <4>2. QED
          BY <1>1, <3>4, <4>1
      <3>6. ASSUME NEW k \in 1 .. a.i - e PROVE c.d[(pos + k) - 1] = t[e + k]
        <4>1. /\ (pos + k) - 1 \in 0 .. a.n - 1 /\ (pos + k) - 1 \in pos .. pos + Len(w) - 1
              /\ ((pos + k) - 1) - pos + 1 = k
          <5>1. k \in Int /\ 1 <= k /\ k <= a.i - e /\ Len(w) = a.i - e
            BY <1>2, <1>5
          <5>2. (pos + k) - 1 \in 0 .. a.n - 1
            BY <1>2, <5>1
          <5>3. (pos + k) - 1 \in pos .. pos + (a.i - e) - 1
            BY <1>2, <5>1
          <5>4. QED
            BY <5>1, <5>2, <5>3
        <4>2. c.d[(pos + k) - 1] = w[k]
          BY <3>4, <4>1
        <4>3. QED
          BY <1>5, <4>2
      <3>7. QED
        BY <3>4, <3>5, <3>6
    <2>2. CASE ~ (a.i > e)
      <3>1. c = a /\ a.i = e
        BY <1>2, <2>2
      <3> HIDE DEF c, e
      <3>2. 1 .. a.i - e = {}
        BY <1>2, <3>1
      <3>3. \A k \in 1 .. pos : c.d[k - 1] = t[k]
        <4>1. \A k \in 1 .. pos : k \in 1 .. a.i
          BY <1>2
        <4>2. QED
          BY <1>1, <3>1, <4>1
      <3>4. QED
        BY <1>1, <3>1, <3>2, <3>3
    <2>3. QED
      BY <2>1, <2>2
  <1> HIDE DEF c
  <1>7. /\ s = [i |-> a.i - len, n |-> a.n, d |-> c.d]
        /\ s.i = a.i - len /\ s.n = a.n /\ s.d = c.d
    BY <1>3, <1>6 DEF IsArray
  <1>8. IsArray(s)
    <2>1. s.i \in Nat /\ s.i <= s.n
      BY <1>2, <1>7
    <2>2. DOMAIN s.d = 0 .. s.n - 1
      BY <1>6, <1>7 DEF IsArray
    <2>3. QED
      BY <1>2, <1>7, <2>1, <2>2 DEF IsArray
  <1>9. Len(u) = s.i
    BY <1>2, <1>4, <1>7
  <1>10. ASSUME NEW k \in 1 .. s.i PROVE s.d[k - 1] = u[k]
    <2>1. k \in Int /\ 1 <= k /\ k <= a.i - len
      BY <1>2, <1>7
    <2>2. CASE k <= pos
      <3>1. k \in 1 .. pos
        BY <2>1, <2>2
      <3>2. QED
        BY <1>4, <1>6, <1>7, <3>1
    <2>3. CASE ~ (k <= pos)
      <3>1. k - pos \in 1 .. a.i - e /\ pos + (k - pos) = k
        BY <1>2, <2>1, <2>3
      <3> HIDE DEF e
      <3>2. c.d[(pos + (k - pos)) - 1] = u[pos + (k - pos)]
        BY <1>4, <1>6, <3>1
      <3>3. QED
        BY <1>7, <3>1, <3>2
    <2>4. QED
      BY <2>2, <2>3
  <1>11. QED
    BY <1>4, <1>8, <1>9, <1>10 DEF HoldsElements, s, u

\* Nothing goes when elements are inserted.
LEMMA CountInserted ==
  ASSUME NEW t \in Seq(Elems), NEW w \in Seq(Elems), NEW j \in Nat, j <= Len(t), NEW v
  PROVE  Count(Replaced(t, j, j, w), v) = Count(t, v) + Count(w, v)
  <1>1. SubSeq(t, j + 1, j) \in Seq(Elems) /\ Len(SubSeq(t, j + 1, j)) = 0
    OBVIOUS
  <1>2. Count(SubSeq(t, j + 1, j), v) = 0
    <2> DEFINE m == SubSeq(t, j + 1, j)
    <2>1. m \in Seq(Elems) /\ Len(m) = 0
      BY <1>1
    <2> HIDE DEF m
    <2>2. \A k \in 1 .. Len(m) : m[k] # v
      BY <2>1
    <2>3. Count(m, v) = 0
      BY <2>1, <2>2, CountNone
    <2>4. QED
      BY <2>3 DEF m
  <1>3. Count(t, v) \in Nat /\ Count(w, v) \in Nat
    BY OccurrencesFinite
  <1>4. Count(Replaced(t, j, j, w), v) = (Count(t, v) - Count(SubSeq(t, j + 1, j), v)) + Count(w, v)
    BY CountReplaced
  <1>5. QED
    BY <1>2, <1>3, <1>4

LEMMA CountErased ==
  ASSUME NEW t \in Seq(Elems), NEW j \in Nat, NEW e \in Nat, j <= e, e <= Len(t), NEW v
  PROVE  Count(Replaced(t, j, e, <<>>), v) = Count(t, v) - Count(SubSeq(t, j + 1, e), v)
  <1>1. <<>> \in Seq(Elems) /\ \A k \in 1 .. Len(<<>>) : <<>>[k] # v
    OBVIOUS
  <1>2. Count(<<>>, v) = 0
    BY <1>1, CountNone
  <1>3. SubSeq(t, j + 1, e) \in Seq(Elems)
    OBVIOUS
  <1>4. Count(t, v) \in Nat /\ Count(SubSeq(t, j + 1, e), v) \in Nat
    BY <1>3, OccurrencesFinite
  <1>5. Count(Replaced(t, j, e, <<>>), v)
          = (Count(t, v) - Count(SubSeq(t, j + 1, e), v)) + Count(<<>>, v)
    <2>1. \A w \in Seq(Elems) :
            Count(Replaced(t, j, e, w), v)
              = (Count(t, v) - Count(SubSeq(t, j + 1, e), v)) + Count(w, v)
      BY CountReplaced
    <2>2. QED
      BY <1>1, <2>1
  <1>6. QED
    BY <1>2, <1>4, <1>5

\* An insertion keeps the invariant when the copies of w are counted.
LEMMA InsertKeeps ==
  ASSUME ArrayInv, NEW w \in Seq(Elems), NEW j \in Nat, j <= arr.i,
         arr' = Inserted(arr, j, w), content' = Replaced(content, j, j, w),
         DOMAIN alive' = Values, \A v \in Values : alive'[v] = alive[v] + Count(w, v)
  PROVE  ArrayInv'
  <1>1. HoldsElements(arr, content) /\ content \in Seq(Elems) /\ Len(content) = arr.i
    BY DEF ArrayInv, HoldsElements
  <1>2. HoldsElements(arr', content')
    <2>1. HoldsElements(Inserted(arr, j, w), Replaced(content, j, j, w))
      BY <1>1, InsertHolds
    <2>2. QED
      BY <2>1
  <1>3. ASSUME NEW v \in Values PROVE alive'[v] = Count(content', v)
    <2>1. Count(Replaced(content, j, j, w), v) = Count(content, v) + Count(w, v)
      BY <1>1, CountInserted
    <2>2. alive[v] = Count(content, v)
      BY DEF ArrayInv, CopiesAreOwned
    <2>3. QED
      BY <2>1, <2>2
  <1>4. QED
    BY <1>2, <1>3 DEF ArrayInv, CopiesAreOwned

\* A removal keeps the invariant when the copies that go are counted.
LEMMA EraseKeeps ==
  ASSUME ArrayInv, NEW pos \in Nat, NEW len \in Nat, pos + len <= arr.i,
         arr' = Erased(arr, pos, len), content' = Replaced(content, pos, pos + len, <<>>),
         alive' = Freed(Slice(arr, pos, pos + len))
  PROVE  ArrayInv'
  <1>1. HoldsElements(arr, content) /\ content \in Seq(Elems) /\ Len(content) = arr.i
    BY DEF ArrayInv, HoldsElements
  <1>2. HoldsElements(arr', content')
    <2>1. HoldsElements(Erased(arr, pos, len), Replaced(content, pos, pos + len, <<>>))
      BY <1>1, EraseHolds
    <2>2. QED
      BY <2>1
  <1>3. DOMAIN alive' = Values
    BY DEF Freed
  <1>4. ASSUME NEW v \in Values PROVE alive'[v] = Count(content', v)
    <2>1. pos + len \in Nat /\ pos <= pos + len
      OBVIOUS
    <2>2. Slice(arr, pos, pos + len) = SubSeq(content, pos + 1, pos + len)
      BY <1>1, <2>1, SliceIs
    <2>3. alive'[v] = alive[v] - Count(SubSeq(content, pos + 1, pos + len), v)
      BY <2>2 DEF Freed
    <2>4. alive[v] = Count(content, v)
      BY DEF ArrayInv, CopiesAreOwned
    <2>5. Count(Replaced(content, pos, pos + len, <<>>), v)
            = Count(content, v) - Count(SubSeq(content, pos + 1, pos + len), v)
      BY <1>1, <2>1, CountErased
    <2>6. QED
      BY <2>3, <2>4, <2>5
  <1>5. QED
    BY <1>2, <1>3, <1>4 DEF ArrayInv, CopiesAreOwned

\* At the end nothing has to be moved.
LEMMA AtTheEnd ==
  ASSUME NEW a, NEW t, HoldsElements(a, t), NEW w \in Seq(Elems)
  PROVE  /\ Inserted(a, a.i, w) = [Copy(Reserve(a, Len(w)), a.i, w) EXCEPT !.i = @ + Len(w)]
         /\ Replaced(t, a.i, a.i, w) = t \o w
  <1>1. IsArray(a) /\ t \in Seq(Elems) /\ Len(t) = a.i /\ a.i \in Nat /\ Len(w) \in Nat
    BY DEF HoldsElements, IsArray
  <1>2. Reserve(a, Len(w)).i = a.i
    BY <1>1, ReserveIs
  <1>3. Open(Reserve(a, Len(w)), a.i, Len(w)) = Reserve(a, Len(w))
    BY <1>1, <1>2 DEF Open
  <1>4. Inserted(a, a.i, w) = [Copy(Reserve(a, Len(w)), a.i, w) EXCEPT !.i = @ + Len(w)]
    BY <1>3 DEF Inserted
  <1>5. SubSeq(t, 1, Len(t)) = t /\ SubSeq(t, Len(t) + 1, Len(t)) = <<>>
    BY <1>1
  <1>6. t \o w \in Seq(Elems)
    BY <1>1
  <1>7. (t \o w) \o <<>> = t \o w
    BY <1>6
  <1>8. QED
    BY <1>1, <1>4, <1>5, <1>7 DEF Replaced

\* What is left when the elements behind num are removed.
LEMMA CutAtTheEnd ==
  ASSUME NEW a, NEW t, HoldsElements(a, t), NEW num \in Nat, num <= a.i
  PROVE  /\ Erased(a, num, a.i - num) = [a EXCEPT !.i = num]
         /\ Replaced(t, num, num + (a.i - num), <<>>) = SubSeq(t, 1, num)
         /\ a.i - num \in Nat /\ num + (a.i - num) = a.i
  <1>1. IsArray(a) /\ t \in Seq(Elems) /\ Len(t) = a.i /\ a.i \in Nat
    BY DEF HoldsElements, IsArray
  <1>2. a.i - num \in Nat /\ num + (a.i - num) = a.i /\ a.i - (a.i - num) = num /\ ~ (a.i > a.i)
    BY <1>1
  <1>3. Erased(a, num, a.i - num) = [a EXCEPT !.i = num]
    <2>1. Erased(a, num, a.i - num) = [a EXCEPT !.i = @ - (a.i - num)]
      BY <1>2 DEF Erased
    <2>2. QED
      BY <1>2, <2>1
  <1>4. SubSeq(t, 1, num) \in Seq(Elems)
    BY <1>1
  <1>5. SubSeq(t, a.i + 1, Len(t)) = <<>>
    BY <1>1
  <1> DEFINE b == SubSeq(t, 1, num)
  <1>6. (b \o <<>>) \o <<>> = b
    <2> HIDE DEF b
    <2>1. b \in Seq(Elems)
      BY <1>4 DEF b
    <2>2. b \o <<>> = b
      BY <2>1
    <2>3. QED
      BY <2>2
  <1>7. Replaced(t, num, a.i, <<>>) = (b \o <<>>) \o <<>>
    BY <1>5 DEF Replaced
  <1>8. QED
    BY <1>2, <1>3, <1>6, <1>7

LEMMA PushKeeps ==
  ASSUME ArrayInv, NEW v \in Values, Push_back(v)
  PROVE  ArrayInv'
  <1>1. HoldsElements(arr, content) /\ content \in Seq(Elems) /\ arr.i \in Nat
    BY DEF ArrayInv, HoldsElements, IsArray
  <1>2. <<v>> \in Seq(Elems) /\ Len(<<v>>) = 1 /\ arr.i <= arr.i
    BY <1>1 DEF Elems
  <1>3. arr' = Inserted(arr, arr.i, <<v>>)
    <2>1. Inserted(arr, arr.i, <<v>>)
            = [Copy(Reserve(arr, Len(<<v>>)), arr.i, <<v>>) EXCEPT !.i = @ + Len(<<v>>)]
      BY <1>1, <1>2, AtTheEnd
    <2>2. Reserve(arr, 1).i = arr.i
      <3>1. 1 \in Nat /\ IsArray(arr)
        BY <1>1 DEF HoldsElements
      <3>2. QED
        BY <3>1, ReserveIs
    <2>3. arr' = [Copy(Reserve(arr, 1), Reserve(arr, 1).i, <<v>>) EXCEPT !.i = @ + 1]
      BY DEF Push_back
    <2>4. QED
      BY <1>2, <2>1, <2>2, <2>3
  <1>4. content' = Replaced(content, arr.i, arr.i, <<v>>)
    <2>1. Replaced(content, arr.i, arr.i, <<v>>) = content \o <<v>>
      BY <1>1, <1>2, AtTheEnd
    <2>2. content' = Append(content, v) /\ Append(content, v) = content \o <<v>>
      BY <1>1, <1>2 DEF Push_back
    <2>3. QED
      BY <2>1, <2>2
  <1>5. DOMAIN alive' = Values /\ \A x \in Values : alive'[x] = alive[x] + Count(<<v>>, x)
    BY DEF Push_back, Made
  <1>6. QED
    BY <1>1, <1>2, <1>3, <1>4, <1>5, InsertKeeps

\* Cleared elements are no copies of a value.
LEMMA ZerosAreNoCopies ==
  ASSUME NEW w \in Seq(Elems), \A k \in 1 .. Len(w) : w[k] = ZERO, NEW v \in Values
  PROVE  Count(w, v) = 0
  <1>1. v # ZERO
    OBVIOUS
  <1>2. \A k \in 1 .. Len(w) : w[k] # v
    BY <1>1
  <1>3. QED
    BY <1>2, CountNone

\* Zeros put at the end keep the invariant, with no copy made.
LEMMA ZerosKeep ==
  ASSUME ArrayInv, NEW w \in Seq(Elems), \A k \in 1 .. Len(w) : w[k] = ZERO,
         arr' = [Copy(Reserve(arr, Len(w)), arr.i, w) EXCEPT !.i = @ + Len(w)],
         content' = content \o w, alive' = alive
  PROVE  ArrayInv'
  <1>1. HoldsElements(arr, content) /\ content \in Seq(Elems) /\ arr.i \in Nat /\ arr.i <= arr.i
    BY DEF ArrayInv, HoldsElements, IsArray
  <1>2. arr' = Inserted(arr, arr.i, w) /\ content' = Replaced(content, arr.i, arr.i, w)
    BY <1>1, AtTheEnd
  <1>3. DOMAIN alive' = Values
    BY DEF ArrayInv
  <1>4. ASSUME NEW v \in Values PROVE alive'[v] = alive[v] + Count(w, v)
    <2>1. Count(w, v) = 0
      BY ZerosAreNoCopies
    <2>2. alive[v] \in Nat
      <3>1. alive[v] = Count(content, v)
        BY DEF ArrayInv, CopiesAreOwned
      <3>2. Count(content, v) \in Nat
        BY <1>1, OccurrencesFinite
      <3>3. QED
        BY <3>1, <3>2
    <2>3. QED
      BY <2>1, <2>2
  <1>5. QED
    BY <1>1, <1>2, <1>3, <1>4, InsertKeeps

LEMMA ExtendKeeps ==
  ASSUME ArrayInv, Extend_back
  PROVE  ArrayInv'
  <1>1. IsArray(arr) /\ content \in Seq(Elems) /\ 1 \in Nat
    BY DEF ArrayInv, HoldsElements
  <1>2. <<ZERO>> \in Seq(Elems) /\ Len(<<ZERO>>) = 1 /\ \A k \in 1 .. Len(<<ZERO>>) : <<ZERO>>[k] = ZERO
    BY DEF Elems
  <1>3. Reserve(arr, 1).i = arr.i
    BY <1>1, ReserveIs
  <1>4. arr' = [Copy(Reserve(arr, Len(<<ZERO>>)), arr.i, <<ZERO>>) EXCEPT !.i = @ + Len(<<ZERO>>)]
    BY <1>2, <1>3 DEF Extend_back
  <1>5. content' = content \o <<ZERO>>
    BY <1>1, <1>2 DEF Extend_back
  <1>6. alive' = alive
    BY DEF Extend_back
  <1>7. QED
    BY <1>2, <1>4, <1>5, <1>6, ZerosKeep

LEMMA InsertActionKeeps ==
  ASSUME ArrayInv, NEW v \in Values, NEW j \in Nat, Insert(v, j)
  PROVE  ArrayInv'
  <1>1. /\ HoldsElements(arr, content) /\ IsArray(arr) /\ content \in Seq(Elems)
        /\ arr.i \in Nat /\ arr.n \in Nat /\ arr.i <= arr.n
    BY DEF ArrayInv, HoldsElements, IsArray
  <1>2. <<v>> \in Seq(Elems) /\ Len(<<v>>) = 1
    BY DEF Elems
  <1>3. CASE j > arr.i
    <2> DEFINE r == Reserve(arr, 1)
    <2>1. arr' = r /\ content' = content /\ alive' = alive
      BY <1>3 DEF Insert
    <2>2. 1 \in Nat
      OBVIOUS
    <2>3. /\ IsArray(r) /\ r.i = arr.i
          /\ \A k \in 0 .. arr.n - 1 : r.d[k] = arr.d[k]
      BY <1>1, <2>2, ReserveIs
    <2> HIDE DEF r
    <2>4. \A k \in 1 .. r.i : r.d[k - 1] = content[k]
      <3>1. ASSUME NEW k \in 1 .. arr.i PROVE r.d[k - 1] = content[k]
        <4>1. k - 1 \in 0 .. arr.n - 1
          BY <1>1
        <4>2. r.d[k - 1] = arr.d[k - 1]
          BY <2>3, <4>1
        <4>3. QED
          BY <4>2 DEF ArrayInv, HoldsElements
      <3>2. QED
        BY <2>3, <3>1
    <2>5. HoldsElements(r, content)
      BY <2>3, <2>4 DEF ArrayInv, HoldsElements
    <2>6. QED
      BY <2>1, <2>5 DEF ArrayInv, CopiesAreOwned
  <1>4. CASE ~ (j > arr.i)
    <2>1. /\ arr' = [Copy(Open(Reserve(arr, 1), j, 1), j, <<v>>) EXCEPT !.i = @ + 1]
          /\ alive' = Made(<<v>>) /\ content' = InsertAt(content, j + 1, v)
      BY <1>4 DEF Insert
    <2>2. arr' = Inserted(arr, j, <<v>>)
      BY <1>2, <2>1 DEF Inserted
    <2>3. content' = Replaced(content, j, j, <<v>>)
      <3>1. (j + 1) - 1 = j
        OBVIOUS
      <3>2. QED
        BY <2>1, <3>1 DEF InsertAt, Replaced
    <2>4. DOMAIN alive' = Values /\ \A x \in Values : alive'[x] = alive[x] + Count(<<v>>, x)
      BY <2>1 DEF Made
    <2>5. j <= arr.i
      BY <1>1, <1>4
    <2>6. QED
      BY <1>2, <2>2, <2>3, <2>4, <2>5, InsertKeeps
  <1>5. QED
    BY <1>3, <1>4

LEMMA InsertaKeeps ==
  ASSUME ArrayInv, NEW w \in Others, NEW j \in Nat, Inserta(w, j)
  PROVE  ArrayInv'
  <1>1. w \in Seq(Elems) /\ j <= arr.i
    <2>1. PICK n \in 1 .. 2 : w \in [1 .. n -> Values]
      BY DEF Others
    <2>2. w \in [1 .. n -> Elems] /\ n \in Nat
      BY <2>1 DEF Elems
    <2>3. w \in Seq(Elems)
      BY <2>2
    <2>4. QED
      BY <2>3 DEF Inserta
  <1>2. arr' = Inserted(arr, j, w)
    BY DEF Inserta, Inserted
  <1>3. content' = Replaced(content, j, j, w)
    BY DEF Inserta, Replaced
  <1>4. DOMAIN alive' = Values /\ \A v \in Values : alive'[v] = alive[v] + Count(w, v)
    BY DEF Inserta, Made
  <1>5. QED
    BY <1>1, <1>2, <1>3, <1>4, InsertKeeps

\* utarray_resize in both directions: what is cut off is freed, and what is
\* added is cleared.
LEMMA ResizeKeeps ==
  ASSUME ArrayInv, NEW num \in Nat, Resize(num)
  PROVE  ArrayInv'
  <1>1. /\ HoldsElements(arr, content) /\ IsArray(arr) /\ content \in Seq(Elems)
        /\ arr.i \in Nat
    BY DEF ArrayInv, HoldsElements, IsArray
  <1> DEFINE zeros == [k \in 1 .. num - arr.i |-> ZERO]
  <1>2. CASE num < arr.i
    <2>1. ~ (arr.i < num) /\ num <= arr.i
      BY <1>1, <1>2
    <2>2. /\ arr' = [arr EXCEPT !.i = num] /\ content' = SubSeq(content, 1, num)
          /\ alive' = Freed(Slice(arr, num, arr.i))
      BY <1>2, <2>1 DEF Resize
    <2>3. /\ Erased(arr, num, arr.i - num) = [arr EXCEPT !.i = num]
          /\ Replaced(content, num, num + (arr.i - num), <<>>) = SubSeq(content, 1, num)
          /\ arr.i - num \in Nat /\ num + (arr.i - num) = arr.i
      BY <1>1, <2>1, CutAtTheEnd
    <2>4. num + (arr.i - num) <= arr.i
      BY <1>1, <2>3
    <2> DEFINE len == arr.i - num
    <2>5. /\ arr' = Erased(arr, num, len) /\ len \in Nat /\ num + len <= arr.i
          /\ content' = Replaced(content, num, num + len, <<>>)
          /\ alive' = Freed(Slice(arr, num, num + len))
      BY <2>2, <2>3, <2>4
    <2> HIDE DEF len
    <2>6. QED
      BY <2>5, EraseKeeps
  <1>3. CASE num = arr.i
    <2>1. ~ (arr.i < num) /\ ~ (num < arr.i)
      BY <1>1, <1>3
    <2>2. zeros = <<>>
      BY <1>1, <1>3
    <2>3. content' = content \o zeros /\ alive' = alive /\ arr' = [arr EXCEPT !.i = num]
      BY <2>1 DEF Resize
    <2>4. content' = content
      <3>1. content \o <<>> = content
        BY <1>1
      <3>2. QED
        BY <2>2, <2>3, <3>1
    <2>5. arr' = arr
      BY <1>1, <1>3, <2>3 DEF IsArray
    <2>6. QED
      BY <2>3, <2>4, <2>5 DEF ArrayInv, CopiesAreOwned
  <1>4. CASE arr.i < num
    <2>1. ~ (num < arr.i) /\ num - arr.i \in Nat /\ arr.i + (num - arr.i) = num
      BY <1>1, <1>4
    <2>2. /\ arr' = [Copy(Reserve(arr, num - arr.i), arr.i, zeros) EXCEPT !.i = num]
          /\ content' = content \o zeros /\ alive' = alive
      BY <1>4, <2>1 DEF Resize
    <2>3. zeros \in Seq(Elems) /\ Len(zeros) = num - arr.i /\ \A k \in 1 .. Len(zeros) : zeros[k] = ZERO
      BY <2>1 DEF Elems
    <2> HIDE DEF zeros
    <2>4. Copy(Reserve(arr, num - arr.i), arr.i, zeros).i = arr.i
      <3>1. IsArray(Reserve(arr, num - arr.i)) /\ Reserve(arr, num - arr.i).i = arr.i
        BY <1>1, <2>1, ReserveIs
      <3>2. IsCopy(Copy(Reserve(arr, num - arr.i), arr.i, zeros), Reserve(arr, num - arr.i), arr.i, zeros)
        BY <1>1, <3>1, CopyIs
      <3>3. QED
        BY <3>1, <3>2 DEF IsCopy
    <2>5. arr' = [Copy(Reserve(arr, Len(zeros)), arr.i, zeros) EXCEPT !.i = @ + Len(zeros)]
      BY <2>1, <2>2, <2>3, <2>4
    <2>6. QED
      BY <2>2, <2>3, <2>5, ZerosKeep
  <1>5. QED
    BY <1>1, <1>2, <1>3, <1>4

LEMMA EraseActionKeeps ==
  ASSUME ArrayInv, NEW pos \in Nat, NEW len \in Nat, Erase(pos, len)
  PROVE  ArrayInv'
  <1>1. pos + len <= arr.i /\ arr' = Erased(arr, pos, len)
    BY DEF Erase, Erased
  <1>2. content' = Replaced(content, pos, pos + len, <<>>)
    <2>1. content \in Seq(Elems)
      BY DEF ArrayInv, HoldsElements
    <2>2. SubSeq(content, 1, pos) \o <<>> = SubSeq(content, 1, pos)
      <3> DEFINE b == SubSeq(content, 1, pos)
      <3>1. b \in Seq(Elems)
        BY <1>1, <2>1 DEF ArrayInv, HoldsElements, IsArray
      <3> HIDE DEF b
      <3>2. b \o <<>> = b
        BY <3>1
      <3>3. QED
        BY <3>2 DEF b
    <2>3. content' = SubSeq(content, 1, pos) \o SubSeq(content, pos + len + 1, Len(content))
      BY DEF Erase
    <2>4. QED
      BY <2>2, <2>3 DEF Replaced
  <1>3. alive' = Freed(Slice(arr, pos, pos + len))
    BY DEF Erase
  <1>4. QED
    BY <1>1, <1>2, <1>3, EraseKeeps

LEMMA PopKeeps ==
  ASSUME ArrayInv, Pop_back
  PROVE  ArrayInv'
  <1>1. HoldsElements(arr, content) /\ arr.i \in Nat /\ Len(content) = arr.i /\ arr.i > 0
    BY DEF ArrayInv, HoldsElements, IsArray, Pop_back
  <1> DEFINE num == arr.i - 1
  <1>2. num \in Nat /\ num <= arr.i /\ arr.i - num = 1 /\ num + 1 = arr.i
    BY <1>1
  <1>3. Slice(arr, num, num + 1) = <<arr.d[arr.i - 1]>>
    <2>1. Slice(arr, num, num + 1) = [k \in 1 .. 1 |-> arr.d[num + k - 1]]
      BY <1>2 DEF Slice
    <2>2. \A k \in 1 .. 1 : num + k - 1 = arr.i - 1
      BY <1>2
    <2>3. QED
      BY <2>1, <2>2
  <1>4. /\ arr' = [arr EXCEPT !.i = num] /\ content' = SubSeq(content, 1, num)
        /\ alive' = Freed(<<arr.d[arr.i - 1]>>)
    <2>1. arr' = [arr EXCEPT !.i = num]
      BY DEF Pop_back
    <2>2. content' = SubSeq(content, 1, num)
      BY <1>1 DEF Pop_back, Front
    <2>3. QED
      BY <2>1, <2>2 DEF Pop_back
  <1> HIDE DEF num
  <1>5. /\ Erased(arr, num, arr.i - num) = [arr EXCEPT !.i = num]
        /\ Replaced(content, num, num + (arr.i - num), <<>>) = SubSeq(content, 1, num)
    BY <1>1, <1>2, CutAtTheEnd
  <1>6. /\ arr' = Erased(arr, num, 1) /\ content' = Replaced(content, num, num + 1, <<>>)
        /\ alive' = Freed(Slice(arr, num, num + 1)) /\ 1 \in Nat /\ num + 1 <= arr.i
    <2>1. arr' = Erased(arr, num, 1)
      BY <1>2, <1>4, <1>5
    <2>2. content' = Replaced(content, num, num + 1, <<>>)
      BY <1>2, <1>4, <1>5
    <2>3. alive' = Freed(Slice(arr, num, num + 1))
      BY <1>3, <1>4
    <2>4. num + 1 <= arr.i
      BY <1>1, <1>2
    <2>5. QED
      BY <2>1, <2>2, <2>3, <2>4
  <1>7. QED
    BY <1>2, <1>6, EraseKeeps

LEMMA ClearKeeps ==
  ASSUME ArrayInv, Clear_array
  PROVE  ArrayInv'
  <1>1. HoldsElements(arr, content) /\ arr.i \in Nat /\ 0 \in Nat /\ 0 <= arr.i
    BY DEF ArrayInv, HoldsElements, IsArray
  <1>2. /\ Erased(arr, 0, arr.i - 0) = [arr EXCEPT !.i = 0]
        /\ Replaced(content, 0, 0 + (arr.i - 0), <<>>) = SubSeq(content, 1, 0)
    BY <1>1, CutAtTheEnd
  <1>3. arr.i - 0 = arr.i /\ 0 + arr.i = arr.i /\ 0 + arr.i <= arr.i
    BY <1>1
  <1>4. SubSeq(content, 1, 0) = <<>>
    BY DEF ArrayInv, HoldsElements
  <1>5. /\ arr' = [arr EXCEPT !.i = 0] /\ content' = <<>> /\ alive' = Freed(Slice(arr, 0, 0 + arr.i))
    BY <1>3 DEF Clear_array, Elts
  <1>6. arr' = Erased(arr, 0, arr.i) /\ content' = Replaced(content, 0, 0 + arr.i, <<>>)
    BY <1>2, <1>3, <1>4, <1>5
  <1>7. QED
    BY <1>1, <1>3, <1>5, <1>6, EraseKeeps

\* The elements of an array that holds a sequence are that sequence.
LEMMA EltsAre ==
  ASSUME NEW a, NEW t, HoldsElements(a, t)
  PROVE  Elts(a) = t
  <1>1. t \in Seq(Elems) /\ Len(t) = a.i /\ a.i \in Nat /\ 0 \in Nat /\ 0 <= a.i /\ a.i <= a.i
    BY DEF HoldsElements, IsArray
  <1>2. Slice(a, 0, a.i) = SubSeq(t, 0 + 1, a.i)
    <2>1. \A from \in Nat, to \in Nat :
            from <= to /\ to <= a.i => Slice(a, from, to) = SubSeq(t, from + 1, to)
      BY SliceIs
    <2>2. QED
      BY <1>1, <2>1
  <1>3. SubSeq(t, 1, Len(t)) = t
    BY <1>1
  <1>4. QED
    BY <1>1, <1>2, <1>3 DEF Elts

\* An array without slots holds nothing.
LEMMA EmptyHolds == HoldsElements([i |-> 0, n |-> 0, d |-> <<>>], <<>>)
  <1> DEFINE a == [i |-> 0, n |-> 0, d |-> <<>>]
  <1>1. a.i = 0 /\ a.n = 0 /\ a.d = <<>> /\ DOMAIN <<>> = 0 .. 0 - 1
    OBVIOUS
  <1>2. IsArray(a)
    BY <1>1 DEF IsArray
  <1>3. <<>> \in Seq(Elems) /\ Len(<<>>) = 0
    OBVIOUS
  <1>4. QED
    BY <1>1, <1>2, <1>3 DEF HoldsElements

LEMMA NothingCounted ==
  ASSUME NEW v
  PROVE  Count(<<>>, v) = 0
  <1>1. <<>> \in Seq(Elems) /\ \A k \in 1 .. Len(<<>>) : <<>>[k] # v
    OBVIOUS
  <1>2. QED
    BY <1>1, CountNone

LEMMA RenewKeeps ==
  ASSUME ArrayInv, Renew_array
  PROVE  ArrayInv'
  <1>1. HoldsElements(arr', content')
    BY EmptyHolds DEF Renew_array
  <1>2. HoldsElements(arr, content) /\ content \in Seq(Elems) /\ Elts(arr) = content
    BY EltsAre DEF ArrayInv, HoldsElements
  <1>3. DOMAIN alive' = Values
    BY DEF Renew_array, Freed, ArrayInv
  <1>4. ASSUME NEW v \in Values PROVE alive'[v] = Count(content', v)
    <2>1. Count(content', v) = 0
      BY NothingCounted DEF Renew_array
    <2>2. alive[v] = Count(content, v) /\ Count(content, v) \in Nat
      BY <1>2, OccurrencesFinite DEF ArrayInv, CopiesAreOwned
    <2>3. CASE arr.n > 0
      <3>1. alive'[v] = alive[v] - Count(content, v)
        BY <1>2, <2>3 DEF Renew_array, Freed
      <3>2. QED
        BY <2>1, <2>2, <3>1
    <2>4. CASE ~ (arr.n > 0)
      <3>1. Len(content) = 0
        BY <1>2, <2>4 DEF HoldsElements, IsArray
      <3>2. content = <<>>
        BY <1>2, <3>1
      <3>3. alive'[v] = alive[v]
        BY <2>4 DEF Renew_array
      <3>4. QED
        BY <2>1, <2>2, <3>2, <3>3, NothingCounted
    <2>5. QED
      BY <2>3, <2>4
  <1>5. QED
    BY <1>1, <1>3, <1>4 DEF ArrayInv, CopiesAreOwned

LEMMA ArrayStep ==
  ASSUME ArrayInv, [ArrayNext]_arrayVars
  PROVE  ArrayInv'
  <1>1. \A j \in 0 .. MaxLength : j \in Nat
    OBVIOUS
  <1>2. ASSUME NEW v \in Values, Push_back(v) PROVE ArrayInv'
    BY <1>2, PushKeeps
  <1>3. ASSUME NEW v \in Values, NEW j \in 0 .. MaxLength, Insert(v, j) PROVE ArrayInv'
    BY <1>1, <1>3, InsertActionKeeps
  <1>4. ASSUME NEW w \in Others, NEW j \in 0 .. MaxLength, Inserta(w, j) PROVE ArrayInv'
    BY <1>1, <1>4, InsertaKeeps
  <1>5. ASSUME NEW num \in 0 .. MaxLength, Resize(num) PROVE ArrayInv'
    BY <1>1, <1>5, ResizeKeeps
  <1>6. ASSUME NEW pos \in 0 .. MaxLength, NEW len \in 0 .. MaxLength, Erase(pos, len)
        PROVE  ArrayInv'
    BY <1>1, <1>6, EraseActionKeeps
  <1>7. ASSUME UNCHANGED arrayVars PROVE ArrayInv'
    BY <1>7 DEF ArrayInv, CopiesAreOwned, arrayVars
  <1>8. QED
    BY <1>2, <1>3, <1>4, <1>5, <1>6, <1>7, PopKeeps, ExtendKeeps, ClearKeeps, RenewKeeps
       DEF ArrayNext

LEMMA ArrayStarts ==
  ASSUME ArrayInit
  PROVE  ArrayInv
  <1>1. HoldsElements(arr, content)
    BY EmptyHolds DEF ArrayInit
  <1>2. DOMAIN alive = Values /\ \A v \in Values : alive[v] = Count(content, v)
    BY NothingCounted DEF ArrayInit
  <1>3. QED
    BY <1>1, <1>2 DEF ArrayInv, CopiesAreOwned

(***************************************************************************)
(* After any sequence of insertions, removals, resizes and renewals the    *)
(* array has the elements that were put in, in their order and within its  *)
(* slots, and as many copies of a value are alive as it has elements of    *)
(* that value: utarray frees every copy it made once, with its element.    *)
(***************************************************************************)
THEOREM ArrayAlwaysKeeps == ArraySpec => []ArrayKeeps
  <1>1. ArrayInit => ArrayInv
    BY ArrayStarts
  <1>2. ArrayInv /\ [ArrayNext]_arrayVars => ArrayInv'
    BY ArrayStep
  <1>3. ASSUME ArrayInv PROVE ArrayKeeps
    <2>1. HoldsElements(arr, content)
      BY <1>3 DEF ArrayInv
    <2>2. Elts(arr) = content
      BY <2>1, EltsAre
    <2>3. arr.i <= arr.n /\ DOMAIN arr.d = 0 .. arr.n - 1 /\ arr.n \in Nat
      BY <2>1 DEF HoldsElements, IsArray
    <2>4. DOMAIN arr.d = IF arr.n = 0 THEN {} ELSE 0 .. arr.n - 1
      BY <2>3
    <2>5. ArrayHoldsContent
      BY <2>2, <2>3, <2>4 DEF ArrayHoldsContent
    <2>6. QED
      BY <1>3, <2>5 DEF ArrayInv, ArrayKeeps
  <1>4. ArrayInv => ArrayKeeps
    BY <1>3
  <1>5. QED
    BY <1>1, <1>2, <1>4, PTL DEF ArraySpec

USE HashAssumption

-----------------------------------------------------------------------------
(* Functions that a loop over 1 .. n computes.                             *)

\* A set with 0 and, below n, the successor of each of its members has all.
LEMMA AllUpto ==
  ASSUME NEW n \in Nat, NEW T, 0 \in T, \A k \in 0 .. n - 1 : k \in T => k + 1 \in T
  PROVE  0 .. n \subseteq T
  <1> DEFINE U == {k \in Nat : k <= n => k \in T}
  <1>1. 0 \in U
    OBVIOUS
  <1>2. ASSUME NEW k \in Nat, k \in U PROVE k + 1 \in U
    <2>1. SUFFICES ASSUME k + 1 <= n PROVE k + 1 \in T
      OBVIOUS
    <2>2. k \in 0 .. n - 1 /\ k \in T
      BY <1>2, <2>1
    <2>3. QED
      BY <2>2
  <1> HIDE DEF U
  <1>3. Nat \subseteq U
    BY <1>1, <1>2, NatAll
  <1>4. QED
    BY <1>3 DEF U

\* The function starts with a and goes on by step up to n.
Computes(S, a, step, n, f) ==
  f \in [0 .. n -> S] /\ f = [k \in 0 .. n |-> IF k = 0 THEN a ELSE step[<<k, f[k - 1]>>]]

\* A loop over 0 .. n that is written as a recursive function is one.
LEMMA LoopExists ==
  ASSUME NEW S, NEW a \in S, NEW n \in Nat, NEW step \in [(1 .. n) \X S -> S]
  PROVE  \E f : Computes(S, a, step, n, f)
  <1> DEFINE T == {m \in Nat : \E f : Computes(S, a, step, m, f)}
  <1>1. 0 \in T
    <2> DEFINE f == [k \in 0 .. 0 |-> a]
    <2>1. f \in [0 .. 0 -> S]
      OBVIOUS
    <2>2. f = [k \in 0 .. 0 |-> IF k = 0 THEN a ELSE step[<<k, f[k - 1]>>]]
      OBVIOUS
    <2> HIDE DEF f
    <2>3. Computes(S, a, step, 0, f)
      BY <2>1, <2>2 DEF Computes
    <2>4. QED
      BY <2>3
  <1>2. ASSUME NEW m \in 0 .. n - 1, m \in T PROVE m + 1 \in T
    <2>1. PICK g : Computes(S, a, step, m, g)
      BY <1>2
    <2> DEFINE f == [k \in 0 .. m + 1 |-> IF k = m + 1 THEN step[<<m + 1, g[m]>>] ELSE g[k]]
    <2>2. /\ g \in [0 .. m -> S]
          /\ \A k \in 0 .. m : g[k] = IF k = 0 THEN a ELSE step[<<k, g[k - 1]>>]
      BY <2>1 DEF Computes
    <2>3. m \in Nat /\ m + 1 \in 1 .. n /\ m \in 0 .. m
      BY <1>2
    <2>4. step[<<m + 1, g[m]>>] \in S
      BY <2>2, <2>3
    <2>5. f \in [0 .. m + 1 -> S]
      BY <2>2, <2>3, <2>4
    <2>6. ASSUME NEW k \in 0 .. m + 1
          PROVE  f[k] = IF k = 0 THEN a ELSE step[<<k, f[k - 1]>>]
      <3>1. CASE k = m + 1
        <4>1. k # 0 /\ k - 1 = m /\ k - 1 \in 0 .. m + 1 /\ m # m + 1
          BY <2>3, <3>1
        <4>2. f[k] = step[<<m + 1, g[m]>>] /\ f[k - 1] = g[m]
          BY <3>1, <4>1
        <4>3. QED
          BY <3>1, <4>1, <4>2
      <3>2. CASE k # m + 1
        <4>1. k \in 0 .. m /\ f[k] = g[k]
          BY <2>3, <3>2
        <4>2. CASE k = 0
          BY <2>2, <4>1, <4>2
        <4>3. CASE k # 0
          <5>1. k - 1 \in 0 .. m + 1 /\ k - 1 # m + 1 /\ k - 1 \in 0 .. m
            BY <2>3, <4>1, <4>3
          <5>2. f[k - 1] = g[k - 1]
            BY <5>1
          <5>3. g[k] = step[<<k, g[k - 1]>>]
            BY <2>2, <4>1, <4>3
          <5> HIDE DEF f
          <5>4. QED
            BY <4>1, <4>3, <5>2, <5>3
        <4>4. QED
          BY <4>2, <4>3
      <3>3. QED
        BY <3>1, <3>2
    <2>7. f = [k \in 0 .. m + 1 |-> f[k]]
      OBVIOUS
    <2> HIDE DEF f
    <2>8. f = [k \in 0 .. m + 1 |-> IF k = 0 THEN a ELSE step[<<k, f[k - 1]>>]]
      BY <2>6, <2>7
    <2>9. Computes(S, a, step, m + 1, f)
      BY <2>5, <2>8 DEF Computes
    <2>10. QED
      BY <2>3, <2>9
  <1> HIDE DEF T
  <1>3. n \in T
    <2>1. 0 .. n \subseteq T
      BY <1>1, <1>2, AllUpto
    <2>2. QED
      BY <2>1
  <1>4. QED
    BY <1>3 DEF T
-----------------------------------------------------------------------------
(* The merge sort.                                                         *)

In(x, s) == \E k \in 1 .. Len(s) : s[k] = x

\* x comes before y: by rank, and for equal rank by its place before.
Less(rank, place, x, y) ==
  rank[x] < rank[y] \/ (rank[x] = rank[y] /\ place[x] < place[y])

Ascends(rank, place, s) ==
  \A k, l \in 1 .. Len(s) : k < l => Less(rank, place, s[k], s[l])

\* The numbers of elements that the merge has taken.
Takes(rank, p, q, i) ==
  /\ i \in [0 .. Len(p) + Len(q) -> Nat] /\ i[0] = 0
  /\ \A k \in 1 .. Len(p) + Len(q) :
       i[k] = IF FromFirst(rank, p, q, i[k - 1], k - 1 - i[k - 1])
              THEN i[k - 1] + 1 ELSE i[k - 1]

\* The merge takes the elements of p and q one by one.
LEMMA TakenTakes ==
  ASSUME NEW S, NEW p \in Seq(S), NEW q \in Seq(S), NEW rank
  PROVE  Takes(rank, p, q, Taken(rank, p, q))
  <1> DEFINE n == Len(p) + Len(q)
             Next1(k, b) == IF FromFirst(rank, p, q, b, k - 1 - b) THEN b + 1 ELSE b
             step == [x \in (1 .. n) \X Nat |-> Next1(x[1], x[2])]
             Is(g) == g = [k \in 0 .. n |-> IF k = 0 THEN 0 ELSE Next1(k, g[k - 1])]
  <1>1. n \in Nat
    OBVIOUS
  <1>2. step \in [(1 .. n) \X Nat -> Nat]
    <2> HIDE DEF n
    <2>1. \A k \in 1 .. n, b \in Nat : Next1(k, b) \in Nat
      OBVIOUS
    <2> HIDE DEF Next1
    <2>2. QED
      BY <2>1
  <1>3. PICK f : Computes(Nat, 0, step, n, f)
    <2> HIDE DEF n, step
    <2>1. QED
      BY <1>1, <1>2, LoopExists
  <1>4. f \in [0 .. n -> Nat] /\ f = [k \in 0 .. n |-> IF k = 0 THEN 0 ELSE step[<<k, f[k - 1]>>]]
    BY <1>3 DEF Computes
  <1>5. Is(f)
    <2> HIDE DEF n
    <2>1. ASSUME NEW k \in 0 .. n, k # 0 PROVE step[<<k, f[k - 1]>>] = Next1(k, f[k - 1])
      <3>1. k \in 1 .. n /\ k - 1 \in 0 .. n
        BY <1>1, <2>1
      <3>2. f[k - 1] \in Nat
        BY <1>4, <3>1
      <3> HIDE DEF Next1
      <3>3. QED
        BY <3>1, <3>2
    <2> HIDE DEF step, Next1
    <2>2. QED
      BY <1>4, <2>1
  <1>6. Taken(rank, p, q) = CHOOSE g : Is(g)
    BY DEF Taken
  <1> DEFINE i == Taken(rank, p, q)
  <1>7. Is(i)
    <2> HIDE DEF Is, i
    <2>1. QED
      BY <1>5, <1>6 DEF i
  <1> HIDE DEF i, n, step
  <1>8. i = [k \in 0 .. n |-> IF k = 0 THEN 0 ELSE Next1(k, i[k - 1])]
    BY <1>7
  <1>9. i[0] = 0 /\ \A k \in 1 .. n : i[k] = Next1(k, i[k - 1])
    <2> HIDE DEF Next1, Is
    <2>1. QED
      BY <1>1, <1>8
  <1>10. i \in [0 .. n -> Nat]
    <2> DEFINE T == {k \in 0 .. n : i[k] \in Nat}
    <2>1. 0 \in T
      BY <1>1, <1>9
    <2>2. ASSUME NEW k \in 0 .. n - 1, k \in T PROVE k + 1 \in T
      <3>1. k + 1 \in 1 .. n /\ k + 1 \in 0 .. n /\ (k + 1) - 1 = k
        BY <1>1, <2>2
      <3>2. i[k + 1] = Next1(k + 1, i[k])
        BY <1>9, <3>1
      <3>3. Next1(k + 1, i[k]) \in Nat
        BY <2>2
      <3>4. QED
        BY <3>1, <3>2, <3>3
    <2> HIDE DEF T
    <2>3. 0 .. n \subseteq T
      BY <1>1, <2>1, <2>2, AllUpto
    <2>4. \A k \in 0 .. n : i[k] \in Nat
      BY <2>3 DEF T
    <2>5. i = [k \in 0 .. n |-> i[k]]
      <3> HIDE DEF Next1
      <3>1. QED
        BY <1>8
    <2>6. QED
      BY <2>4, <2>5
  <1>11. QED
    BY <1>9, <1>10 DEF Takes, i, n

\* The merge takes from both in turn until both are used up.
LEMMA TakesBoth ==
  ASSUME NEW S, NEW p \in Seq(S), NEW q \in Seq(S), NEW rank, NEW i, Takes(rank, p, q, i)
  PROVE  /\ \A k \in 0 .. Len(p) + Len(q) : i[k] \in 0 .. Len(p) /\ k - i[k] \in 0 .. Len(q)
         /\ i[Len(p) + Len(q)] = Len(p)
         /\ \A k, l \in 0 .. Len(p) + Len(q) : k <= l => i[k] <= i[l] /\ k - i[k] <= l - i[l]
  <1> DEFINE n == Len(p) + Len(q)
             lp == Len(p)
             lq == Len(q)
             T == {k \in 0 .. n : i[k] \in 0 .. lp /\ k - i[k] \in 0 .. lq}
  <1>1. lp \in Nat /\ lq \in Nat /\ n = lp + lq /\ n \in Nat
    OBVIOUS
  <1>2. /\ i \in [0 .. n -> Nat] /\ i[0] = 0
        /\ \A k \in 1 .. n : i[k] = IF FromFirst(rank, p, q, i[k - 1], k - 1 - i[k - 1])
                                    THEN i[k - 1] + 1 ELSE i[k - 1]
    BY DEF Takes
  <1>3. ASSUME NEW b, NEW j, FromFirst(rank, p, q, b, j) PROVE b < lp
    BY <1>3 DEF FromFirst
  <1>4. ASSUME NEW b, NEW j, ~ FromFirst(rank, p, q, b, j) PROVE ~ (b < lp) \/ j < lq
    BY <1>4 DEF FromFirst
  <1> HIDE DEF n, lp, lq
  <1>5. 0 \in T
    BY <1>1, <1>2
  <1>6. ASSUME NEW k \in 0 .. n - 1, k \in T PROVE k + 1 \in T
    <2>1. k + 1 \in 1 .. n /\ k + 1 \in 0 .. n /\ (k + 1) - 1 = k /\ k \in 0 .. n
      BY <1>1, <1>6
    <2>2. i[k] \in 0 .. lp /\ k - i[k] \in 0 .. lq
      BY <1>6
    <2>3. CASE FromFirst(rank, p, q, i[k], k - i[k])
      <3>1. i[k + 1] = i[k] + 1
        BY <1>2, <2>1, <2>3
      <3>2. i[k] < lp
        BY <1>3, <2>3
      <3>3. k \in Nat /\ i[k] \in Nat /\ i[k + 1] \in Nat
        BY <1>1, <2>1, <2>2, <3>1
      <3>4. i[k + 1] <= lp /\ (k + 1) - i[k + 1] >= 0 /\ (k + 1) - i[k + 1] <= lq
        <4> DEFINE a == i[k]
                   b == i[k + 1]
        <4>1. a \in Nat /\ b \in Nat /\ a <= lp /\ k - a >= 0 /\ k - a <= lq
          BY <2>2, <3>3
        <4>2. (b = a + 1 /\ a < lp) \/ (b = a /\ (~ (a < lp) \/ k - a < lq))
          BY <3>1, <3>2
        <4>3. k < lp + lq
          BY <1>1, <1>6
        <4> HIDE DEF a, b
        <4>4. b <= lp /\ (k + 1) - b >= 0 /\ (k + 1) - b <= lq
          BY <1>1, <3>3, <4>1, <4>2, <4>3
        <4>5. QED
          BY <4>4 DEF b
      <3>5. QED
        BY <1>1, <2>1, <3>3, <3>4
    <2>4. CASE ~ FromFirst(rank, p, q, i[k], k - i[k])
      <3>1. i[k + 1] = i[k]
        BY <1>2, <2>1, <2>4
      <3>2. ~ (i[k] < lp) \/ k - i[k] < lq
        BY <1>4, <2>4
      <3>3. k \in Nat /\ i[k] \in Nat /\ i[k + 1] \in Nat
        BY <1>1, <2>1, <2>2, <3>1
      <3>4. i[k + 1] <= lp /\ (k + 1) - i[k + 1] >= 0 /\ (k + 1) - i[k + 1] <= lq
        <4> DEFINE a == i[k]
                   b == i[k + 1]
        <4>1. a \in Nat /\ b \in Nat /\ a <= lp /\ k - a >= 0 /\ k - a <= lq
          BY <2>2, <3>3
        <4>2. (b = a + 1 /\ a < lp) \/ (b = a /\ (~ (a < lp) \/ k - a < lq))
          BY <3>1, <3>2
        <4>3. k < lp + lq
          BY <1>1, <1>6
        <4> HIDE DEF a, b
        <4>4. b <= lp /\ (k + 1) - b >= 0 /\ (k + 1) - b <= lq
          BY <1>1, <3>3, <4>1, <4>2, <4>3
        <4>5. QED
          BY <4>4 DEF b
      <3>5. QED
        BY <1>1, <2>1, <3>3, <3>4
    <2>5. QED
      BY <2>3, <2>4
  <1> HIDE DEF T
  <1>7. 0 .. n \subseteq T
    BY <1>1, <1>5, <1>6, AllUpto
  <1>8. \A k \in 0 .. n : i[k] \in 0 .. lp /\ k - i[k] \in 0 .. lq
    BY <1>7 DEF T
  <1>9. i[n] = lp
    BY <1>1, <1>8
  <1>10. ASSUME NEW k \in 0 .. n
         PROVE  \A l \in 0 .. n : k <= l => i[k] <= i[l] /\ k - i[k] <= l - i[l]
    <2> DEFINE U == {l \in 0 .. n : k <= l => i[k] <= i[l] /\ k - i[k] <= l - i[l]}
    <2>1. 0 \in U
      BY <1>1, <1>10, <1>2
    <2>2. ASSUME NEW l \in 0 .. n - 1, l \in U PROVE l + 1 \in U
      <3>1. l + 1 \in 1 .. n /\ l + 1 \in 0 .. n /\ (l + 1) - 1 = l /\ l \in 0 .. n
        BY <1>1, <2>2
      <3>2. i[k] \in Nat /\ i[l] \in Nat /\ (i[l + 1] = i[l] + 1 \/ i[l + 1] = i[l])
        BY <1>2, <3>1
      <3>3. CASE k <= l
        <4>1. i[k] <= i[l] /\ k - i[k] <= l - i[l]
          BY <2>2, <3>3
        <4>2. i[k] <= i[l + 1] /\ k - i[k] <= (l + 1) - i[l + 1]
          <5> DEFINE a == i[k]
                     b == i[l]
                     c == i[l + 1]
          <5>1. a \in Nat /\ b \in Nat /\ (c = b + 1 \/ c = b) /\ k \in Nat /\ l \in Nat
            BY <1>1, <1>10, <3>1, <3>2
          <5>2. a <= b /\ k - a <= l - b
            BY <4>1
          <5> HIDE DEF a, b, c
          <5>3. a <= c /\ k - a <= (l + 1) - c
            BY <5>1, <5>2
          <5>4. QED
            BY <5>3 DEF a, c
        <4>3. QED
          BY <3>1, <4>2
      <3>4. CASE ~ (k <= l)
        <4>1. SUFFICES ASSUME k <= l + 1 PROVE i[k] <= i[l + 1] /\ k - i[k] <= (l + 1) - i[l + 1]
          BY <3>1
        <4>2. k = l + 1
          BY <1>10, <2>2, <3>4, <4>1
        <4>3. QED
          BY <3>1, <3>2, <4>2
      <3>5. QED
        BY <3>3, <3>4
    <2> HIDE DEF U
    <2>3. 0 .. n \subseteq U
      BY <1>1, <2>1, <2>2, AllUpto
    <2>4. QED
      BY <2>3 DEF U
  <1>11. QED
    BY <1>8, <1>9, <1>10 DEF n, lp, lq
\* The k-th element of the merge m is the next of p or the next of q.
PicksFirst(rank, p, q, i, m, k) ==
  /\ FromFirst(rank, p, q, i[k] - 1, k - i[k])
  /\ i[k] \in 1 .. Len(p) /\ i[k - 1] = i[k] - 1 /\ m[k] = p[i[k]]

PicksSecond(rank, p, q, i, m, k) ==
  /\ ~ FromFirst(rank, p, q, i[k], k - 1 - i[k])
  /\ k - i[k] \in 1 .. Len(q) /\ i[k - 1] = i[k] /\ m[k] = q[k - i[k]]

\* The k-th element of a merge is the next of p or the next of q.
LEMMA MergePicks ==
  ASSUME NEW S, NEW p \in Seq(S), NEW q \in Seq(S), NEW rank
  PROVE  /\ Merge(rank, p, q) \in Seq(S) /\ Len(Merge(rank, p, q)) = Len(p) + Len(q)
         /\ \A k \in 1 .. Len(p) + Len(q) :
              \/ PicksFirst(rank, p, q, Taken(rank, p, q), Merge(rank, p, q), k)
              \/ PicksSecond(rank, p, q, Taken(rank, p, q), Merge(rank, p, q), k)
  <1> DEFINE n == Len(p) + Len(q)
             i == Taken(rank, p, q)
             Pick(a, b) == IF FromFirst(rank, p, q, a, b) THEN p[a + 1] ELSE q[b + 1]
             m == [k \in 1 .. n |-> Pick(i[k - 1], k - 1 - i[k - 1])]
  <1>1. n \in Nat /\ Len(p) \in Nat /\ Len(q) \in Nat
    OBVIOUS
  <1>2. Merge(rank, p, q) = m
    BY DEF Merge
  <1>3. Takes(rank, p, q, i)
    BY TakenTakes
  <1>4. \A k \in 0 .. n : i[k] \in 0 .. Len(p) /\ k - i[k] \in 0 .. Len(q)
    BY <1>3, TakesBoth
  <1>5. \A k \in 1 .. n : i[k] = IF FromFirst(rank, p, q, i[k - 1], k - 1 - i[k - 1])
                                 THEN i[k - 1] + 1 ELSE i[k - 1]
    BY <1>3 DEF Takes
  <1>6. \A k \in 1 .. n : m[k] = Pick(i[k - 1], k - 1 - i[k - 1])
    OBVIOUS
  <1>7. DOMAIN m = 1 .. n
    OBVIOUS
  <1> HIDE DEF n, i, m
  <1>8. ASSUME NEW k \in 1 .. n
        PROVE  PicksFirst(rank, p, q, i, m, k) \/ PicksSecond(rank, p, q, i, m, k)
    <2> DEFINE a == i[k]
               b == i[k - 1]
    <2>1. k \in 0 .. n /\ k - 1 \in 0 .. n /\ k \in Nat
      BY <1>1, <1>8
    <2>2. a \in 0 .. Len(p) /\ k - a \in 0 .. Len(q) /\ b \in 0 .. Len(p) /\ k - 1 - b \in 0 .. Len(q)
      BY <1>4, <2>1
    <2>3. CASE FromFirst(rank, p, q, b, k - 1 - b)
      <3>1. a = b + 1 /\ m[k] = p[b + 1]
        BY <1>5, <1>6, <1>8, <2>3
      <3> HIDE DEF a, b
      <3>2. a - 1 = b /\ k - a = k - 1 - b /\ a \in 1 .. Len(p)
        BY <1>1, <2>1, <2>2, <3>1
      <3>3. FromFirst(rank, p, q, a - 1, k - a) /\ m[k] = p[a]
        BY <2>3, <3>1, <3>2
      <3>4. QED
        BY <3>2, <3>3 DEF PicksFirst, a, b
    <2>4. CASE ~ FromFirst(rank, p, q, b, k - 1 - b)
      <3>1. a = b /\ m[k] = q[(k - 1 - b) + 1]
        BY <1>5, <1>6, <1>8, <2>4
      <3> HIDE DEF a, b
      <3>2. (k - 1 - b) + 1 = k - a /\ k - a \in 1 .. Len(q)
        BY <1>1, <2>1, <2>2, <3>1
      <3>3. ~ FromFirst(rank, p, q, a, k - 1 - a) /\ m[k] = q[k - a]
        BY <2>4, <3>1, <3>2
      <3>4. QED
        BY <3>1, <3>2, <3>3 DEF PicksSecond, a, b
    <2>5. QED
      BY <2>3, <2>4
  <1>9. \A k \in 1 .. n : m[k] \in S
    <2>1. ASSUME NEW k \in 1 .. n PROVE m[k] \in S
      <3>1. CASE PicksFirst(rank, p, q, i, m, k)
        BY <3>1 DEF PicksFirst
      <3>2. CASE PicksSecond(rank, p, q, i, m, k)
        BY <3>2 DEF PicksSecond
      <3>3. QED
        BY <1>8, <2>1, <3>1, <3>2
    <2>2. QED
      BY <2>1
  <1>10. m = [k \in 1 .. n |-> m[k]]
    BY DEF m
  <1>11. m \in [1 .. n -> S]
    BY <1>9, <1>10
  <1>12. m \in Seq(S) /\ Len(m) = n
    BY <1>1, <1>7, <1>11
  <1>13. QED
    BY <1>2, <1>8, <1>12 DEF n, i

\* Every element of p and of q is in the merge, and no other.
LEMMA MergeHasBoth ==
  ASSUME NEW S, NEW p \in Seq(S), NEW q \in Seq(S), NEW rank, NEW x
  PROVE  In(x, Merge(rank, p, q)) <=> In(x, p) \/ In(x, q)
  <1> DEFINE n == Len(p) + Len(q)
             i == Taken(rank, p, q)
             m == Merge(rank, p, q)
  <1>1. n \in Nat /\ Len(p) \in Nat /\ Len(q) \in Nat /\ n = Len(p) + Len(q)
    OBVIOUS
  <1>2. Takes(rank, p, q, i)
    BY TakenTakes
  <1>3. /\ \A k \in 0 .. n : i[k] \in 0 .. Len(p) /\ k - i[k] \in 0 .. Len(q)
        /\ i[n] = Len(p)
    BY <1>2, TakesBoth
  <1>4. i[0] = 0
    BY <1>2 DEF Takes
  <1>5. /\ Len(m) = n
        /\ \A k \in 1 .. n : PicksFirst(rank, p, q, i, m, k) \/ PicksSecond(rank, p, q, i, m, k)
    BY MergePicks
  <1> HIDE DEF n, i, m
  <1>6. ASSUME In(x, m) PROVE In(x, p) \/ In(x, q)
    <2>1. PICK k \in 1 .. n : m[k] = x
      BY <1>5, <1>6 DEF In
    <2>2. CASE PicksFirst(rank, p, q, i, m, k)
      BY <2>1, <2>2 DEF PicksFirst, In
    <2>3. CASE PicksSecond(rank, p, q, i, m, k)
      BY <2>1, <2>3 DEF PicksSecond, In
    <2>4. QED
      BY <1>5, <2>2, <2>3
  <1>7. ASSUME NEW a \in 1 .. Len(p), p[a] = x PROVE In(x, m)
    <2> DEFINE T == {k \in Nat : k <= n /\ i[k] >= a}
    <2>1. n \in T
      BY <1>1, <1>3
    <2>2. PICK k \in T : \A l \in T : k <= l
      <3>1. T \subseteq Nat /\ T # {}
        BY <2>1
      <3> HIDE DEF T
      <3>2. QED
        BY <3>1, NatMin
    <2>3. k \in 0 .. n /\ i[k] >= a
      BY <1>1, <2>2
    <2>4. k # 0
      BY <1>4, <1>7, <2>3, <1>1
    <2>5. k \in 1 .. n /\ k - 1 \in 0 .. n /\ k - 1 \in Nat /\ ~ (k <= k - 1)
      BY <1>1, <2>3, <2>4
    <2>6. k - 1 \notin T
      BY <2>2, <2>5
    <2>7. i[k - 1] < a
      <3>1. i[k - 1] \in Nat /\ k - 1 <= n
        BY <1>1, <1>3, <2>5
      <3>2. ~ (i[k - 1] >= a)
        BY <2>5, <2>6, <3>1
      <3>3. QED
        BY <1>1, <1>7, <3>1, <3>2
    <2>8. i[k] \in Nat /\ i[k - 1] \in Nat
      <3>1. \A l \in 0 .. n : i[l] \in 0 .. Len(p)
        BY <1>3
      <3>2. i[k] \in 0 .. Len(p) /\ i[k - 1] \in 0 .. Len(p)
        BY <2>3, <2>5, <3>1
      <3>3. QED
        BY <1>1, <3>2
    <2>9. CASE PicksFirst(rank, p, q, i, m, k)
      <3>1. i[k - 1] = i[k] - 1 /\ m[k] = p[i[k]]
        BY <2>9 DEF PicksFirst
      <3>2. i[k] = a
        <4> DEFINE c == i[k]
                   d == i[k - 1]
        <4>1. c \in Nat /\ d \in Nat /\ c >= a /\ d < a /\ d = c - 1 /\ a \in Nat
          BY <1>1, <1>7, <2>3, <2>7, <2>8, <3>1
        <4> HIDE DEF c, d
        <4>2. c = a
          BY <4>1
        <4>3. QED
          BY <4>2 DEF c
      <3>3. QED
        BY <1>5, <1>7, <2>5, <3>1, <3>2 DEF In
    <2>10. CASE PicksSecond(rank, p, q, i, m, k)
      <3>1. i[k - 1] = i[k]
        BY <2>10 DEF PicksSecond
      <3>2. QED
        BY <1>1, <1>7, <2>3, <2>7, <2>8, <3>1
    <2>11. QED
      BY <1>5, <2>5, <2>9, <2>10
  <1>8. ASSUME NEW b \in 1 .. Len(q), q[b] = x PROVE In(x, m)
    <2> DEFINE T == {k \in Nat : k <= n /\ k - i[k] >= b}
    <2>1. n \in T
      BY <1>1, <1>3
    <2>2. PICK k \in T : \A l \in T : k <= l
      <3>1. T \subseteq Nat /\ T # {}
        BY <2>1
      <3> HIDE DEF T
      <3>2. QED
        BY <3>1, NatMin
    <2>3. k \in 0 .. n /\ k - i[k] >= b
      BY <1>1, <2>2
    <2>4. k # 0
      BY <1>4, <1>8, <2>3, <1>1
    <2>5. k \in 1 .. n /\ k - 1 \in 0 .. n /\ k - 1 \in Nat /\ ~ (k <= k - 1) /\ k \in Nat
      BY <1>1, <2>3, <2>4
    <2>6. k - 1 \notin T
      BY <2>2, <2>5
    <2>7. k - 1 - i[k - 1] < b
      <3>1. i[k - 1] \in Nat /\ k - 1 <= n
        BY <1>1, <1>3, <2>5
      <3>2. ~ (k - 1 - i[k - 1] >= b)
        BY <2>5, <2>6, <3>1
      <3>3. QED
        BY <1>1, <1>8, <2>5, <3>1, <3>2
    <2>8. i[k] \in Nat /\ i[k - 1] \in Nat
      <3>1. \A l \in 0 .. n : i[l] \in 0 .. Len(p)
        BY <1>3
      <3>2. i[k] \in 0 .. Len(p) /\ i[k - 1] \in 0 .. Len(p)
        BY <2>3, <2>5, <3>1
      <3>3. QED
        BY <1>1, <3>2
    <2>9. CASE PicksFirst(rank, p, q, i, m, k)
      <3>1. i[k - 1] = i[k] - 1
        BY <2>9 DEF PicksFirst
      <3>2. k - 1 - i[k - 1] = k - i[k]
        BY <2>5, <2>8, <3>1
      <3>3. k - i[k] < b
        BY <2>7, <3>2
      <3> DEFINE c == k - i[k]
      <3>4. c \in Int /\ b \in Nat /\ c < b /\ c >= b
        BY <1>1, <1>8, <2>3, <2>5, <2>8, <3>3
      <3> HIDE DEF c
      <3>5. QED
        BY <3>4
    <2>10. CASE PicksSecond(rank, p, q, i, m, k)
      <3>1. i[k - 1] = i[k] /\ m[k] = q[k - i[k]]
        BY <2>10 DEF PicksSecond
      <3>2. k - i[k] = b
        <4> DEFINE c == i[k]
        <4>1. c \in Nat /\ k - c >= b /\ k - 1 - c < b /\ b \in Nat /\ k \in Nat
          BY <1>1, <1>8, <2>3, <2>5, <2>7, <2>8, <3>1
        <4> HIDE DEF c
        <4>2. k - c = b
          BY <4>1
        <4>3. QED
          BY <4>2 DEF c
      <3>3. QED
        BY <1>5, <1>8, <2>5, <3>1, <3>2 DEF In
    <2>11. QED
      BY <1>5, <2>5, <2>9, <2>10
  <1>9. QED
    BY <1>6, <1>7, <1>8 DEF In, m
LEMMA LessMeans ==
  ASSUME NEW rank, NEW place, NEW x, NEW y, rank[x] \in Int, rank[y] \in Int
  PROVE  /\ Less(rank, place, x, y) => rank[x] <= rank[y]
         /\ rank[x] < rank[y] => Less(rank, place, x, y)
         /\ rank[x] <= rank[y] /\ place[x] < place[y] => Less(rank, place, x, y)
  <1> DEFINE r == rank[x]
             s == rank[y]
             lt == place[x] < place[y]
  <1>1. Less(rank, place, x, y) <=> r < s \/ (r = s /\ lt)
    BY DEF Less
  <1>2. r \in Int /\ s \in Int
    OBVIOUS
  <1> HIDE DEF r, s, lt
  <1>3. (r < s \/ (r = s /\ lt)) => r <= s
    BY <1>2
  <1>4. r <= s => r < s \/ r = s
    BY <1>2
  <1>5. /\ Less(rank, place, x, y) => r <= s
        /\ r < s => Less(rank, place, x, y)
        /\ r <= s /\ lt => Less(rank, place, x, y)
    BY <1>1, <1>3, <1>4
  <1>6. QED
    BY <1>5 DEF r, s, lt
\* A merge of two runs in order, the first from before the second, is in order.
LEMMA MergeAscends ==
  ASSUME NEW S, NEW p \in Seq(S), NEW q \in Seq(S), NEW rank \in [S -> Int],
         NEW place \in [S -> Int], Ascends(rank, place, p), Ascends(rank, place, q),
         \A a \in 1 .. Len(p), b \in 1 .. Len(q) : place[p[a]] < place[q[b]]
  PROVE  Ascends(rank, place, Merge(rank, p, q))
  <1> DEFINE n == Len(p) + Len(q)
             i == Taken(rank, p, q)
             m == Merge(rank, p, q)
  <1>1. n \in Nat /\ Len(p) \in Nat /\ Len(q) \in Nat
    OBVIOUS
  <1>2. Takes(rank, p, q, i)
    BY TakenTakes
  <1>3. /\ \A k \in 0 .. n : i[k] \in 0 .. Len(p) /\ k - i[k] \in 0 .. Len(q)
        /\ \A k, l \in 0 .. n : k <= l => i[k] <= i[l] /\ k - i[k] <= l - i[l]
    BY <1>2, TakesBoth
  <1>4. /\ Len(m) = n
        /\ \A k \in 1 .. n : PicksFirst(rank, p, q, i, m, k) \/ PicksSecond(rank, p, q, i, m, k)
    BY MergePicks
  <1> HIDE DEF n, i, m
  <1>5. /\ \A a \in 1 .. Len(p) : rank[p[a]] \in Int /\ place[p[a]] \in Int
        /\ \A b \in 1 .. Len(q) : rank[q[b]] \in Int /\ place[q[b]] \in Int
    OBVIOUS
  <1>6. ASSUME NEW k \in 1 .. n, NEW l \in 1 .. n, k < l
        PROVE  Less(rank, place, m[k], m[l])
    <2> DEFINE a == i[k]
               b == i[l - 1]
               c == i[l]
    <2>1. k \in 0 .. n /\ l \in 0 .. n /\ l - 1 \in 0 .. n /\ k <= l - 1 /\ k \in Nat /\ l \in Nat
      BY <1>1, <1>6
    <2>2. a <= b /\ k - a <= l - 1 - b
      BY <1>3, <2>1
    <2>3. a \in Nat /\ b \in Nat /\ c \in Nat
      <3>1. a \in 0 .. Len(p) /\ b \in 0 .. Len(p) /\ c \in 0 .. Len(p)
        BY <1>3, <2>1
      <3>2. QED
        BY <1>1, <3>1
    <2>4. CASE PicksFirst(rank, p, q, i, m, k) /\ PicksFirst(rank, p, q, i, m, l)
      <3>1. a \in 1 .. Len(p) /\ m[k] = p[a]
        BY <2>4 DEF PicksFirst
      <3>2. c \in 1 .. Len(p) /\ m[l] = p[c] /\ b = c - 1
        BY <2>4 DEF PicksFirst
      <3>3. a < c
        <4> HIDE DEF a, b, c
        <4>1. QED
          BY <2>2, <2>3, <3>2
      <3>4. Less(rank, place, p[a], p[c])
        BY <3>1, <3>2, <3>3 DEF Ascends
      <3>5. QED
        BY <3>1, <3>2, <3>4
    <2>5. CASE PicksSecond(rank, p, q, i, m, k) /\ PicksSecond(rank, p, q, i, m, l)
      <3>1. k - a \in 1 .. Len(q) /\ m[k] = q[k - a]
        BY <2>5 DEF PicksSecond
      <3>2. l - c \in 1 .. Len(q) /\ m[l] = q[l - c] /\ b = c
        BY <2>5 DEF PicksSecond
      <3>3. k - a < l - c
        <4> HIDE DEF a, b, c
        <4>1. QED
          BY <2>1, <2>2, <2>3, <3>2
      <3>4. Less(rank, place, q[k - a], q[l - c])
        BY <3>1, <3>2, <3>3 DEF Ascends
      <3>5. QED
        BY <3>1, <3>2, <3>4
    <2>6. CASE PicksFirst(rank, p, q, i, m, k) /\ PicksSecond(rank, p, q, i, m, l)
      <3>1. a \in 1 .. Len(p) /\ m[k] = p[a] /\ FromFirst(rank, p, q, a - 1, k - a)
        BY <2>6 DEF PicksFirst
      <3>2. l - c \in 1 .. Len(q) /\ m[l] = q[l - c] /\ b = c
        BY <2>6 DEF PicksSecond
      <3>3. k - a < l - c /\ k - a \in 0 .. Len(q)
        <4>1. k - a \in 0 .. Len(q)
          BY <1>3, <2>1
        <4> HIDE DEF a, b, c
        <4>2. QED
          BY <2>1, <2>2, <2>3, <3>2, <4>1
      <3> DEFINE s == k - a
                 t == l - c
      <3>4. s \in Nat /\ t \in 1 .. Len(q) /\ s < t /\ (a - 1) + 1 = a
        BY <1>1, <2>3, <3>2, <3>3
      <3> HIDE DEF a, b, c, s, t
      <3>5. s < Len(q) /\ s + 1 \in 1 .. Len(q)
        BY <1>1, <3>4
      <3>6. rank[p[a]] <= rank[q[s + 1]]
        BY <3>1, <3>4, <3>5 DEF FromFirst, s
      <3>7. rank[q[s + 1]] <= rank[q[t]]
        <4>1. CASE s + 1 = t
          <5>1. rank[q[t]] \in Int
            BY <1>5, <3>4
          <5>2. QED
            BY <4>1, <5>1
        <4>2. CASE s + 1 # t
          <5>1. s + 1 < t
            BY <1>1, <3>4, <4>2
          <5>2. Less(rank, place, q[s + 1], q[t])
            BY <3>4, <3>5, <5>1 DEF Ascends
          <5>3. rank[q[t]] \in Int /\ rank[q[s + 1]] \in Int
            BY <1>5, <3>4, <3>5
          <5>4. QED
            BY <5>2, <5>3, LessMeans
        <4>3. QED
          BY <4>1, <4>2
      <3>8. place[p[a]] < place[q[t]]
        BY <3>1, <3>4
      <3>9. rank[p[a]] \in Int /\ rank[q[s + 1]] \in Int /\ rank[q[t]] \in Int
        BY <1>5, <3>1, <3>4, <3>5
      <3>10. Less(rank, place, p[a], q[t])
        <4>1. rank[p[a]] <= rank[q[t]]
          <5> DEFINE u == rank[p[a]]
                     v == rank[q[s + 1]]
                     w == rank[q[t]]
          <5>1. u \in Int /\ v \in Int /\ w \in Int /\ u <= v /\ v <= w
            BY <3>6, <3>7, <3>9
          <5> HIDE DEF u, v, w
          <5>2. u <= w
            BY <5>1
          <5>3. QED
            BY <5>2 DEF u, w
        <4>2. QED
          BY <3>8, <3>9, <4>1, LessMeans
      <3>11. QED
        BY <3>1, <3>2, <3>10 DEF t
    <2>7. CASE PicksSecond(rank, p, q, i, m, k) /\ PicksFirst(rank, p, q, i, m, l)
      <3>1. /\ k - a \in 1 .. Len(q) /\ m[k] = q[k - a]
            /\ ~ FromFirst(rank, p, q, a, k - 1 - a)
        BY <2>7 DEF PicksSecond
      <3>2. c \in 1 .. Len(p) /\ m[l] = p[c] /\ b = c - 1
        BY <2>7 DEF PicksFirst
      <3>3. a < c
        <4> HIDE DEF a, b, c
        <4>1. QED
          BY <2>2, <2>3, <3>2
      <3> DEFINE s == k - a
      <3>4. /\ s \in 1 .. Len(q) /\ k - 1 - a = s - 1 /\ (s - 1) + 1 = s /\ s - 1 < Len(q)
            /\ a < Len(p) /\ a + 1 \in 1 .. Len(p)
        <4>1. s \in 1 .. Len(q)
          BY <3>1
        <4> HIDE DEF a, b, c
        <4>2. s = k - a
          OBVIOUS
        <4> HIDE DEF s
        <4>3. k - 1 - a = s - 1 /\ a < Len(p) /\ a + 1 \in 1 .. Len(p)
          BY <1>1, <2>1, <2>3, <3>2, <3>3, <4>2
        <4>4. (s - 1) + 1 = s /\ s - 1 < Len(q)
          BY <1>1, <4>1
        <4>5. QED
          BY <4>1, <4>3, <4>4
      <3> HIDE DEF a, b, c, s
      <3>5. ~ (rank[p[a + 1]] <= rank[q[s]])
        BY <3>1, <3>4 DEF FromFirst
      <3>6. rank[p[a + 1]] <= rank[p[c]]
        <4>1. CASE a + 1 = c
          <5>1. rank[p[c]] \in Int
            BY <1>5, <3>2
          <5>2. QED
            BY <4>1, <5>1
        <4>2. CASE a + 1 # c
          <5>1. a + 1 < c
            BY <1>1, <2>3, <3>3, <4>2
          <5>2. Less(rank, place, p[a + 1], p[c])
            BY <3>2, <3>4, <5>1 DEF Ascends
          <5>3. rank[p[a + 1]] \in Int /\ rank[p[c]] \in Int
            BY <1>5, <3>2, <3>4
          <5>4. QED
            BY <5>2, <5>3, LessMeans
        <4>3. QED
          BY <4>1, <4>2
      <3>7. rank[p[a + 1]] \in Int /\ rank[p[c]] \in Int /\ rank[q[s]] \in Int
        BY <1>5, <3>2, <3>4
      <3>8. Less(rank, place, q[s], p[c])
        <4>1. rank[q[s]] < rank[p[c]]
          <5> DEFINE u == rank[q[s]]
                     v == rank[p[a + 1]]
                     w == rank[p[c]]
          <5>1. u \in Int /\ v \in Int /\ w \in Int /\ ~ (v <= u) /\ v <= w
            BY <3>5, <3>6, <3>7
          <5> HIDE DEF u, v, w
          <5>2. u < w
            BY <5>1
          <5>3. QED
            BY <5>2 DEF u, w
        <4>2. QED
          BY <3>7, <4>1, LessMeans
      <3>9. QED
        BY <3>1, <3>2, <3>8 DEF s
    <2>8. QED
      BY <1>4, <1>6, <2>4, <2>5, <2>6, <2>7
  <1>7. QED
    BY <1>4, <1>6 DEF Ascends, m
\* Everything in p comes from before everything in q.
Precedes(place, p, q) == \A x, y : In(x, p) /\ In(y, q) => place[x] < place[y]

\* The runs have the elements of the list, each run in order and from its
\* part of the list.
AreRuns(S, rank, place, list, runs) ==
  /\ runs \in Seq(Seq(S))
  /\ \A r \in 1 .. Len(runs) : Ascends(rank, place, runs[r])
  /\ \A r, t \in 1 .. Len(runs) : r < t => Precedes(place, runs[r], runs[t])
  /\ \A x : In(x, list) <=> \E r \in 1 .. Len(runs) : In(x, runs[r])

Half(n) == (n + 1) \div 2

\* How many runs a pass leaves.
LEMMA HalfOf ==
  ASSUME NEW n \in Nat
  PROVE  Half(n) \in Nat /\ n <= 2 * Half(n) /\ 2 * Half(n) <= n + 1
  BY DEF Half

\* A pass leaves half of the runs.
LEMMA PassHalves ==
  ASSUME NEW S, NEW rank, NEW runs \in Seq(S)
  PROVE  Len(Pass(rank, runs)) = Half(Len(runs))
  <1>1. Half(Len(runs)) \in Nat
    BY HalfOf
  <1>2. DOMAIN Pass(rank, runs) = 1 .. Half(Len(runs))
    BY DEF Pass, Half
  <1>3. Pass(rank, runs) = [r \in 1 .. Half(Len(runs)) |-> Pass(rank, runs)[r]]
    BY <1>2 DEF Pass, Half
  <1> DEFINE new == Pass(rank, runs)
             h == Half(Len(runs))
  <1> HIDE DEF new, h
  <1>4. new = [r \in 1 .. h |-> new[r]] /\ h \in Nat
    BY <1>1, <1>3 DEF new, h
  <1>5. Len(new) = h
    BY <1>4
  <1>6. QED
    BY <1>5 DEF new, h

\* Two runs merge into one when the first comes from before the second.
LEMMA MergesInOrder ==
  ASSUME NEW S, NEW p \in Seq(S), NEW q \in Seq(S), NEW rank \in [S -> Int],
         NEW place \in [S -> Int], Ascends(rank, place, p), Ascends(rank, place, q),
         Precedes(place, p, q)
  PROVE  Ascends(rank, place, Merge(rank, p, q))
  <1>1. \A a \in 1 .. Len(p), b \in 1 .. Len(q) : place[p[a]] < place[q[b]]
    <2>1. \A a \in 1 .. Len(p) : In(p[a], p)
      BY DEF In
    <2>2. \A b \in 1 .. Len(q) : In(q[b], q)
      BY DEF In
    <2>3. QED
      BY <2>1, <2>2 DEF Precedes
  <1>2. QED
    BY <1>1, MergeAscends

\* A pass of the sort leaves runs again.
LEMMA PassMergesRuns ==
  ASSUME NEW S, NEW rank \in [S -> Int], NEW place \in [S -> Int], NEW list, NEW runs,
         AreRuns(S, rank, place, list, runs)
  PROVE  AreRuns(S, rank, place, list, Pass(rank, runs))
  <1> DEFINE n == Len(runs)
             h == Half(n)
             First(r) == runs[2 * r - 1]
             Second(r) == IF 2 * r <= n THEN runs[2 * r] ELSE <<>>
             new == Pass(rank, runs)
  <1>1. runs \in Seq(Seq(S)) /\ n \in Nat
    BY DEF AreRuns
  <1>2. h \in Nat /\ n <= 2 * h /\ 2 * h <= n + 1
    <2> HIDE DEF n
    <2>1. QED
      BY <1>1, HalfOf
  <1>3. new = [r \in 1 .. h |-> Merge(rank, First(r), Second(r))]
    BY DEF Pass, Half
  <1>4. \A r \in 1 .. n : runs[r] \in Seq(S)
    BY <1>1
  <1>5. \A r \in 1 .. n : Ascends(rank, place, runs[r])
    BY DEF AreRuns
  <1>6. \A r, t \in 1 .. n : r < t => Precedes(place, runs[r], runs[t])
    BY DEF AreRuns
  <1>7. \A x : In(x, list) <=> \E r \in 1 .. n : In(x, runs[r])
    BY DEF AreRuns
  <1>8. <<>> \in Seq(S) /\ Len(<<>>) = 0 /\ Ascends(rank, place, <<>>) /\ \A x : ~ In(x, <<>>)
    BY DEF Ascends, In
  <1> HIDE DEF n, h
  <1>9. ASSUME NEW r \in 1 .. h
        PROVE  /\ r \in Nat /\ 2 * r - 1 \in 1 .. n /\ (2 * r <= n => 2 * r \in 1 .. n)
               /\ First(r) \in Seq(S) /\ Second(r) \in Seq(S)
               /\ Ascends(rank, place, First(r)) /\ Ascends(rank, place, Second(r))
               /\ Precedes(place, First(r), Second(r))
    <2>1. r \in Nat /\ 2 * r - 1 \in 1 .. n /\ (2 * r <= n => 2 * r \in 1 .. n) /\ 2 * r - 1 < 2 * r
      BY <1>1, <1>2, <1>9
    <2>2. First(r) \in Seq(S) /\ Ascends(rank, place, First(r))
      BY <1>4, <1>5, <2>1
    <2>3. CASE 2 * r <= n
      <3>1. Second(r) = runs[2 * r] /\ 2 * r \in 1 .. n
        BY <2>1, <2>3
      <3>2. Second(r) \in Seq(S) /\ Ascends(rank, place, Second(r))
        BY <1>4, <1>5, <3>1
      <3>3. Precedes(place, First(r), Second(r))
        BY <1>6, <2>1, <3>1
      <3>4. QED
        BY <2>1, <2>2, <3>2, <3>3
    <2>4. CASE ~ (2 * r <= n)
      <3>1. Second(r) = <<>>
        BY <2>4
      <3>2. QED
        BY <1>8, <2>1, <2>2, <3>1 DEF Precedes
    <2>5. QED
      BY <2>3, <2>4
  <1>10. ASSUME NEW r \in 1 .. h, NEW x
         PROVE  In(x, new[r]) <=> In(x, First(r)) \/ In(x, Second(r))
    <2>1. new[r] = Merge(rank, First(r), Second(r))
      BY <1>3
    <2>2. First(r) \in Seq(S) /\ Second(r) \in Seq(S)
      BY <1>9
    <2> HIDE DEF First, Second, new
    <2>3. QED
      BY <2>1, <2>2, MergeHasBoth
  <1>11. ASSUME NEW r \in 1 .. h
         PROVE  new[r] \in Seq(S) /\ Ascends(rank, place, new[r])
    <2>1. new[r] = Merge(rank, First(r), Second(r))
      BY <1>3
    <2>2. /\ First(r) \in Seq(S) /\ Second(r) \in Seq(S)
          /\ Ascends(rank, place, First(r)) /\ Ascends(rank, place, Second(r))
          /\ Precedes(place, First(r), Second(r))
      BY <1>9
    <2> HIDE DEF First, Second, new
    <2>3. new[r] \in Seq(S)
      BY <2>1, <2>2, MergePicks
    <2>4. Ascends(rank, place, new[r])
      <3> DEFINE p == First(r)
                 q == Second(r)
      <3>1. /\ p \in Seq(S) /\ q \in Seq(S)
            /\ Ascends(rank, place, p) /\ Ascends(rank, place, q) /\ Precedes(place, p, q)
        BY <2>2
      <3> HIDE DEF p, q
      <3>2. Ascends(rank, place, Merge(rank, p, q))
        BY <3>1, MergesInOrder
      <3>3. QED
        BY <2>1, <3>2 DEF p, q
    <2>5. QED
      BY <2>3, <2>4
  <1>12. new \in Seq(Seq(S)) /\ Len(new) = h
    <2>1. DOMAIN new = 1 .. h /\ new = [r \in 1 .. h |-> new[r]]
      BY <1>3
    <2> HIDE DEF new, First, Second
    <2>2. \A r \in 1 .. h : new[r] \in Seq(S)
      BY <1>11
    <2>3. new \in [1 .. h -> Seq(S)]
      BY <2>1, <2>2
    <2>4. QED
      BY <1>2, <2>1, <2>3
  <1> HIDE DEF new
  <1>13. ASSUME NEW r \in 1 .. h, NEW x, In(x, new[r])
         PROVE  \E u \in 1 .. n : In(x, runs[u]) /\ 2 * r - 1 <= u /\ u <= 2 * r
    <2>1. In(x, First(r)) \/ In(x, Second(r))
      BY <1>10, <1>13
    <2>2. r \in Nat /\ 2 * r - 1 \in 1 .. n /\ (2 * r <= n => 2 * r \in 1 .. n)
      BY <1>9
    <2>3. CASE In(x, First(r))
      <3>1. 2 * r - 1 <= 2 * r - 1 /\ 2 * r - 1 <= 2 * r
        BY <2>2
      <3>2. QED
        BY <2>2, <2>3, <3>1
    <2>4. CASE In(x, Second(r))
      <3>1. 2 * r <= n
        BY <1>8, <2>4
      <3>2. In(x, runs[2 * r])
        BY <2>4, <3>1
      <3>3. 2 * r - 1 <= 2 * r /\ 2 * r <= 2 * r
        BY <2>2
      <3>4. QED
        BY <2>2, <3>1, <3>2, <3>3
    <2>5. QED
      BY <2>1, <2>3, <2>4
  <1>14. ASSUME NEW r \in 1 .. h, NEW t \in 1 .. h, r < t
         PROVE  Precedes(place, new[r], new[t])
    <2>1. SUFFICES ASSUME NEW x, NEW y, In(x, new[r]), In(y, new[t])
                   PROVE  place[x] < place[y]
      BY DEF Precedes
    <2>2. PICK u \in 1 .. n : In(x, runs[u]) /\ 2 * r - 1 <= u /\ u <= 2 * r
      BY <1>13, <2>1
    <2>3. PICK v \in 1 .. n : In(y, runs[v]) /\ 2 * t - 1 <= v /\ v <= 2 * t
      BY <1>13, <2>1
    <2>4. u < v
      BY <1>1, <1>2, <1>14, <2>2, <2>3
    <2>5. QED
      BY <1>6, <2>2, <2>3, <2>4 DEF Precedes
  <1>15. ASSUME NEW x PROVE In(x, list) <=> \E r \in 1 .. h : In(x, new[r])
    <2>1. ASSUME NEW r \in 1 .. h, In(x, new[r]) PROVE In(x, list)
      <3>1. PICK u \in 1 .. n : In(x, runs[u])
        BY <1>13, <2>1
      <3>2. QED
        BY <1>7, <3>1
    <2>2. ASSUME In(x, list) PROVE \E r \in 1 .. h : In(x, new[r])
      <3>1. PICK u \in 1 .. n : In(x, runs[u])
        BY <1>7, <2>2
      <3> DEFINE r == Half(u)
      <3>2. r \in 1 .. h /\ (u = 2 * r - 1 \/ (u = 2 * r /\ 2 * r <= n))
        <4>1. u \in Nat /\ u >= 1 /\ u <= n
          BY <1>1
        <4>2. r \in Nat /\ u <= 2 * r /\ 2 * r <= u + 1
          BY <4>1, HalfOf
        <4> HIDE DEF r
        <4>3. QED
          BY <1>1, <1>2, <4>1, <4>2
      <3> HIDE DEF r
      <3>3. In(x, First(r)) \/ In(x, Second(r))
        BY <3>1, <3>2
      <3>4. In(x, new[r])
        BY <1>10, <3>2, <3>3
      <3>5. QED
        BY <3>2, <3>4
    <2>3. QED
      BY <2>1, <2>2
  <1>16. AreRuns(S, rank, place, list, new)
    <2> HIDE DEF First, Second
    <2>1. \A r \in 1 .. Len(new) : Ascends(rank, place, new[r])
      BY <1>11, <1>12
    <2>2. \A r, t \in 1 .. Len(new) : r < t => Precedes(place, new[r], new[t])
      BY <1>12, <1>14
    <2>3. \A x : In(x, list) <=> \E r \in 1 .. Len(new) : In(x, new[r])
      BY <1>12, <1>15
    <2>4. QED
      BY <1>12, <2>1, <2>2, <2>3 DEF AreRuns
  <1>17. QED
    BY <1>16 DEF new
\* The elements of the list, in order of their place.
InPlace(place, list) == \A j, k \in 1 .. Len(list) : j < k => place[list[j]] < place[list[k]]

\* The runs of every pass make up the list; a pass halves their number.
EachPassHalves(S, rank, place, list, runs) ==
  /\ \A k \in 0 .. Len(list) : AreRuns(S, rank, place, list, runs[k])
  /\ Len(runs[0]) = Len(list)
  /\ \A k \in 1 .. Len(list) : Len(runs[k]) = Half(Len(runs[k - 1]))

\* The list is cut into runs of one element, and every pass merges them.
LEMMA PassesAre ==
  ASSUME NEW S, NEW rank \in [S -> Int], NEW place \in [S -> Int], NEW list \in Seq(S),
         InPlace(place, list)
  PROVE  EachPassHalves(S, rank, place, list, Passes(rank, list))
  <1> DEFINE n == Len(list)
             Ones == [j \in 1 .. n |-> <<list[j]>>]
             All == {u \in Seq(Seq(S)) : AreRuns(S, rank, place, list, u)}
             step == [x \in (1 .. n) \X All |-> Pass(rank, x[2])]
             Is(g) == g = [k \in 0 .. n |-> IF k = 0 THEN Ones ELSE Pass(rank, g[k - 1])]
             runs == Passes(rank, list)
  <1>1. n \in Nat
    OBVIOUS
  <1>2. \A j \in 1 .. n : <<list[j]>> \in Seq(S) /\ Len(<<list[j]>>) = 1 /\ <<list[j]>>[1] = list[j]
    OBVIOUS
  <1>3. Ones \in Seq(Seq(S)) /\ Len(Ones) = n /\ \A j \in 1 .. n : Ones[j] = <<list[j]>>
    <2> HIDE DEF n
    <2>1. QED
      BY <1>1, <1>2
  <1>4. \A j \in 1 .. n : \A x : In(x, Ones[j]) <=> x = list[j]
    BY <1>2, <1>3 DEF In
  <1>5. AreRuns(S, rank, place, list, Ones)
    <2> HIDE DEF Ones
    <2>1. \A r \in 1 .. Len(Ones) : Ascends(rank, place, Ones[r])
      <3>1. ASSUME NEW r \in 1 .. n PROVE Ascends(rank, place, Ones[r])
        <4>1. Len(Ones[r]) = 1
          BY <1>2, <1>3
        <4>2. \A k, l \in 1 .. 1 : ~ (k < l)
          OBVIOUS
        <4>3. QED
          BY <4>1, <4>2 DEF Ascends
      <3>2. QED
        BY <1>3, <3>1
    <2>2. \A r, t \in 1 .. Len(Ones) : r < t => Precedes(place, Ones[r], Ones[t])
      <3>1. \A j, k \in 1 .. n : j < k => place[list[j]] < place[list[k]]
        BY DEF n, InPlace
      <3>2. QED
        <4>1. ASSUME NEW r \in 1 .. n, NEW t \in 1 .. n, r < t
              PROVE  Precedes(place, Ones[r], Ones[t])
          <5>1. place[list[r]] < place[list[t]]
            BY <3>1, <4>1
          <5>2. QED
            BY <1>4, <5>1 DEF Precedes
        <4>2. QED
          BY <1>3, <4>1
    <2>3. \A x : In(x, list) <=> \E r \in 1 .. Len(Ones) : In(x, Ones[r])
      BY <1>3, <1>4 DEF In
    <2>4. QED
      BY <1>3, <2>1, <2>2, <2>3 DEF AreRuns
  <1> HIDE DEF Ones, n
  <1>6. Ones \in All
    BY <1>3, <1>5
  <1>7. \A u \in All : Pass(rank, u) \in All
    <2>1. ASSUME NEW u \in All PROVE AreRuns(S, rank, place, list, Pass(rank, u))
      <3>1. AreRuns(S, rank, place, list, u)
        BY <2>1
      <3>2. QED
        BY <3>1, PassMergesRuns
    <2>2. QED
      BY <2>1 DEF AreRuns
  <1>8. step \in [(1 .. n) \X All -> All]
    <2> HIDE DEF All
    <2>1. QED
      BY <1>7
  <1>9. PICK f : Computes(All, Ones, step, n, f)
    <2> HIDE DEF All, step
    <2>1. QED
      BY <1>1, <1>6, <1>8, LoopExists
  <1>10. /\ f \in [0 .. n -> All]
         /\ f = [k \in 0 .. n |-> IF k = 0 THEN Ones ELSE step[<<k, f[k - 1]>>]]
    BY <1>9 DEF Computes
  <1>11. Is(f)
    <2>1. ASSUME NEW k \in 0 .. n, k # 0 PROVE step[<<k, f[k - 1]>>] = Pass(rank, f[k - 1])
      <3> HIDE DEF All
      <3>1. k \in 1 .. n /\ k - 1 \in 0 .. n
        BY <1>1, <2>1
      <3>2. f[k - 1] \in All
        BY <1>10, <3>1
      <3>3. QED
        BY <3>1, <3>2
    <2> HIDE DEF step, All
    <2>2. QED
      BY <1>10, <2>1
  <1>12. runs = CHOOSE g : Is(g)
    BY DEF Passes, n, Ones
  <1>13. Is(runs)
    <2> HIDE DEF Is, runs
    <2>1. QED
      BY <1>11, <1>12
  <1> HIDE DEF runs, step
  <1>14. runs = [k \in 0 .. n |-> IF k = 0 THEN Ones ELSE Pass(rank, runs[k - 1])]
    BY <1>13
  <1>15. runs[0] = Ones /\ \A k \in 1 .. n : runs[k] = Pass(rank, runs[k - 1])
    <2> HIDE DEF Is
    <2>1. QED
      BY <1>1, <1>14
  <1> DEFINE T == {k \in 0 .. n : runs[k] \in All}
  <1>16. 0 \in T
    BY <1>1, <1>6, <1>15
  <1>17. ASSUME NEW k \in 0 .. n - 1, k \in T PROVE k + 1 \in T
    <2> HIDE DEF All
    <2>1. k + 1 \in 1 .. n /\ k + 1 \in 0 .. n /\ (k + 1) - 1 = k
      BY <1>1, <1>17
    <2>2. runs[k + 1] = Pass(rank, runs[k])
      BY <1>15, <2>1
    <2>3. QED
      BY <1>7, <1>17, <2>1, <2>2
  <1>18. 0 .. n \subseteq T
    <2> HIDE DEF T
    <2>1. QED
      BY <1>1, <1>16, <1>17, AllUpto
  <1>19. \A k \in 0 .. n : AreRuns(S, rank, place, list, runs[k])
    BY <1>18
  <1>20. ASSUME NEW k \in 1 .. n PROVE Len(runs[k]) = Half(Len(runs[k - 1]))
    <2>1. k - 1 \in 0 .. n
      BY <1>1, <1>20
    <2>2. AreRuns(S, rank, place, list, runs[k - 1])
      BY <1>19, <2>1
    <2>3. QED
      <3> DEFINE u == runs[k - 1]
      <3>1. AreRuns(S, rank, place, list, u)
        BY <2>2
      <3>2. runs[k] = Pass(rank, u)
        BY <1>15
      <3> HIDE DEF u
      <3>3. Len(Pass(rank, u)) = Half(Len(u))
        <4>1. u \in Seq(Seq(S))
          BY <3>1 DEF AreRuns
        <4>2. QED
          BY <4>1, PassHalves
      <3>4. QED
        BY <3>2, <3>3 DEF u
  <1>21. QED
    BY <1>3, <1>15, <1>19, <1>20 DEF runs, n, EachPassHalves

\* The passes end with one run.
LEMMA PassesEnd ==
  ASSUME NEW n \in Nat \ {0}, NEW length, length[0] = n,
         \A k \in 1 .. n : length[k] = Half(length[k - 1])
  PROVE  \E k \in 1 .. n : length[k] = 1 /\ \A j \in 1 .. k - 1 : length[j] # 1
  <1> DEFINE T == {k \in 0 .. n : /\ length[k] \in Nat \ {0}
                                  /\ length[k] = 1 \/ length[k] <= n - k}
  <1>1. 0 \in T
    OBVIOUS
  <1>2. ASSUME NEW k \in 0 .. n - 1, k \in T PROVE k + 1 \in T
    <2> DEFINE a == length[k]
               b == length[k + 1]
    <2>1. k + 1 \in 1 .. n /\ k + 1 \in 0 .. n /\ (k + 1) - 1 = k
      BY <1>2
    <2>2. b = Half(a)
      BY <2>1
    <2>3. a \in Nat \ {0} /\ (a = 1 \/ a <= n - k)
      BY <1>2
    <2>4. b \in Nat /\ a <= 2 * b /\ 2 * b <= a + 1
      <3> HIDE DEF a, b
      <3>1. QED
        BY <2>2, <2>3, HalfOf
    <2>5. b \in Nat \ {0} /\ (b = 1 \/ b <= n - (k + 1))
      <3> HIDE DEF a, b
      <3>1. k \in Nat
        BY <1>2
      <3>2. QED
        BY <2>3, <2>4, <3>1
    <2>6. QED
      BY <2>1, <2>5
  <1> HIDE DEF T
  <1>3. 0 .. n \subseteq T
    BY <1>1, <1>2, AllUpto
  <1>4. length[n] = 1
    <2>1. n \in T
      BY <1>3
    <2>2. QED
      BY <2>1 DEF T
  <1> DEFINE U == {k \in Nat : k \in 1 .. n /\ length[k] = 1}
  <1>5. n \in U /\ U \subseteq Nat
    BY <1>4
  <1>6. PICK k \in U : \A j \in U : k <= j
    <2> HIDE DEF U
    <2>1. QED
      BY <1>5, NatMin
  <1>7. k \in 1 .. n /\ length[k] = 1
    BY <1>6
  <1>8. \A j \in 1 .. k - 1 : length[j] # 1
    <2>1. SUFFICES ASSUME NEW j \in 1 .. k - 1, length[j] = 1 PROVE FALSE
      OBVIOUS
    <2>2. j \in Nat /\ j \in 1 .. n /\ ~ (k <= j)
      BY <1>7
    <2>3. j \in U
      BY <2>1, <2>2
    <2> HIDE DEF U
    <2>4. QED
      BY <1>6, <2>2, <2>3
  <1>9. QED
    BY <1>7, <1>8

\* The sort leaves the elements of the list, in order.
LEMMA SortedAscends ==
  ASSUME NEW S, NEW rank \in [S -> Int], NEW place \in [S -> Int], NEW list \in Seq(S),
         list # <<>>, InPlace(place, list)
  PROVE  /\ Sorted(rank, list) \in Seq(S) /\ Ascends(rank, place, Sorted(rank, list))
         /\ \A x : In(x, list) <=> In(x, Sorted(rank, list))
  <1> DEFINE n == Len(list)
             runs == Passes(rank, list)
             Ends(k) == Len(runs[k]) = 1 /\ \A j \in 1 .. k - 1 : Len(runs[j]) # 1
             last == CHOOSE k \in 1 .. n : Ends(k)
  <1>1. n \in Nat \ {0}
    OBVIOUS
  <1>2. /\ \A k \in 0 .. n : AreRuns(S, rank, place, list, runs[k])
        /\ Len(runs[0]) = n
        /\ \A k \in 1 .. n : Len(runs[k]) = Half(Len(runs[k - 1]))
    <2>1. EachPassHalves(S, rank, place, list, runs)
      BY PassesAre
    <2>2. QED
      BY <2>1 DEF EachPassHalves
  <1>3. Sorted(rank, list) = runs[last][1]
    BY DEF Sorted
  <1> HIDE DEF runs, n
  <1>4. \E k \in 1 .. n : Ends(k)
    <2> DEFINE length == [k \in 0 .. n |-> Len(runs[k])]
    <2>1. /\ \A k \in 0 .. n : length[k] = Len(runs[k])
          /\ \A k \in 1 .. n : k \in 0 .. n /\ k - 1 \in 0 .. n
      BY <1>1
    <2> HIDE DEF length
    <2>2. length[0] = n /\ \A k \in 1 .. n : length[k] = Half(length[k - 1])
      <3>1. length[0] = n
        BY <1>1, <1>2, <2>1
      <3>2. ASSUME NEW k \in 1 .. n PROVE length[k] = Half(length[k - 1])
        <4>1. length[k] = Len(runs[k]) /\ length[k - 1] = Len(runs[k - 1])
          BY <2>1
        <4>2. Len(runs[k]) = Half(Len(runs[k - 1]))
          BY <1>2
        <4>3. QED
          BY <4>1, <4>2
      <3>3. QED
        BY <3>1, <3>2
    <2>3. PICK k \in 1 .. n : length[k] = 1 /\ \A j \in 1 .. k - 1 : length[j] # 1
      BY <1>1, <2>2, PassesEnd
    <2>4. \A j \in 1 .. k - 1 : j \in 1 .. n
      BY <1>1
    <2>5. QED
      BY <2>1, <2>3, <2>4
  <1>5. last \in 1 .. n /\ Ends(last)
    <2> HIDE DEF Ends
    <2>1. QED
      BY <1>4
  <1> HIDE DEF last
  <1>6. AreRuns(S, rank, place, list, runs[last]) /\ Len(runs[last]) = 1
    BY <1>1, <1>2, <1>5
  <1>7. /\ runs[last][1] \in Seq(S) /\ Ascends(rank, place, runs[last][1])
        /\ \A x : In(x, list) <=> In(x, runs[last][1])
    <2>1. \A r \in 1 .. Len(runs[last]) : r = 1
      BY <1>6
    <2>2. 1 \in 1 .. Len(runs[last])
      BY <1>6
    <2>3. QED
      BY <1>6, <2>1, <2>2 DEF AreRuns
  <1>8. QED
    BY <1>3, <1>7

-----------------------------------------------------------------------------
(* Sequences whose elements are distinct.                                  *)

Distinct(s) == \A k, l \in 1 .. Len(s) : s[k] = s[l] => k = l

\* A list without repetition has as many places as elements.
LEMMA DistinctCount ==
  ASSUME NEW S, NEW s \in Seq(S), Distinct(s)
  PROVE  IsFiniteSet(ToSet(s)) /\ Cardinality(ToSet(s)) = Len(s)
  <1>1. Len(s) \in Nat /\ DOMAIN s = 1 .. Len(s)
    OBVIOUS
  <1>2. s \in [1 .. Len(s) -> ToSet(s)]
    BY <1>1 DEF ToSet
  <1>3. s \in Injection(1 .. Len(s), ToSet(s))
    BY <1>1, <1>2 DEF Injection, IsInjective, Distinct
  <1>4. s \in Surjection(1 .. Len(s), ToSet(s))
    BY <1>1, <1>2 DEF Surjection, ToSet
  <1>5. ExistsBijection(1 .. Len(s), ToSet(s))
    BY <1>3, <1>4 DEF ExistsBijection, Bijection
  <1>6. Cardinality(ToSet(s)) = Len(s)
    BY <1>1, <1>5, FS_CountingElements
  <1>7. IsFiniteSet(ToSet(s))
    BY <1>1, <1>5, FS_NatBijection
  <1>8. QED
    BY <1>6, <1>7

\* The set of the elements of a list.
LEMMA ToSetIn ==
  ASSUME NEW S, NEW s \in Seq(S)
  PROVE  \A x : x \in ToSet(s) <=> In(x, s)
  BY DEF ToSet, In

\* Two lists without repetition of the same elements are as long.
LEMMA SameLength ==
  ASSUME NEW S, NEW s \in Seq(S), NEW t \in Seq(S), Distinct(s), Distinct(t),
         \A x : In(x, s) <=> In(x, t)
  PROVE  Len(s) = Len(t) /\ ToSet(s) = ToSet(t)
  <1>1. ToSet(s) = ToSet(t)
    <2>1. \A x : x \in ToSet(s) <=> In(x, s)
      BY ToSetIn
    <2>2. \A x : x \in ToSet(t) <=> In(x, t)
      BY ToSetIn
    <2>3. \A x : x \in ToSet(s) <=> x \in ToSet(t)
      BY <2>1, <2>2
    <2> DEFINE a == ToSet(s)
               b == ToSet(t)
    <2> HIDE DEF a, b
    <2>4. a = b
      <3>1. \A x : x \in a <=> x \in b
        BY <2>3 DEF a, b
      <3>2. QED
        BY <3>1
    <2>5. QED
      BY <2>4 DEF a, b
  <1>2. QED
    BY <1>1, DistinctCount

\* The place of an element in a sequence.
PlaceIn(list, x) == CHOOSE k \in DOMAIN list : list[k] = x

\* In a list without repetition the place of an element is the one it has.
LEMMA PlaceInIs ==
  ASSUME NEW S, NEW s \in Seq(S), Distinct(s)
  PROVE  /\ \A k \in 1 .. Len(s) : PlaceIn(s, s[k]) = k
         /\ \A x : In(x, s) => PlaceIn(s, x) \in 1 .. Len(s) /\ s[PlaceIn(s, x)] = x
  <1>1. ASSUME NEW x, In(x, s) PROVE PlaceIn(s, x) \in 1 .. Len(s) /\ s[PlaceIn(s, x)] = x
    <2>1. \E k \in DOMAIN s : s[k] = x
      BY <1>1 DEF In
    <2>2. QED
      BY <2>1 DEF PlaceIn
  <1>2. ASSUME NEW k \in 1 .. Len(s) PROVE PlaceIn(s, s[k]) = k
    <2>1. In(s[k], s)
      BY DEF In
    <2>2. PlaceIn(s, s[k]) \in 1 .. Len(s) /\ s[PlaceIn(s, s[k])] = s[k]
      BY <1>1, <2>1
    <2>3. QED
      BY <2>2 DEF Distinct
  <1>3. QED
    BY <1>1, <1>2

\* HASH_SRT, LL_SORT, DL_SORT and CDL_SORT: the sort is stable and loses
\* nothing, for every list and every comparison function.
THEOREM SortIsStable ==
  ASSUME NEW S, NEW rank \in [S -> Int], NEW list \in Seq(S), list # <<>>, Distinct(list)
  PROVE  /\ Sorted(rank, list) \in Seq(S) /\ Distinct(Sorted(rank, list))
         /\ IsStableSort(rank, list, Sorted(rank, list))
  <1> DEFINE t == Sorted(rank, list)
             place == [x \in S |-> IF In(x, list) THEN PlaceIn(list, x) ELSE 0]
  <1>1. \A x : In(x, list) => x \in S /\ PlaceIn(list, x) \in 1 .. Len(list)
    BY PlaceInIs DEF In
  <1>2. \A x : In(x, list) => place[x] = PlaceIn(list, x) /\ place[x] \in Int
    BY <1>1
  <1>3. place \in [S -> Int]
    BY <1>1
  <1> HIDE DEF place
  <1>4. InPlace(place, list)
    <2>1. \A k \in 1 .. Len(list) : In(list[k], list) /\ PlaceIn(list, list[k]) = k
      BY PlaceInIs DEF In
    <2>2. QED
      BY <1>2, <2>1 DEF InPlace
  <1>5. t \in Seq(S) /\ Ascends(rank, place, t)
    BY <1>3, <1>4, SortedAscends
  <1>6. \A x : In(x, list) <=> In(x, t)
    BY <1>3, <1>4, SortedAscends
  <1> HIDE DEF t
  <1>7. \A x, y : In(x, t) /\ In(y, t) /\ Less(rank, place, x, y) => ~ Less(rank, place, y, x)
    <2>1. \A x : In(x, t) => x \in S
      BY <1>5 DEF In
    <2>2. \A x : x \in S => rank[x] \in Int /\ place[x] \in Int
      BY <1>3
    <2>3. QED
      BY <2>1, <2>2 DEF Less
  <1>8. Distinct(t)
    <2>1. SUFFICES ASSUME NEW k \in 1 .. Len(t), NEW l \in 1 .. Len(t), t[k] = t[l], k < l
                   PROVE  FALSE
      BY <1>5 DEF Distinct
    <2>2. In(t[k], t) /\ In(t[l], t) /\ Less(rank, place, t[k], t[l])
      BY <1>5, <2>1 DEF In, Ascends
    <2>3. QED
      BY <1>7, <2>1, <2>2
  <1>9. Len(t) = Len(list) /\ ToSet(t) = ToSet(list)
    BY <1>5, <1>6, <1>8, SameLength
  <1>10. ASSUME NEW x \in ToSet(list), NEW y \in ToSet(list)
         PROVE  PlaceIn(t, x) < PlaceIn(t, y) <=> Less(rank, place, x, y)
    <2> DEFINE k == PlaceIn(t, x)
               l == PlaceIn(t, y)
    <2>1. In(x, t) /\ In(y, t)
      BY <1>5, <1>9, <1>10, ToSetIn
    <2>2. k \in 1 .. Len(t) /\ l \in 1 .. Len(t) /\ t[k] = x /\ t[l] = y
      BY <1>5, <1>8, <2>1, PlaceInIs
    <2> HIDE DEF k, l
    <2>3. k < l => Less(rank, place, x, y)
      BY <1>5, <2>2 DEF Ascends
    <2>4. l < k => Less(rank, place, y, x)
      BY <1>5, <2>2 DEF Ascends
    <2>5. k = l => ~ Less(rank, place, x, y)
      <3>1. k = l => x = y
        BY <2>2
      <3>2. QED
        BY <1>7, <2>1, <3>1
    <2>6. Less(rank, place, x, y) => ~ Less(rank, place, y, x)
      BY <1>7, <2>1
    <2>7. QED
      <3>1. k < l \/ l < k \/ k = l
        BY <1>5, <2>2
      <3>2. QED
        BY <2>3, <2>4, <2>5, <2>6, <3>1 DEF k, l
  <1>11. ASSUME NEW x \in ToSet(list), NEW y \in ToSet(list)
         PROVE  Less(rank, place, x, y) <=>
                  \/ rank[x] < rank[y]
                  \/ rank[x] = rank[y] /\ PlaceIn(list, x) < PlaceIn(list, y)
    <2>1. In(x, list) /\ In(y, list)
      BY <1>11, ToSetIn
    <2>2. QED
      BY <1>2, <2>1 DEF Less
  <1>12. IsStableSort(rank, list, t)
    <2>1. \A x, y \in ToSet(list) : PlaceIn(t, x) < PlaceIn(t, y) <=>
                  \/ rank[x] < rank[y]
                  \/ rank[x] = rank[y] /\ PlaceIn(list, x) < PlaceIn(list, y)
      BY <1>10, <1>11
    <2>2. QED
      BY <1>9, <2>1 DEF IsStableSort, PlaceIn, ToSet
  <1>13. QED
    BY <1>5, <1>8, <1>12 DEF t

-----------------------------------------------------------------------------
(* Linked lists.                                                           *)

\* The element at a place of a list, NULL outside of it.
At(c, k) == IF k \in 1 .. Len(c) THEN c[k] ELSE NULL

\* The next pointers lead from head through c, and there they end.
LeadsThrough(nxt, head, c) ==
  head = At(c, 1) /\ \A k \in 1 .. Len(c) : nxt[c[k]] = At(c, k + 1)

\* What there is at the places of a list, and outside of them.
LEMMA AtIs ==
  ASSUME NEW S, NULL \notin S, NEW c \in Seq(S)
  PROVE  /\ \A k \in 1 .. Len(c) : At(c, k) = c[k] /\ At(c, k) \in S
         /\ \A k \in Int : k \notin 1 .. Len(c) => At(c, k) = NULL
         /\ \A k \in Int : At(c, k) # NULL => k \in 1 .. Len(c)
  BY DEF At

\* The places that are reached from start on.
Walks(nxt, start, w) == w[0] = start /\ \A k \in Nat : w[k + 1] = Follow(nxt, w[k])

\* The walk along the pointers exists.
LEMMA WalkIs ==
  ASSUME NEW S, NULL \notin S, NEW nxt \in [S -> S \cup {NULL}], NEW start \in S \cup {NULL}
  PROVE  Walks(nxt, start, Walk(nxt, start))
  <1> DEFINE R == S \cup {NULL}
             Is(g) == g = [k \in Nat |-> IF k = 0 THEN start ELSE Follow(nxt, g[k - 1])]
             step == [x \in R |-> Follow(nxt, x)]
             w == Walk(nxt, start)
  <1>1. step \in [R -> R]
    BY DEF Follow
  <1>2. PICK f : Recurs(R, start, step, f)
    <2> HIDE DEF step
    <2>1. QED
      BY <1>1, NatRecursion
  <1>3. Is(f)
    <2>1. ASSUME NEW k \in Nat PROVE f[k] = IF k = 0 THEN start ELSE Follow(nxt, f[k - 1])
      <3>1. CASE k = 0
        BY <1>2, <3>1 DEF Recurs
      <3>2. CASE k # 0
        <4>1. k - 1 \in Nat /\ (k - 1) + 1 = k
          BY <3>2
        <4>2. f[(k - 1) + 1] = step[f[k - 1]] /\ f[k - 1] \in R
          BY <1>2, <4>1 DEF Recurs
        <4>3. QED
          BY <3>2, <4>1, <4>2
      <3>3. QED
        BY <3>1, <3>2
    <2>2. QED
      BY <1>2, <2>1 DEF Recurs
  <1>4. w = CHOOSE g : Is(g)
    BY DEF Walk
  <1>5. Is(w)
    <2> HIDE DEF Is, w
    <2>1. QED
      BY <1>3, <1>4
  <1>6. w = [k \in Nat |-> IF k = 0 THEN start ELSE Follow(nxt, w[k - 1])]
    BY <1>5
  <1> HIDE DEF w, Is
  <1>7. w[0] = start
    BY <1>6
  <1>8. ASSUME NEW k \in Nat PROVE w[k + 1] = Follow(nxt, w[k])
    <2>1. k + 1 \in Nat /\ k + 1 # 0 /\ (k + 1) - 1 = k
      OBVIOUS
    <2>2. w[k + 1] = IF k + 1 = 0 THEN start ELSE Follow(nxt, w[(k + 1) - 1])
      BY <1>6, <2>1
    <2>3. QED
      BY <2>1, <2>2
  <1>9. QED
    BY <1>7, <1>8 DEF w, Walks

\* Path finds the list that the pointers lead through.
LEMMA PathIs ==
  ASSUME NEW S, NULL \notin S, NEW nxt \in [S -> S \cup {NULL}], NEW c \in Seq(S), NEW head,
         LeadsThrough(nxt, head, c), NEW n \in Nat, Len(c) <= n
  PROVE  Path(nxt, head, n) = c
  <1> DEFINE w == Walk(nxt, head)
             Ends(m) == (m = n \/ w[m] = NULL) /\ \A k \in 0 .. m - 1 : w[k] # NULL
             length == CHOOSE m \in 0 .. n : Ends(m)
             T == {k \in 0 .. Len(c) : w[k] = At(c, k + 1)}
  <1>1. Len(c) \in Nat
    OBVIOUS
  <1>2. head \in S \cup {NULL} /\ head = At(c, 1)
    BY DEF LeadsThrough, At
  <1>3. w[0] = head /\ \A k \in Nat : w[k + 1] = Follow(nxt, w[k])
    <2>1. Walks(nxt, head, w)
      BY <1>2, WalkIs
    <2>2. QED
      BY <2>1 DEF Walks
  <1> HIDE DEF w
  <1>4. 0 \in T
    BY <1>1, <1>2, <1>3
  <1>5. ASSUME NEW k \in 0 .. Len(c) - 1, k \in T PROVE k + 1 \in T
    <2>1. k \in Nat /\ k + 1 \in 1 .. Len(c) /\ k + 1 \in 0 .. Len(c)
      BY <1>1, <1>5
    <2>2. w[k] = c[k + 1] /\ c[k + 1] \in S
      BY <1>5, <2>1 DEF At
    <2>3. w[k + 1] = nxt[c[k + 1]]
      BY <1>3, <2>1, <2>2 DEF Follow
    <2>4. QED
      BY <2>1, <2>3 DEF LeadsThrough
  <1> HIDE DEF T
  <1>6. 0 .. Len(c) \subseteq T
    BY <1>1, <1>4, <1>5, AllUpto
  <1>7. \A k \in 0 .. Len(c) : w[k] = At(c, k + 1)
    BY <1>6 DEF T
  <1>8. w[Len(c)] = NULL
    BY <1>1, <1>7 DEF At
  <1>9. \A k \in 0 .. Len(c) - 1 : w[k] = c[k + 1] /\ w[k] # NULL
    <2>1. ASSUME NEW k \in 0 .. Len(c) - 1 PROVE w[k] = c[k + 1] /\ w[k] # NULL
      <3>1. k \in 0 .. Len(c) /\ k + 1 \in 1 .. Len(c)
        BY <1>1, <2>1
      <3>2. w[k] = At(c, k + 1)
        BY <1>7, <3>1
      <3>3. QED
        BY <3>1, <3>2 DEF At
    <2>2. QED
      BY <2>1
  <1>10. Ends(Len(c)) /\ Len(c) \in 0 .. n
    BY <1>1, <1>8, <1>9
  <1>11. \A m \in 0 .. n : Ends(m) => m = Len(c)
    <2>1. SUFFICES ASSUME NEW m \in 0 .. n, Ends(m) PROVE m = Len(c)
      OBVIOUS
    <2>2. ~ (m < Len(c))
      BY <1>1, <1>9, <2>1
    <2>3. ~ (Len(c) < m)
      BY <1>1, <1>8, <2>1
    <2>4. QED
      BY <1>1, <2>2, <2>3
  <1>12. length = Len(c)
    <2> HIDE DEF Ends
    <2>1. QED
      BY <1>10, <1>11
  <1>13. Path(nxt, head, n) = [k \in 1 .. length |-> w[k - 1]]
    BY DEF Path, w
  <1> HIDE DEF length
  <1>14. \A k \in 1 .. Len(c) : w[k - 1] = c[k]
    <2>1. ASSUME NEW k \in 1 .. Len(c) PROVE w[k - 1] = c[k]
      <3>1. k - 1 \in 0 .. Len(c) - 1 /\ (k - 1) + 1 = k
        BY <1>1, <2>1
      <3>2. QED
        BY <1>9, <3>1
    <2>2. QED
      BY <2>1
  <1>15. QED
    <2>1. c = [k \in 1 .. Len(c) |-> c[k]]
      OBVIOUS
    <2>2. QED
      BY <1>12, <1>13, <1>14, <2>1

\* A list without repetition of a finite set is not longer than the set.
LEMMA DistinctFits ==
  ASSUME NEW S, IsFiniteSet(S), NEW c \in Seq(S), Distinct(c)
  PROVE  Len(c) <= Cardinality(S) /\ Cardinality(S) \in Nat
  <1>1. ToSet(c) \in SUBSET S
    BY DEF ToSet
  <1>2. Cardinality(ToSet(c)) <= Cardinality(S)
    BY <1>1, FS_Subset
  <1>3. QED
    BY <1>2, DistinctCount, FS_CardinalityType

\* The pointers link the elements of c both ways.
Links(S, nxt, prv, head, c) ==
  /\ c \in Seq(S) /\ Distinct(c) /\ head = At(c, 1)
  /\ \A k \in 1 .. Len(c) : nxt[c[k]] = At(c, k + 1) /\ prv[c[k]] = At(c, k - 1)

\* Pointers of other elements may change.
LEMMA LinksFrame ==
  ASSUME NEW S, NEW nxt, NEW prv, NEW head, NEW c, Links(S, nxt, prv, head, c),
         NEW nxt2, NEW prv2, \A x : In(x, c) => nxt2[x] = nxt[x] /\ prv2[x] = prv[x]
  PROVE  Links(S, nxt2, prv2, head, c)
  <1>1. \A k \in 1 .. Len(c) : In(c[k], c)
    BY DEF In
  <1>2. QED
    BY <1>1 DEF Links

\* How the pointers change when e becomes the first element.
Fronts(nxt, prv, head, c, e, nxt2, prv2) ==
  /\ ~ In(e, c) /\ nxt2[e] = head /\ prv2[e] = NULL
  /\ \A x : In(x, c) => nxt2[x] = nxt[x] /\ prv2[x] = IF x = head THEN e ELSE prv[x]

\* A list that is linked both ways still is with a new first element.
LEMMA PushFront ==
  ASSUME NEW S, NULL \notin S, NEW nxt, NEW prv, NEW head, NEW c,
         Links(S, nxt, prv, head, c), NEW e \in S,
         NEW nxt2, NEW prv2, Fronts(nxt, prv, head, c, e, nxt2, prv2)
  PROVE  /\ Links(S, nxt2, prv2, e, <<e>> \o c)
         /\ Len(<<e>> \o c) = Len(c) + 1
         /\ \A x : In(x, <<e>> \o c) <=> x = e \/ In(x, c)
  <1> DEFINE d == <<e>> \o c
             n == Len(c)
  <1>1. /\ c \in Seq(S) /\ Distinct(c) /\ head = At(c, 1)
        /\ \A k \in 1 .. n : nxt[c[k]] = At(c, k + 1) /\ prv[c[k]] = At(c, k - 1)
    BY DEF Links
  <1>0. /\ ~ In(e, c) /\ nxt2[e] = head /\ prv2[e] = NULL
        /\ \A x : In(x, c) => nxt2[x] = nxt[x] /\ prv2[x] = IF x = head THEN e ELSE prv[x]
    BY DEF Fronts
  <1>2. n \in Nat /\ d \in Seq(S) /\ Len(d) = n + 1 /\ d[1] = e
    BY <1>1
  <1>3. \A k \in 1 .. n : d[k + 1] = c[k] /\ In(c[k], c) /\ c[k] # e /\ c[k] \in S
    BY <1>0, <1>1 DEF In
  <1>4. \A k \in 1 .. n + 1 : k = 1 \/ (k - 1 \in 1 .. n /\ d[k] = c[k - 1])
    <2>1. ASSUME NEW k \in 1 .. n + 1, k # 1 PROVE k - 1 \in 1 .. n /\ d[k] = c[k - 1]
      <3>1. k - 1 \in 1 .. n /\ (k - 1) + 1 = k
        BY <1>2, <2>1
      <3>2. QED
        BY <1>3, <3>1
    <2>2. QED
      BY <2>1
  <1> HIDE DEF d
  <1>5. \A x : In(x, d) <=> x = e \/ In(x, c)
    <2>1. ASSUME NEW x, In(x, d) PROVE x = e \/ In(x, c)
      BY <1>2, <1>4, <2>1 DEF In
    <2>2. ASSUME NEW x, In(x, c) PROVE In(x, d)
      <3>1. PICK k \in 1 .. n : c[k] = x
        BY <2>2 DEF In
      <3>2. k + 1 \in 1 .. Len(d) /\ d[k + 1] = x
        BY <1>2, <1>3, <3>1
      <3>3. QED
        BY <3>2 DEF In
    <2>3. In(e, d)
      <3>1. 1 \in 1 .. Len(d)
        BY <1>2
      <3>2. QED
        BY <1>2, <3>1 DEF In
    <2>4. QED
      BY <2>1, <2>2, <2>3
  <1>6. Distinct(d)
    <2>1. SUFFICES ASSUME NEW k \in 1 .. n + 1, NEW l \in 1 .. n + 1, d[k] = d[l] PROVE k = l
      BY <1>2 DEF Distinct
    <2>2. CASE k = 1 /\ l = 1
      BY <2>2
    <2>3. CASE k = 1 /\ l # 1
      BY <1>2, <1>3, <1>4, <2>1, <2>3
    <2>4. CASE k # 1 /\ l = 1
      BY <1>2, <1>3, <1>4, <2>1, <2>4
    <2>5. CASE k # 1 /\ l # 1
      <3>1. k - 1 \in 1 .. n /\ l - 1 \in 1 .. n /\ c[k - 1] = c[l - 1]
        BY <1>4, <2>1, <2>5
      <3>2. k - 1 = l - 1
        BY <1>1, <3>1 DEF Distinct
      <3>3. QED
        BY <1>2, <3>2
    <2>6. QED
      BY <2>2, <2>3, <2>4, <2>5
  <1>7. e = At(d, 1)
    <2>1. 1 \in 1 .. Len(d)
      BY <1>2
    <2>2. QED
      BY <1>2, <2>1 DEF At
  <1>8. \A k \in 0 .. n + 1 : At(d, k + 1) = IF k = 0 THEN e ELSE At(c, k)
    <2>1. ASSUME NEW k \in 0 .. n + 1, k # 0 PROVE At(d, k + 1) = At(c, k)
      <3>1. CASE k \in 1 .. n
        <4>1. k + 1 \in 1 .. Len(d) /\ d[k + 1] = c[k]
          BY <1>2, <1>3, <3>1
        <4>2. QED
          BY <3>1, <4>1 DEF At
      <3>2. CASE k \notin 1 .. n
        <4>1. k + 1 \notin 1 .. Len(d)
          BY <1>2, <2>1, <3>2
        <4>2. QED
          BY <3>2, <4>1 DEF At
      <3>3. QED
        BY <3>1, <3>2
    <2>2. QED
      BY <1>7, <2>1
  <1>9. At(d, 0) = NULL /\ At(c, 0) = NULL
    BY <1>2 DEF At
  <1>10. ASSUME NEW k \in 1 .. n + 1
         PROVE  nxt2[d[k]] = At(d, k + 1) /\ prv2[d[k]] = At(d, k - 1)
    <2>1. CASE k = 1
      <3>1. At(d, 1 + 1) = At(c, 1)
        <4>1. 1 \in 0 .. n + 1 /\ 1 # 0
          BY <1>2
        <4>2. QED
          BY <1>8, <4>1
      <3>2. QED
        BY <1>0, <1>1, <1>2, <1>9, <2>1, <3>1
    <2>2. CASE k # 1
      <3> DEFINE j == k - 1
      <3>1. j \in 1 .. n /\ d[k] = c[j] /\ j + 1 = k /\ k \in 0 .. n + 1 /\ k # 0 /\ j \in Nat
        BY <1>2, <1>4, <2>2
      <3>2. j - 1 \in 0 .. n + 1 /\ (j - 1) + 1 = j
        BY <1>2, <3>1
      <3> HIDE DEF j
      <3>3. nxt2[c[j]] = At(c, j + 1) /\ At(d, k + 1) = At(c, k)
        BY <1>0, <1>1, <1>3, <1>8, <3>1
      <3>4. prv2[c[j]] = IF c[j] = head THEN e ELSE At(c, j - 1)
        BY <1>0, <1>1, <1>3, <3>1
      <3>5. c[j] = head <=> j = 1
        <4>1. 1 \in 1 .. n
          BY <1>2, <3>1
        <4>2. head = c[1]
          BY <1>1, <4>1 DEF At
        <4>3. QED
          BY <1>1, <3>1, <4>1, <4>2 DEF Distinct
      <3>6. At(d, j) = IF j = 1 THEN e ELSE At(c, j - 1)
        <4>1. j - 1 = 0 <=> j = 1
          BY <3>1
        <4>2. QED
          BY <1>8, <3>2, <4>1
      <3>7. QED
        BY <3>1, <3>3, <3>4, <3>5, <3>6 DEF j
    <2>3. QED
      BY <2>1, <2>2
  <1>11. Links(S, nxt2, prv2, e, d)
    BY <1>2, <1>6, <1>7, <1>10 DEF Links
  <1>12. QED
    BY <1>2, <1>5, <1>11 DEF d

\* How they change when e becomes the last element of c, which has some.
Backs(nxt, prv, c, e, nxt2, prv2) ==
  /\ ~ In(e, c) /\ nxt2[e] = NULL /\ prv2[e] = c[Len(c)]
  /\ \A x : In(x, c) => prv2[x] = prv[x] /\ nxt2[x] = IF x = c[Len(c)] THEN e ELSE nxt[x]

\* And with a new last element.
LEMMA PushBack ==
  ASSUME NEW S, NULL \notin S, NEW nxt, NEW prv, NEW head, NEW c, c # <<>>,
         Links(S, nxt, prv, head, c), NEW e \in S,
         NEW nxt2, NEW prv2, Backs(nxt, prv, c, e, nxt2, prv2)
  PROVE  /\ Links(S, nxt2, prv2, head, Append(c, e))
         /\ Len(Append(c, e)) = Len(c) + 1 /\ Append(c, e)[Len(c) + 1] = e
         /\ \A x : In(x, Append(c, e)) <=> x = e \/ In(x, c)
  <1> DEFINE d == Append(c, e)
             n == Len(c)
  <1>1. /\ c \in Seq(S) /\ Distinct(c) /\ head = At(c, 1)
        /\ \A k \in 1 .. n : nxt[c[k]] = At(c, k + 1) /\ prv[c[k]] = At(c, k - 1)
    BY DEF Links
  <1>0. /\ ~ In(e, c) /\ nxt2[e] = NULL /\ prv2[e] = c[Len(c)]
        /\ \A x : In(x, c) => prv2[x] = prv[x] /\ nxt2[x] = IF x = c[Len(c)] THEN e ELSE nxt[x]
    BY DEF Backs
  <1>2. n \in Nat \ {0} /\ d \in Seq(S) /\ Len(d) = n + 1 /\ d[n + 1] = e
    BY <1>1
  <1>3. \A k \in 1 .. n : d[k] = c[k] /\ In(c[k], c) /\ c[k] # e /\ c[k] \in S
    BY <1>0, <1>1 DEF In
  <1> HIDE DEF d, n
  <1>4. \A k \in 1 .. n + 1 : k \in 1 .. n \/ k = n + 1
    BY <1>2
  <1>5. \A x : In(x, d) <=> x = e \/ In(x, c)
    <2>1. n + 1 \in 1 .. Len(d) /\ \A k \in 1 .. n : k \in 1 .. Len(d)
      BY <1>2
    <2>2. ASSUME NEW x, In(x, d) PROVE x = e \/ In(x, c)
      BY <1>2, <1>3, <1>4, <2>2 DEF In, n
    <2>3. ASSUME NEW x, In(x, c) PROVE In(x, d)
      BY <1>3, <2>1, <2>3 DEF In, n
    <2>4. In(e, d)
      BY <1>2, <2>1 DEF In
    <2>5. QED
      BY <2>2, <2>3, <2>4
  <1>6. Distinct(d)
    <2>1. SUFFICES ASSUME NEW k \in 1 .. n + 1, NEW l \in 1 .. n + 1, d[k] = d[l] PROVE k = l
      BY <1>2 DEF Distinct
    <2>2. CASE k \in 1 .. n /\ l \in 1 .. n
      BY <1>1, <1>3, <2>1, <2>2 DEF Distinct, n
    <2>3. CASE k = n + 1 /\ l \in 1 .. n
      BY <1>2, <1>3, <2>1, <2>3
    <2>4. CASE k \in 1 .. n /\ l = n + 1
      BY <1>2, <1>3, <2>1, <2>4
    <2>5. QED
      BY <1>4, <2>2, <2>3, <2>4
  <1>7. \A k \in 0 .. n : At(d, k) = At(c, k)
    <2>1. ASSUME NEW k \in 0 .. n PROVE At(d, k) = At(c, k)
      <3>1. k \in 1 .. Len(d) <=> k \in 1 .. n
        BY <1>2
      <3>2. QED
        BY <1>3, <3>1 DEF At, n
    <2>2. QED
      BY <2>1
  <1>8. At(d, n + 1) = e /\ At(d, n + 1 + 1) = NULL /\ At(c, n + 1) = NULL
    <2>1. n + 1 \in 1 .. Len(d) /\ n + 1 + 1 \notin 1 .. Len(d) /\ n + 1 \notin 1 .. n
      BY <1>2
    <2>2. QED
      BY <1>2, <2>1 DEF At, n
  <1>9. head = At(d, 1)
    <2>1. 1 \in 0 .. n
      BY <1>2
    <2>2. QED
      BY <1>1, <1>7, <2>1
  <1>10. ASSUME NEW k \in 1 .. n + 1
         PROVE  nxt2[d[k]] = At(d, k + 1) /\ prv2[d[k]] = At(d, k - 1)
    <2>1. CASE k = n + 1
      <3>1. At(d, k - 1) = At(c, n) /\ At(c, n) = c[n]
        <4>1. k - 1 = n /\ n \in 0 .. n /\ n \in 1 .. n
          BY <1>2, <2>1
        <4>2. QED
          BY <1>7, <4>1 DEF At, n
      <3>2. QED
        BY <1>0, <1>2, <1>8, <2>1, <3>1 DEF n
    <2>2. CASE k \in 1 .. n
      <3>1. d[k] = c[k] /\ k - 1 \in 0 .. n
        BY <1>2, <1>3, <2>2
      <3>2. prv2[d[k]] = At(d, k - 1)
        BY <1>0, <1>1, <1>3, <1>7, <2>2, <3>1
      <3>3. CASE k = n
        <4>1. nxt2[c[n]] = e
          BY <1>0, <1>3, <2>2, <3>3 DEF n
        <4>2. QED
          BY <1>8, <3>1, <3>2, <3>3, <4>1
      <3>4. CASE k # n
        <4>1. c[k] # c[n]
          <5>1. n \in 1 .. n
            BY <1>2
          <5>2. QED
            BY <1>1, <2>2, <3>4, <5>1 DEF Distinct, n
        <4>2. nxt2[c[k]] = At(c, k + 1)
          BY <1>0, <1>1, <1>3, <2>2, <4>1 DEF n
        <4>3. k + 1 \in 0 .. n
          BY <1>2, <2>2, <3>4
        <4>4. QED
          BY <1>7, <3>1, <3>2, <4>2, <4>3
      <3>5. QED
        BY <3>3, <3>4
    <2>3. QED
      BY <1>4, <2>1, <2>2
  <1>11. Links(S, nxt2, prv2, head, d)
    BY <1>2, <1>6, <1>9, <1>10 DEF Links
  <1>12. QED
    BY <1>2, <1>5, <1>11 DEF d, n

\* A list without the element at a place.
LEMMA RemoveAtIs ==
  ASSUME NEW S, NEW c \in Seq(S), NEW p \in 1 .. Len(c)
  PROVE  /\ RemoveAt(c, p) \in Seq(S) /\ Len(RemoveAt(c, p)) = Len(c) - 1
         /\ \A k \in 1 .. Len(c) - 1 : RemoveAt(c, p)[k] = IF k < p THEN c[k] ELSE c[k + 1]
  <1> DEFINE a == SubSeq(c, 1, p - 1)
             b == SubSeq(c, p + 1, Len(c))
  <1>1. Len(c) \in Nat /\ p \in Nat /\ 1 <= p /\ p <= Len(c)
    OBVIOUS
  <1>2. a \in Seq(S) /\ Len(a) = p - 1 /\ \A k \in 1 .. p - 1 : a[k] = c[k]
    BY <1>1
  <1>3. b \in Seq(S) /\ Len(b) = Len(c) - p /\ \A k \in 1 .. Len(c) - p : b[k] = c[p + k]
    BY <1>1
  <1>4. RemoveAt(c, p) = a \o b
    BY DEF RemoveAt
  <1> HIDE DEF a, b
  <1>5. a \o b \in Seq(S) /\ Len(a \o b) = Len(c) - 1
    <2>1. a \o b \in Seq(S) /\ Len(a \o b) = Len(a) + Len(b)
      BY <1>2, <1>3, ConcatIs
    <2>2. QED
      BY <1>1, <1>2, <1>3, <2>1
  <1>6. ASSUME NEW k \in 1 .. Len(c) - 1 PROVE (a \o b)[k] = IF k < p THEN c[k] ELSE c[k + 1]
    <2>1. CASE k < p
      <3>1. k \in 1 .. p - 1 /\ k \in 1 .. Len(a) /\ k <= Len(a)
        BY <1>1, <1>2, <2>1
      <3>2. (a \o b)[k] = a[k]
        BY <1>2, <1>3, <3>1
      <3>3. QED
        BY <1>2, <2>1, <3>1, <3>2
    <2>2. CASE ~ (k < p)
      <3> DEFINE j == k - (p - 1)
      <3>1. j \in 1 .. Len(c) - p /\ p + j = k + 1
        BY <1>1, <2>2
      <3>2. (a \o b)[k] = b[k - Len(a)]
        BY <1>1, <1>2, <1>3, <2>2
      <3>3. (a \o b)[k] = b[j]
        BY <1>2, <3>2
      <3> HIDE DEF j
      <3>4. b[j] = c[p + j]
        BY <1>3, <3>1
      <3>5. QED
        BY <2>2, <3>1, <3>3, <3>4
    <2>3. QED
      BY <2>1, <2>2
  <1>7. QED
    BY <1>4, <1>5, <1>6

\* How they change when the element at place p is taken out.
Cuts(nxt, prv, c, p, nxt2, prv2) ==
  \A x : In(x, c) /\ x # c[p] =>
    /\ nxt2[x] = IF x = prv[c[p]] THEN nxt[c[p]] ELSE nxt[x]
    /\ prv2[x] = IF x = nxt[c[p]] THEN prv[c[p]] ELSE prv[x]

\* A list that is linked both ways still is without one element.
LEMMA Unlink ==
  ASSUME NEW S, NULL \notin S, NEW nxt, NEW prv, NEW head, NEW c,
         Links(S, nxt, prv, head, c), NEW p \in 1 .. Len(c),
         NEW nxt2, NEW prv2, Cuts(nxt, prv, c, p, nxt2, prv2)
  PROVE  /\ Links(S, nxt2, prv2, IF p = 1 THEN nxt[c[p]] ELSE head, RemoveAt(c, p))
         /\ Len(RemoveAt(c, p)) = Len(c) - 1
         /\ \A x : In(x, RemoveAt(c, p)) <=> x # c[p] /\ In(x, c)
  <1> DEFINE d == RemoveAt(c, p)
             n == Len(c)
             e == c[p]
  <1>1. /\ c \in Seq(S) /\ Distinct(c) /\ head = At(c, 1)
        /\ \A k \in 1 .. n : nxt[c[k]] = At(c, k + 1) /\ prv[c[k]] = At(c, k - 1)
    BY DEF Links
  <1>2. n \in Nat \ {0} /\ p \in Nat /\ 1 <= p /\ p <= n
    BY <1>1
  <1>3. d \in Seq(S) /\ Len(d) = n - 1
    BY <1>1, RemoveAtIs
  <1>4. \A k \in 1 .. n - 1 : d[k] = IF k < p THEN c[k] ELSE c[k + 1]
    BY <1>1, RemoveAtIs
  <1>5. nxt[e] = At(c, p + 1) /\ prv[e] = At(c, p - 1)
    BY <1>1
  <1>6. \A k, l \in 1 .. n : c[k] = c[l] => k = l
    BY <1>1 DEF Distinct
  <1>7. \A k \in 1 .. n : In(c[k], c) /\ c[k] \in S
    BY <1>1 DEF In
  <1>8. \A k \in 1 .. n : At(c, k) = c[k]
    BY DEF At
  <1>9. \A k \in Int : k \notin 1 .. n => At(c, k) = NULL
    BY DEF At
  <1> HIDE DEF d, n, e
  <1> DEFINE Old(k) == IF k < p THEN k ELSE k + 1
  <1>10. \A k \in 1 .. n - 1 : d[k] = c[Old(k)] /\ Old(k) \in 1 .. n /\ Old(k) # p
    BY <1>2, <1>4
  <1>11. \A k \in 0 .. n : At(d, k) = At(c, Old(k))
    <2>1. ASSUME NEW k \in 0 .. n PROVE At(d, k) = At(c, Old(k))
      <3>1. CASE k \in 1 .. n - 1
        <4>1. At(d, k) = d[k]
          BY <1>3, <3>1 DEF At
        <4>2. At(c, Old(k)) = c[Old(k)]
          BY <1>8, <1>10, <3>1
        <4>3. QED
          BY <1>10, <3>1, <4>1, <4>2
      <3>2. CASE k \notin 1 .. n - 1
        <4>1. Old(k) \in Int /\ Old(k) \notin 1 .. n
          BY <1>2, <2>1, <3>2
        <4>2. At(d, k) = NULL
          BY <1>3, <3>2 DEF At
        <4>3. QED
          BY <1>9, <4>1, <4>2
      <3>3. QED
        BY <3>1, <3>2
    <2>2. QED
      BY <2>1
  <1>12. Distinct(d)
    <2>1. SUFFICES ASSUME NEW k \in 1 .. n - 1, NEW l \in 1 .. n - 1, d[k] = d[l] PROVE k = l
      BY <1>3 DEF Distinct
    <2>2. Old(k) = Old(l)
      <3> HIDE DEF Old
      <3>1. c[Old(k)] = c[Old(l)] /\ Old(k) \in 1 .. n /\ Old(l) \in 1 .. n
        BY <1>10, <2>1
      <3>2. QED
        BY <1>6, <3>1
    <2>3. k \in Int /\ l \in Int
      BY <1>2
    <2>4. QED
      BY <1>2, <2>2, <2>3
  <1>13. \A x : In(x, d) <=> x # e /\ In(x, c)
    <2>1. ASSUME NEW x, In(x, d) PROVE x # e /\ In(x, c)
      <3>1. PICK k \in 1 .. n - 1 : d[k] = x
        BY <1>3, <2>1 DEF In
      <3>2. x = c[Old(k)] /\ Old(k) \in 1 .. n /\ Old(k) # p
        BY <1>10, <3>1
      <3> HIDE DEF Old
      <3>3. p \in 1 .. n
        BY <1>2
      <3>4. QED
        BY <1>6, <1>7, <3>2, <3>3 DEF e
    <2>2. ASSUME NEW x, In(x, c), x # e PROVE In(x, d)
      <3>1. PICK k \in 1 .. n : c[k] = x
        BY <2>2 DEF In, n
      <3>2. k # p
        BY <2>2, <3>1 DEF e
      <3> DEFINE j == IF k < p THEN k ELSE k - 1
      <3>3. j \in 1 .. n - 1 /\ Old(j) = k
        BY <1>2, <3>1, <3>2
      <3> HIDE DEF j
      <3>4. d[j] = x
        BY <1>10, <3>1, <3>3
      <3>5. QED
        BY <1>3, <3>3, <3>4 DEF In
    <2>3. QED
      BY <2>1, <2>2
  <1>14. (IF p = 1 THEN nxt[e] ELSE head) = At(d, 1)
    <2>1. 1 \in 0 .. n /\ p + 1 \in Int
      BY <1>2
    <2>2. At(d, 1) = At(c, Old(1))
      BY <1>11, <2>1
    <2>3. CASE p = 1
      <3>1. Old(1) = p + 1
        BY <2>3
      <3>2. QED
        BY <1>5, <2>2, <2>3, <3>1
    <2>4. CASE p # 1
      <3>1. Old(1) = 1
        BY <1>2, <2>4
      <3>2. QED
        BY <1>1, <2>2, <2>4, <3>1
    <2>5. QED
      BY <2>3, <2>4
  <1>15. ASSUME NEW k \in 1 .. n - 1
         PROVE  nxt2[d[k]] = At(d, k + 1) /\ prv2[d[k]] = At(d, k - 1)
    <2> DEFINE j == Old(k)
    <2>1. k \in Nat /\ k + 1 \in 0 .. n /\ k - 1 \in 0 .. n /\ p \in 1 .. n
      BY <1>2
    <2>2. d[k] = c[j] /\ j \in 1 .. n /\ j # p
      BY <1>10
    <2>3. At(d, k + 1) = At(c, Old(k + 1)) /\ At(d, k - 1) = At(c, Old(k - 1))
      BY <1>11, <2>1
    <2>4. c[j] # c[p]
      <3> HIDE DEF Old
      <3>1. QED
        BY <1>6, <2>1, <2>2
    <2>5. /\ nxt2[c[j]] = IF c[j] = prv[c[p]] THEN nxt[c[p]] ELSE nxt[c[j]]
          /\ prv2[c[j]] = IF c[j] = nxt[c[p]] THEN prv[c[p]] ELSE prv[c[j]]
      <3> HIDE DEF Old
      <3>1. In(c[j], c)
        BY <1>7, <2>2
      <3>2. QED
        BY <2>4, <3>1 DEF Cuts
    <2>6. nxt[c[j]] = At(c, j + 1) /\ prv[c[j]] = At(c, j - 1)
      <3> HIDE DEF Old
      <3>1. QED
        BY <1>1, <2>2
    <2>7. c[j] = prv[c[p]] <=> j = p - 1
      <3>1. prv[c[p]] = At(c, p - 1)
        BY <1>5 DEF e
      <3> HIDE DEF Old
      <3>2. CASE p - 1 \in 1 .. n
        <4>1. prv[c[p]] = c[p - 1]
          BY <1>8, <3>1, <3>2
        <4>2. QED
          BY <1>6, <2>2, <3>2, <4>1
      <3>3. CASE p - 1 \notin 1 .. n
        <4>1. prv[c[p]] = NULL
          BY <1>2, <1>9, <3>1, <3>3
        <4>2. c[j] # NULL
          BY <1>7, <2>2
        <4>3. QED
          BY <2>2, <3>3, <4>1, <4>2
      <3>4. QED
        BY <3>2, <3>3
    <2>8. c[j] = nxt[c[p]] <=> j = p + 1
      <3>1. nxt[c[p]] = At(c, p + 1)
        BY <1>5 DEF e
      <3> HIDE DEF Old
      <3>2. CASE p + 1 \in 1 .. n
        <4>1. nxt[c[p]] = c[p + 1]
          BY <1>8, <3>1, <3>2
        <4>2. QED
          BY <1>6, <2>2, <3>2, <4>1
      <3>3. CASE p + 1 \notin 1 .. n
        <4>1. nxt[c[p]] = NULL
          BY <1>2, <1>9, <3>1, <3>3
        <4>2. c[j] # NULL
          BY <1>7, <2>2
        <4>3. QED
          BY <2>2, <3>3, <4>1, <4>2
      <3>4. QED
        BY <3>2, <3>3
    <2>9. nxt[c[p]] = At(c, p + 1) /\ prv[c[p]] = At(c, p - 1)
      BY <1>5 DEF e
    <2>10. nxt2[c[j]] = At(c, Old(k + 1))
      <3>1. CASE j = p - 1
        <4>1. Old(k + 1) = p + 1
          BY <1>2, <2>1, <3>1
        <4>2. QED
          BY <2>5, <2>7, <2>9, <3>1, <4>1
      <3>2. CASE j # p - 1
        <4>1. Old(k + 1) = j + 1
          BY <1>2, <2>1, <3>2
        <4>2. QED
          BY <2>5, <2>6, <2>7, <3>2, <4>1
      <3>3. QED
        BY <3>1, <3>2
    <2>11. prv2[c[j]] = At(c, Old(k - 1))
      <3>1. CASE j = p + 1
        <4>1. Old(k - 1) = p - 1
          BY <1>2, <2>1, <3>1
        <4>2. QED
          BY <2>5, <2>8, <2>9, <3>1, <4>1
      <3>2. CASE j # p + 1
        <4>1. Old(k - 1) = j - 1
          BY <1>2, <2>1, <3>2
        <4>2. QED
          BY <2>5, <2>6, <2>8, <3>2, <4>1
      <3>3. QED
        BY <3>1, <3>2
    <2>12. QED
      BY <2>2, <2>3, <2>10, <2>11
  <1>16. Links(S, nxt2, prv2, IF p = 1 THEN nxt[e] ELSE head, d)
    BY <1>3, <1>12, <1>14, <1>15 DEF Links
  <1>17. QED
    BY <1>3, <1>13, <1>16 DEF d, n, e

-----------------------------------------------------------------------------
(* Tables.                                                                 *)

IsTable(h) ==
  /\ DOMAIN h = {"head", "next", "prev", "hh_next", "hh_prev", "tbl"}
  /\ DOMAIN h.tbl =
       {"num_buckets", "buckets", "num_items", "tail", "ineff_expands", "noexpand"}

AreBuckets(h) ==
  /\ h.tbl.num_buckets \in Nat \ {0}
  /\ DOMAIN h.tbl.buckets = 0 .. h.tbl.num_buckets - 1
  /\ \A b \in 0 .. h.tbl.num_buckets - 1 :
       DOMAIN h.tbl.buckets[b] = {"hh_head", "count", "expand_mult"}

\* The part of a table that keeps the application order.
SameOrder(h, g) ==
  /\ g.head = h.head /\ g.next = h.next /\ g.prev = h.prev
  /\ g.tbl.num_items = h.tbl.num_items /\ g.tbl.tail = h.tbl.tail

\* The chains c of the buckets have the elements of m, each where its hash
\* value says.
Holds(h, c, m) ==
  /\ IsTable(h) /\ AreBuckets(h) /\ m \subseteq Elements
  /\ h.hh_next \in HandlePointers /\ h.hh_prev \in HandlePointers
  /\ \A b \in 0 .. h.tbl.num_buckets - 1 :
       /\ Links(Elements, h.hh_next, h.hh_prev, h.tbl.buckets[b].hh_head, c[b])
       /\ h.tbl.buckets[b].count = Len(c[b])
       /\ \A e : In(e, c[b]) <=> e \in m /\ To_bkt(e, h.tbl.num_buckets) = b

\* HASH_TO_BKT gives the number of a bucket.
LEMMA ToBktIs ==
  ASSUME hashv \in [Elements -> Nat], NEW e \in Elements, NEW n \in Nat \ {0}
  PROVE  To_bkt(e, n) \in 0 .. n - 1
  <1>1. hashv[e] \in Nat
    OBVIOUS
  <1>2. \A a \in Nat : a % n \in 0 .. n - 1
    OBVIOUS
  <1>3. QED
    BY <1>1, <1>2 DEF To_bkt

\* What a bucket becomes by a push.
Pushed(h, g, b, e) ==
  /\ IsTable(g) /\ SameOrder(h, g) /\ g.tbl.num_buckets = h.tbl.num_buckets
  /\ g.hh_next = [h.hh_next EXCEPT ![e] = h.tbl.buckets[b].hh_head]
  /\ g.hh_prev = [x \in Elements |-> IF x = e THEN NULL
                    ELSE IF x = h.tbl.buckets[b].hh_head THEN e ELSE h.hh_prev[x]]
  /\ DOMAIN g.tbl.buckets = DOMAIN h.tbl.buckets
  /\ DOMAIN g.tbl.buckets[b] = {"hh_head", "count", "expand_mult"}
  /\ g.tbl.buckets[b].hh_head = e /\ g.tbl.buckets[b].count = h.tbl.buckets[b].count + 1
  /\ \A c \in DOMAIN h.tbl.buckets : c # b => g.tbl.buckets[c] = h.tbl.buckets[c]

\* HASH_ADD_TO_BKT makes e the head of its chain.
LEMMA PushIs ==
  ASSUME NEW h, IsTable(h), AreBuckets(h), NEW b \in 0 .. h.tbl.num_buckets - 1, NEW e
  PROVE  Pushed(h, Push(h, b, e), b, e)
  <1> DEFINE g == Push(h, b, e)
             old == h.tbl.buckets[b]
  <1>1. /\ IsTable(g) /\ SameOrder(h, g) /\ g.tbl.num_buckets = h.tbl.num_buckets
        /\ g.hh_next = [h.hh_next EXCEPT ![e] = h.tbl.buckets[b].hh_head]
        /\ g.hh_prev = [x \in Elements |-> IF x = e THEN NULL
                    ELSE IF x = h.tbl.buckets[b].hh_head THEN e ELSE h.hh_prev[x]]
    BY DEF IsTable, SameOrder, Push
  <1>2. g.tbl.buckets = [h.tbl.buckets EXCEPT ![b] =
                           [[old EXCEPT !.hh_head = e] EXCEPT !.count = old.count + 1]]
    BY DEF IsTable, AreBuckets, Push
  <1> HIDE DEF g
  <1>3. DOMAIN old = {"hh_head", "count", "expand_mult"} /\ b \in DOMAIN h.tbl.buckets
    BY DEF AreBuckets
  <1>4. /\ DOMAIN g.tbl.buckets = DOMAIN h.tbl.buckets
        /\ g.tbl.buckets[b] = [[old EXCEPT !.hh_head = e] EXCEPT !.count = old.count + 1]
        /\ \A c \in DOMAIN h.tbl.buckets : c # b => g.tbl.buckets[c] = h.tbl.buckets[c]
    BY <1>2, <1>3
  <1>5. /\ DOMAIN g.tbl.buckets[b] = {"hh_head", "count", "expand_mult"}
        /\ g.tbl.buckets[b].hh_head = e /\ g.tbl.buckets[b].count = old.count + 1
    BY <1>3, <1>4
  <1>6. QED
    BY <1>1, <1>4, <1>5 DEF g, Pushed

\* A new element goes to the chain that its hash value says.
LEMMA PushHolds ==
  ASSUME hashv \in [Elements -> Nat], NEW h, NEW c, NEW m, Holds(h, c, m),
         NEW e \in Elements \ m, NEW g, Pushed(h, g, To_bkt(e, h.tbl.num_buckets), e)
  PROVE  \E d : Holds(g, d, m \cup {e})
  <1> DEFINE n == h.tbl.num_buckets
             b == To_bkt(e, n)
             d == [a \in 0 .. n - 1 |-> IF a = b THEN <<e>> \o c[b] ELSE c[a]]
             first == h.tbl.buckets[b].hh_head
  <1>1. /\ IsTable(h) /\ AreBuckets(h) /\ m \subseteq Elements
        /\ h.hh_next \in HandlePointers /\ h.hh_prev \in HandlePointers
    BY DEF Holds
  <1>2. \A a \in 0 .. n - 1 :
          /\ Links(Elements, h.hh_next, h.hh_prev, h.tbl.buckets[a].hh_head, c[a])
          /\ h.tbl.buckets[a].count = Len(c[a])
          /\ \A x : In(x, c[a]) <=> x \in m /\ To_bkt(x, n) = a
    BY DEF Holds
  <1>3. n \in Nat \ {0} /\ b \in 0 .. n - 1
    BY <1>1, ToBktIs DEF AreBuckets
  <1>4. /\ IsTable(g) /\ SameOrder(h, g) /\ g.tbl.num_buckets = n
        /\ g.hh_next = [h.hh_next EXCEPT ![e] = first]
        /\ g.hh_prev = [x \in Elements |-> IF x = e THEN NULL
                          ELSE IF x = first THEN e ELSE h.hh_prev[x]]
        /\ DOMAIN g.tbl.buckets = DOMAIN h.tbl.buckets
        /\ DOMAIN g.tbl.buckets[b] = {"hh_head", "count", "expand_mult"}
        /\ g.tbl.buckets[b].hh_head = e /\ g.tbl.buckets[b].count = h.tbl.buckets[b].count + 1
        /\ \A a \in DOMAIN h.tbl.buckets : a # b => g.tbl.buckets[a] = h.tbl.buckets[a]
    BY DEF Pushed
  <1> HIDE DEF n, b, first
  <1>5. DOMAIN h.tbl.buckets = 0 .. n - 1
    BY <1>1 DEF AreBuckets, n
  <1>6. AreBuckets(g)
    BY <1>1, <1>3, <1>4, <1>5 DEF AreBuckets, n
  <1>7. d[b] = <<e>> \o c[b] /\ \A a \in 0 .. n - 1 : a # b => d[a] = c[a]
    BY <1>3
  <1> HIDE DEF d
  <1>8. c[b] \in Seq(Elements) /\ first = At(c[b], 1) /\ first \in Elements \cup {NULL}
    <2>1. Links(Elements, h.hh_next, h.hh_prev, first, c[b])
      BY <1>2, <1>3 DEF first
    <2>2. QED
      BY <2>1 DEF Links, At
  <1>9. g.hh_next \in HandlePointers /\ g.hh_prev \in HandlePointers
    BY <1>1, <1>4, <1>8 DEF HandlePointers
  <1>10. \A x \in Elements : x # e => g.hh_next[x] = h.hh_next[x]
    BY <1>1, <1>4 DEF HandlePointers
  <1>11. g.hh_next[e] = first /\ g.hh_prev[e] = NULL
    BY <1>1, <1>4 DEF HandlePointers
  <1>12. \A x \in Elements : x # e => g.hh_prev[x] = IF x = first THEN e ELSE h.hh_prev[x]
    BY <1>4
  <1>13. \A a \in 0 .. n - 1 : \A x : In(x, c[a]) => x \in Elements /\ x # e
    BY <1>1, <1>2
  <1>14. /\ Links(Elements, g.hh_next, g.hh_prev, e, d[b])
         /\ Len(d[b]) = Len(c[b]) + 1
         /\ \A x : In(x, d[b]) <=> x = e \/ In(x, c[b])
    <2>1. Links(Elements, h.hh_next, h.hh_prev, first, c[b])
      BY <1>2, <1>3 DEF first
    <2>2. ~ In(e, c[b]) /\ NULL \notin Elements
      BY <1>3, <1>13
    <2>3. \A x : In(x, c[b]) => /\ g.hh_next[x] = h.hh_next[x]
                                /\ g.hh_prev[x] = IF x = first THEN e ELSE h.hh_prev[x]
      BY <1>3, <1>10, <1>12, <1>13
    <2> DEFINE n1 == h.hh_next
               p1 == h.hh_prev
               n2 == g.hh_next
               p2 == g.hh_prev
               cb == c[b]
    <2> HIDE DEF n1, p1, n2, p2, cb
    <2>4. /\ Links(Elements, n2, p2, e, <<e>> \o cb)
          /\ Len(<<e>> \o cb) = Len(cb) + 1
          /\ \A x : In(x, <<e>> \o cb) <=> x = e \/ In(x, cb)
      <3>1. Links(Elements, n1, p1, first, cb)
        BY <2>1 DEF n1, p1, cb
      <3>2. \A x : In(x, cb) => n2[x] = n1[x] /\ p2[x] = IF x = first THEN e ELSE p1[x]
        BY <2>3 DEF n1, p1, n2, p2, cb
      <3>3. n2[e] = first /\ p2[e] = NULL /\ ~ In(e, cb)
        BY <1>11, <2>2 DEF n2, p2, cb
      <3>4. QED
        <4>1. Fronts(n1, p1, first, cb, e, n2, p2)
          BY <3>2, <3>3 DEF Fronts
        <4>2. QED
          BY <2>2, <3>1, <4>1, PushFront
    <2>5. QED
      BY <1>7, <2>4 DEF n2, p2, cb
  <1>15. ASSUME NEW a \in 0 .. n - 1, a # b
         PROVE  Links(Elements, g.hh_next, g.hh_prev, g.tbl.buckets[a].hh_head, d[a])
    <2>1. Links(Elements, h.hh_next, h.hh_prev, h.tbl.buckets[a].hh_head, c[a])
      BY <1>2
    <2>2. \A x : In(x, c[a]) => ~ In(x, c[b])
      BY <1>2, <1>3, <1>15
    <2>3. \A x : In(x, c[a]) => x # first
      <3>1. first # NULL => In(first, c[b])
        <4>1. 1 \in 1 .. Len(c[b]) => In(c[b][1], c[b])
          BY DEF In
        <4>2. QED
          BY <1>8, <4>1 DEF At
      <3>2. \A x : In(x, c[a]) => x # NULL
        BY <1>13
      <3>3. QED
        BY <2>2, <3>1, <3>2
    <2>4. \A x : In(x, c[a]) => g.hh_next[x] = h.hh_next[x] /\ g.hh_prev[x] = h.hh_prev[x]
      BY <1>10, <1>12, <1>13, <2>3
    <2>5. Links(Elements, g.hh_next, g.hh_prev, h.tbl.buckets[a].hh_head, c[a])
      BY <2>1, <2>4, LinksFrame
    <2>6. QED
      BY <1>4, <1>5, <1>7, <1>15, <2>5
  <1>16. ASSUME NEW a \in 0 .. n - 1
         PROVE  /\ Links(Elements, g.hh_next, g.hh_prev, g.tbl.buckets[a].hh_head, d[a])
                /\ g.tbl.buckets[a].count = Len(d[a])
                /\ \A x : In(x, d[a]) <=> x \in m \cup {e} /\ To_bkt(x, n) = a
    <2>1. CASE a = b
      <3>1. \A x : In(x, d[b]) <=> x \in m \cup {e} /\ To_bkt(x, n) = b
        <4>1. To_bkt(e, n) = b
          BY DEF b
        <4>2. QED
          BY <1>2, <1>3, <1>14, <4>1
      <3>2. g.tbl.buckets[b].count = Len(d[b])
        BY <1>2, <1>3, <1>4, <1>14
      <3>3. QED
        BY <1>4, <1>14, <2>1, <3>1, <3>2
    <2>2. CASE a # b
      <3>1. Links(Elements, g.hh_next, g.hh_prev, g.tbl.buckets[a].hh_head, d[a])
        BY <1>15, <2>2
      <3>2. g.tbl.buckets[a].count = Len(d[a])
        BY <1>2, <1>4, <1>5, <1>7, <2>2
      <3>3. \A x : In(x, d[a]) <=> x \in m \cup {e} /\ To_bkt(x, n) = a
        <4>1. To_bkt(e, n) # a
          BY <2>2 DEF b
        <4>2. QED
          BY <1>2, <1>7, <2>2, <4>1
      <3>4. QED
        BY <3>1, <3>2, <3>3
    <2>3. QED
      BY <2>1, <2>2
  <1>17. Holds(g, d, m \cup {e})
    <2>1. m \cup {e} \subseteq Elements
      BY <1>1
    <2> DEFINE u == m \cup {e}
    <2>2. \A a \in 0 .. g.tbl.num_buckets - 1 :
            /\ Links(Elements, g.hh_next, g.hh_prev, g.tbl.buckets[a].hh_head, d[a])
            /\ g.tbl.buckets[a].count = Len(d[a])
            /\ \A x : In(x, d[a]) <=> x \in u /\ To_bkt(x, g.tbl.num_buckets) = a
      BY <1>4, <1>16
    <2> HIDE DEF u
    <2>3. IsTable(g) /\ u \subseteq Elements
      BY <1>4, <2>1 DEF u
    <2>4. Holds(g, d, u)
      BY <1>6, <1>9, <2>2, <2>3 DEF Holds
    <2>5. QED
      BY <2>4 DEF u
  <1>18. QED
    BY <1>17

\* The walk along a chain finds its elements.
LEMMA ChainIs ==
  ASSUME NEW h, NEW c, NEW m, Holds(h, c, m), NEW b \in 0 .. h.tbl.num_buckets - 1
  PROVE  Chain(h, b) = c[b] /\ c[b] \in Seq(Elements) /\ Distinct(c[b])
  <1> DEFINE nxt == h.hh_next
             head == h.tbl.buckets[b].hh_head
             cb == c[b]
             n == Cardinality(Elements) + 1
  <1>1. nxt \in [Elements -> Elements \cup {NULL}]
    BY DEF Holds, HandlePointers
  <1>2. Links(Elements, nxt, h.hh_prev, head, cb)
    BY DEF Holds
  <1>3. Chain(h, b) = Path(nxt, head, n)
    BY DEF Chain
  <1> HIDE DEF nxt, head, cb, n
  <1>4. cb \in Seq(Elements) /\ Distinct(cb) /\ LeadsThrough(nxt, head, cb)
    BY <1>2 DEF Links, LeadsThrough
  <1>5. n \in Nat /\ Len(cb) <= n
    <2>1. Len(cb) <= Cardinality(Elements) /\ Cardinality(Elements) \in Nat
      BY <1>4, DistinctFits
    <2>2. QED
      BY <1>4, <2>1 DEF n
  <1>6. Path(nxt, head, n) = cb
    BY <1>1, <1>4, <1>5, PathIs
  <1>7. QED
    BY <1>3, <1>4, <1>6 DEF cb

\* The elements of two lists put together.
LEMMA ConcatHas ==
  ASSUME NEW S, NEW s \in Seq(S), NEW t \in Seq(S)
  PROVE  \A x : In(x, s \o t) <=> In(x, s) \/ In(x, t)
  <1>1. s \o t \in Seq(S) /\ Len(s \o t) = Len(s) + Len(t) /\ Len(s) \in Nat /\ Len(t) \in Nat
    BY ConcatIs
  <1>2. \A k \in 1 .. Len(s) : (s \o t)[k] = s[k] /\ k \in 1 .. Len(s \o t)
    BY <1>1
  <1>3. \A k \in 1 .. Len(t) : (s \o t)[Len(s) + k] = t[k] /\ Len(s) + k \in 1 .. Len(s \o t)
    BY <1>1
  <1>4. \A k \in 1 .. Len(s \o t) : k \in 1 .. Len(s) \/ k - Len(s) \in 1 .. Len(t)
    BY <1>1
  <1>5. \A k \in 1 .. Len(s \o t) : Len(s) + (k - Len(s)) = k
    BY <1>1
  <1> DEFINE u == s \o t
  <1> HIDE DEF u
  <1>6. ASSUME NEW x, In(x, u) PROVE In(x, s) \/ In(x, t)
    <2>1. PICK k \in 1 .. Len(u) : u[k] = x
      BY <1>6 DEF In
    <2>2. CASE k \in 1 .. Len(s)
      BY <1>2, <2>1, <2>2 DEF In, u
    <2>3. CASE k - Len(s) \in 1 .. Len(t)
      <3>1. u[k] = t[k - Len(s)]
        BY <1>3, <1>5, <2>3 DEF u
      <3>2. QED
        BY <2>1, <2>3, <3>1 DEF In
    <2>4. QED
      BY <1>4, <2>2, <2>3 DEF u
  <1>7. ASSUME NEW x, In(x, s) PROVE In(x, u)
    BY <1>2, <1>7 DEF In, u
  <1>8. ASSUME NEW x, In(x, t) PROVE In(x, u)
    BY <1>3, <1>8 DEF In, u
  <1>9. QED
    BY <1>6, <1>7, <1>8 DEF u

\* Two lists without repetition and without a common element.
LEMMA ConcatDistinct ==
  ASSUME NEW S, NEW s \in Seq(S), NEW t \in Seq(S), Distinct(s), Distinct(t),
         \A x : ~ (In(x, s) /\ In(x, t))
  PROVE  Distinct(s \o t)
  <1>1. s \o t \in Seq(S) /\ Len(s \o t) = Len(s) + Len(t) /\ Len(s) \in Nat /\ Len(t) \in Nat
    BY ConcatIs
  <1>2. \A k \in 1 .. Len(s) : (s \o t)[k] = s[k]
    BY <1>1
  <1>3. \A k \in 1 .. Len(t) : (s \o t)[Len(s) + k] = t[k]
    BY <1>1
  <1>4. \A k \in 1 .. Len(s \o t) :
          k \in 1 .. Len(s) \/ (k - Len(s) \in 1 .. Len(t) /\ Len(s) + (k - Len(s)) = k)
    BY <1>1
  <1> DEFINE u == s \o t
  <1> HIDE DEF u
  <1>5. \A k \in 1 .. Len(u) :
          \/ k \in 1 .. Len(s) /\ u[k] = s[k] /\ In(u[k], s)
          \/ k - Len(s) \in 1 .. Len(t) /\ u[k] = t[k - Len(s)] /\ In(u[k], t)
    <2>1. ASSUME NEW k \in 1 .. Len(u), k \in 1 .. Len(s) PROVE u[k] = s[k] /\ In(u[k], s)
      BY <1>2, <2>1 DEF In, u
    <2>2. ASSUME NEW k \in 1 .. Len(u), k - Len(s) \in 1 .. Len(t), Len(s) + (k - Len(s)) = k
          PROVE  u[k] = t[k - Len(s)] /\ In(u[k], t)
      <3>1. u[k] = t[k - Len(s)]
        BY <1>3, <2>2 DEF u
      <3>2. QED
        BY <2>2, <3>1 DEF In
    <2>3. QED
      BY <1>4, <2>1, <2>2 DEF u
  <1>6. SUFFICES ASSUME NEW k \in 1 .. Len(u), NEW l \in 1 .. Len(u), u[k] = u[l] PROVE k = l
    BY DEF Distinct, u
  <1>7. CASE In(u[k], s)
    <2>1. k \in 1 .. Len(s) /\ l \in 1 .. Len(s) /\ s[k] = s[l]
      BY <1>5, <1>6, <1>7
    <2>2. QED
      BY <2>1 DEF Distinct
  <1>8. CASE ~ In(u[k], s)
    <2>1. k - Len(s) \in 1 .. Len(t) /\ l - Len(s) \in 1 .. Len(t) /\ t[k - Len(s)] = t[l - Len(s)]
      BY <1>5, <1>6, <1>8
    <2>2. k - Len(s) = l - Len(s)
      BY <2>1 DEF Distinct
    <2>3. k \in Int /\ l \in Int
      OBVIOUS
    <2>4. QED
      BY <1>1, <2>2, <2>3
  <1>9. QED
    BY <1>7, <1>8

\* The order of the buckets, bucket by bucket.
LEMMA OrderSteps ==
  ASSUME NEW h, NEW c, NEW m, Holds(h, c, m)
  PROVE  \E upto : /\ InBucketOrder(h) = upto[h.tbl.num_buckets] /\ upto[0] = <<>>
                   /\ \A b \in 1 .. h.tbl.num_buckets : upto[b] = upto[b - 1] \o Chain(h, b - 1)
  <1> DEFINE n == h.tbl.num_buckets
             S == Seq(Elements)
             step == [x \in (1 .. n) \X S |-> x[2] \o Chain(h, x[1] - 1)]
             Is(g) == g = [b \in 0 .. n |-> IF b = 0 THEN <<>> ELSE g[b - 1] \o Chain(h, b - 1)]
             upto == CHOOSE g : Is(g)
  <1>1. n \in Nat \ {0}
    BY DEF Holds, AreBuckets
  <1>2. \A b \in 0 .. n - 1 : Chain(h, b) \in S
    BY ChainIs
  <1>3. InBucketOrder(h) = upto[n]
    BY DEF InBucketOrder
  <1> HIDE DEF n
  <1>4. <<>> \in S
    OBVIOUS
  <1>5. step \in [(1 .. n) \X S -> S]
    <2>1. ASSUME NEW b \in 1 .. n, NEW u \in S PROVE u \o Chain(h, b - 1) \in S
      <3>1. b - 1 \in 0 .. n - 1
        BY <1>1
      <3>2. Chain(h, b - 1) \in S
        BY <1>2, <3>1
      <3>3. QED
        BY <2>1, <3>2, ConcatIs
    <2> HIDE DEF S
    <2>2. QED
      BY <2>1
  <1>6. PICK f : Computes(S, <<>>, step, n, f)
    <2> HIDE DEF S, step
    <2>1. QED
      BY <1>1, <1>4, <1>5, LoopExists
  <1>7. /\ f \in [0 .. n -> S]
        /\ f = [k \in 0 .. n |-> IF k = 0 THEN <<>> ELSE step[<<k, f[k - 1]>>]]
    BY <1>6 DEF Computes
  <1> HIDE DEF S
  <1>8. Is(f)
    <2>1. ASSUME NEW k \in 0 .. n, k # 0
          PROVE  step[<<k, f[k - 1]>>] = f[k - 1] \o Chain(h, k - 1)
      <3>1. k \in 1 .. n /\ k - 1 \in 0 .. n
        BY <1>1, <2>1
      <3>2. f[k - 1] \in S
        BY <1>7, <3>1
      <3>3. QED
        BY <3>1, <3>2
    <2> HIDE DEF step
    <2>2. QED
      BY <1>7, <2>1
  <1>9. Is(upto)
    <2> HIDE DEF Is
    <2>1. QED
      BY <1>8
  <1> HIDE DEF upto, step
  <1>10. upto = [b \in 0 .. n |-> IF b = 0 THEN <<>> ELSE upto[b - 1] \o Chain(h, b - 1)]
    BY <1>9
  <1>11. upto[0] = <<>> /\ \A b \in 1 .. n : upto[b] = upto[b - 1] \o Chain(h, b - 1)
    <2> HIDE DEF Is
    <2>1. 0 \in 0 .. n
      BY <1>1
    <2>2. upto[0] = <<>>
      BY <1>10, <2>1
    <2>3. ASSUME NEW b \in 1 .. n PROVE upto[b] = upto[b - 1] \o Chain(h, b - 1)
      <3>1. b \in 0 .. n /\ b # 0
        BY <1>1, <2>3
      <3> DEFINE E(u) == u \o Chain(h, b - 1)
      <3>2. upto[b] = IF b = 0 THEN <<>> ELSE E(upto[b - 1])
        BY <1>10, <3>1
      <3> HIDE DEF E
      <3>3. upto[b] = E(upto[b - 1])
        BY <3>1, <3>2
      <3>4. QED
        BY <3>3 DEF E
    <2>4. QED
      BY <2>2, <2>3
  <1>12. QED
    BY <1>3, <1>11 DEF n

\* The order of the buckets has every element of the table once.
LEMMA InBucketOrderIs ==
  ASSUME hashv \in [Elements -> Nat], NEW h, NEW c, NEW m, Holds(h, c, m)
  PROVE  /\ InBucketOrder(h) \in Seq(Elements) /\ Distinct(InBucketOrder(h))
         /\ \A x : In(x, InBucketOrder(h)) <=> x \in m
  <1> DEFINE n == h.tbl.num_buckets
             S == Seq(Elements)
  <1>1. n \in Nat \ {0} /\ m \subseteq Elements
    BY DEF Holds, AreBuckets
  <1>2. \A b \in 0 .. n - 1 : Chain(h, b) = c[b] /\ c[b] \in S /\ Distinct(c[b])
    BY ChainIs
  <1>3. \A b \in 0 .. n - 1 : \A x : In(x, c[b]) <=> x \in m /\ To_bkt(x, n) = b
    BY DEF Holds
  <1>4. \A x \in Elements : To_bkt(x, n) \in 0 .. n - 1
    BY <1>1, ToBktIs
  <1>5. PICK upto : /\ InBucketOrder(h) = upto[n] /\ upto[0] = <<>>
                    /\ \A b \in 1 .. n : upto[b] = upto[b - 1] \o Chain(h, b - 1)
    BY OrderSteps
  <1> HIDE DEF n, S
  <1> DEFINE T == {b \in 0 .. n : /\ upto[b] \in Seq(Elements) /\ Distinct(upto[b])
                                  /\ \A x : In(x, upto[b]) <=> x \in m /\ To_bkt(x, n) < b}
  <1>6. 0 \in T
    <2>1. \A x : ~ In(x, <<>>)
      BY DEF In
    <2>2. \A x \in m : ~ (To_bkt(x, n) < 0)
      BY <1>1, <1>4
    <2>3. Distinct(<<>>)
      BY DEF Distinct
    <2>4. 0 \in 0 .. n /\ <<>> \in Seq(Elements) /\ upto[0] = <<>>
      BY <1>1, <1>5
    <2>5. \A x : In(x, <<>>) <=> x \in m /\ To_bkt(x, n) < 0
      BY <2>1, <2>2
    <2>6. /\ upto[0] \in Seq(Elements) /\ Distinct(upto[0])
          /\ \A x : In(x, upto[0]) <=> x \in m /\ To_bkt(x, n) < 0
      BY <2>3, <2>4, <2>5
    <2>7. QED
      BY <2>4, <2>6
  <1>7. ASSUME NEW b \in 0 .. n - 1, b \in T PROVE b + 1 \in T
    <2>1. b + 1 \in 1 .. n /\ (b + 1) - 1 = b /\ b + 1 \in 0 .. n /\ b \in Nat
      BY <1>1, <1>7
    <2>2. upto[b + 1] = upto[b] \o c[b]
      BY <1>2, <1>5, <2>1
    <2>3. /\ upto[b] \in Seq(Elements) /\ Distinct(upto[b])
          /\ \A x : In(x, upto[b]) <=> x \in m /\ To_bkt(x, n) < b
      BY <1>7
    <2>4. c[b] \in Seq(Elements) /\ Distinct(c[b])
      BY <1>2, <1>7 DEF S
    <2>5. \A x \in m : ~ (To_bkt(x, n) < b /\ To_bkt(x, n) = b)
      BY <1>1, <1>4, <2>1
    <2>6. \A x : ~ (In(x, upto[b]) /\ In(x, c[b]))
      BY <1>3, <1>7, <2>3, <2>5
    <2>7. upto[b + 1] \in Seq(Elements)
      BY <2>2, <2>3, <2>4, ConcatIs
    <2>8. Distinct(upto[b + 1])
      BY <2>2, <2>3, <2>4, <2>6, ConcatDistinct
    <2>9. \A x : In(x, upto[b + 1]) <=> In(x, upto[b]) \/ In(x, c[b])
      BY <2>2, <2>3, <2>4, ConcatHas
    <2>10. \A x \in m : To_bkt(x, n) < b + 1 <=> To_bkt(x, n) < b \/ To_bkt(x, n) = b
      BY <1>1, <1>4, <2>1
    <2>11. \A x : In(x, upto[b + 1]) <=> x \in m /\ To_bkt(x, n) < b + 1
      BY <1>3, <1>7, <2>3, <2>9, <2>10
    <2>12. QED
      BY <2>1, <2>7, <2>8, <2>11
  <1> HIDE DEF T
  <1>8. 0 .. n \subseteq T
    BY <1>1, <1>6, <1>7, AllUpto
  <1>9. /\ upto[n] \in Seq(Elements) /\ Distinct(upto[n])
         /\ \A x : In(x, upto[n]) <=> x \in m /\ To_bkt(x, n) < n
    <2>1. n \in T
      BY <1>1, <1>8
    <2>2. QED
      BY <2>1 DEF T
  <1>10. \A x \in m : To_bkt(x, n) < n
    BY <1>1, <1>4
  <1>11. QED
    BY <1>5, <1>9, <1>10

\* Only the chains and their handles matter.
SameChains(h, g) ==
  /\ g.hh_next = h.hh_next /\ g.hh_prev = h.hh_prev
  /\ g.tbl.num_buckets = h.tbl.num_buckets /\ g.tbl.buckets = h.tbl.buckets

\* A change of the application order leaves the chains.
LEMMA HoldsSame ==
  ASSUME NEW h, NEW c, NEW m, Holds(h, c, m), NEW g, IsTable(g), SameChains(h, g)
  PROVE  Holds(g, c, m)
  BY DEF Holds, SameChains, AreBuckets

\* An element that is moved in an expansion becomes the head of its chain.
LEMMA MoveIs ==
  ASSUME hashv \in [Elements -> Nat], NEW h, IsTable(h), AreBuckets(h), NEW e \in Elements,
         NEW ideal
  PROVE  Pushed(h, Move(h, e, h.tbl.num_buckets, ideal), To_bkt(e, h.tbl.num_buckets), e)
  <1> DEFINE b == To_bkt(e, h.tbl.num_buckets)
             g == Push(h, b, e)
             count == h.tbl.buckets[b].count + 1
             x == count \div ideal
             f == [g EXCEPT !.tbl.buckets[b].expand_mult = x]
  <1>1. b \in 0 .. h.tbl.num_buckets - 1
    BY ToBktIs DEF AreBuckets
  <1>2. Pushed(h, g, b, e)
    <2> HIDE DEF b
    <2>1. QED
      BY <1>1, PushIs
  <1>3. Move(h, e, h.tbl.num_buckets, ideal) = IF count > ideal THEN f ELSE g
    BY DEF Move
  <1> HIDE DEF b, g, x
  <1>4. /\ IsTable(g) /\ DOMAIN g.tbl.buckets = DOMAIN h.tbl.buckets
        /\ b \in DOMAIN g.tbl.buckets
        /\ DOMAIN g.tbl.buckets[b] = {"hh_head", "count", "expand_mult"}
    BY <1>1, <1>2 DEF Pushed, AreBuckets
  <1>5. /\ IsTable(f) /\ SameOrder(g, f) /\ f.tbl.num_buckets = g.tbl.num_buckets
        /\ f.hh_next = g.hh_next /\ f.hh_prev = g.hh_prev
        /\ f.tbl.buckets = [g.tbl.buckets EXCEPT ![b].expand_mult = x]
    <2>1. IsTable(f)
      BY <1>4 DEF IsTable
    <2>2. SameOrder(g, f)
      BY <1>4 DEF IsTable, SameOrder
    <2>3. f.tbl.num_buckets = g.tbl.num_buckets
      BY <1>4 DEF IsTable
    <2>4. f.hh_next = g.hh_next /\ f.hh_prev = g.hh_prev
      BY <1>4 DEF IsTable
    <2>5. f.tbl.buckets = [g.tbl.buckets EXCEPT ![b].expand_mult = x]
      BY <1>4 DEF IsTable
    <2>6. QED
      BY <2>1, <2>2, <2>3, <2>4, <2>5
  <1> HIDE DEF f
  <1>6. /\ DOMAIN f.tbl.buckets = DOMAIN g.tbl.buckets
        /\ f.tbl.buckets[b] = [g.tbl.buckets[b] EXCEPT !.expand_mult = x]
        /\ \A c \in DOMAIN g.tbl.buckets : c # b => f.tbl.buckets[c] = g.tbl.buckets[c]
    BY <1>4, <1>5
  <1>7. /\ DOMAIN f.tbl.buckets[b] = {"hh_head", "count", "expand_mult"}
        /\ f.tbl.buckets[b].hh_head = g.tbl.buckets[b].hh_head
        /\ f.tbl.buckets[b].count = g.tbl.buckets[b].count
    BY <1>4, <1>6
  <1>8. Pushed(h, f, b, e)
    <2>1. IsTable(f) /\ SameOrder(h, f) /\ f.tbl.num_buckets = h.tbl.num_buckets
      BY <1>2, <1>5 DEF Pushed, SameOrder
    <2>2. f.hh_next = [h.hh_next EXCEPT ![e] = h.tbl.buckets[b].hh_head]
      BY <1>2, <1>5 DEF Pushed
    <2>3. f.hh_prev = [x_ \in Elements |-> IF x_ = e THEN NULL
                        ELSE IF x_ = h.tbl.buckets[b].hh_head THEN e ELSE h.hh_prev[x_]]
      BY <1>2, <1>5 DEF Pushed
    <2>4. /\ DOMAIN f.tbl.buckets = DOMAIN h.tbl.buckets
          /\ f.tbl.buckets[b].hh_head = e
          /\ f.tbl.buckets[b].count = h.tbl.buckets[b].count + 1
      BY <1>2, <1>6, <1>7 DEF Pushed
    <2>5. \A d \in DOMAIN h.tbl.buckets : d # b => f.tbl.buckets[d] = h.tbl.buckets[d]
      BY <1>2, <1>6 DEF Pushed
    <2>6. QED
      BY <1>7, <2>1, <2>2, <2>3, <2>4, <2>5 DEF Pushed
  <1>9. QED
    BY <1>2, <1>3, <1>8 DEF b

\* The table after each move of an expansion.
MoveSteps(h, n, ideal, after) ==
  /\ after[0] = [h EXCEPT !.tbl.num_buckets = n, !.tbl.buckets = EmptyBuckets(n)]
  /\ \A j \in 1 .. Len(InBucketOrder(h)) :
       after[j] = Move(after[j - 1], InBucketOrder(h)[j], n, ideal)

LEMMA MovedSteps ==
  ASSUME NEW h, InBucketOrder(h) \in Seq(Elements), NEW n, NEW ideal
  PROVE  MoveSteps(h, n, ideal, Moved(h, n, ideal))
  <1> DEFINE all == InBucketOrder(h)
             l == Len(all)
             start == [h EXCEPT !.tbl.num_buckets = n, !.tbl.buckets = EmptyBuckets(n)]
             Is(k, f) == f = [j \in 0 .. k |-> IF j = 0 THEN start
                                               ELSE Move(f[j - 1], all[j], n, ideal)]
             U == {k \in 0 .. l : \E f : Is(k, f)}
             after == Moved(h, n, ideal)
  <1>1. l \in Nat
    OBVIOUS
  <1>2. after = CHOOSE f : Is(l, f)
    BY DEF Moved
  <1> HIDE DEF start, all, l, after
  <1>3. 0 \in U
    <2> DEFINE f == [j \in 0 .. 0 |-> start]
    <2>1. Is(0, f)
      OBVIOUS
    <2> HIDE DEF Is
    <2>2. QED
      BY <1>1, <2>1
  <1>4. ASSUME NEW k \in 0 .. l - 1, k \in U PROVE k + 1 \in U
    <2>1. PICK f : Is(k, f)
      BY <1>4
    <2>2. k \in Nat /\ k + 1 \in 0 .. l
      BY <1>1, <1>4
    <2> DEFINE Step(j, u) == Move(u, all[j], n, ideal)
               g == [j \in 0 .. k + 1 |-> IF j = k + 1 THEN Step(k + 1, f[k]) ELSE f[j]]
    <2>3. /\ f[0] = start
          /\ \A j \in 1 .. k : f[j] = Step(j, f[j - 1])
      <3> HIDE DEF Step
      <3>1. f = [j \in 0 .. k |-> IF j = 0 THEN start ELSE Step(j, f[j - 1])]
        BY <2>1 DEF Step
      <3> HIDE DEF Is
      <3>2. 0 \in 0 .. k /\ \A j \in 1 .. k : j \in 0 .. k /\ j # 0
        BY <2>2
      <3>3. QED
        BY <3>1, <3>2
    <2> HIDE DEF Step, Is
    <2>4. ASSUME NEW j \in 0 .. k + 1
          PROVE  g[j] = IF j = 0 THEN start ELSE Step(j, g[j - 1])
      <3>1. CASE j = 0
        BY <2>2, <2>3, <3>1
      <3>2. CASE j # 0
        <4>1. j - 1 \in 0 .. k + 1 /\ j - 1 # k + 1
          BY <2>2, <3>2
        <4>2. g[j - 1] = f[j - 1]
          BY <4>1
        <4>3. CASE j = k + 1
          <5>1. j - 1 = k
            BY <2>2, <4>3
          <5>2. g[j] = Step(k + 1, f[k])
            BY <4>3
          <5>3. QED
            BY <3>2, <4>2, <4>3, <5>1, <5>2
        <4>4. CASE j # k + 1
          <5>1. j \in 1 .. k /\ g[j] = f[j]
            BY <2>2, <3>2, <4>4
          <5>2. QED
            BY <2>3, <3>2, <4>2, <5>1
        <4>5. QED
          BY <4>3, <4>4
      <3>3. QED
        BY <3>1, <3>2
    <2>5. g = [j \in 0 .. k + 1 |-> g[j]]
      OBVIOUS
    <2> HIDE DEF g
    <2>6. Is(k + 1, g)
      BY <2>4, <2>5 DEF Is, Step
    <2>7. QED
      BY <2>2, <2>6
  <1> HIDE DEF U
  <1>5. 0 .. l \subseteq U
    BY <1>1, <1>3, <1>4, AllUpto
  <1>6. Is(l, after)
    <2>1. \E f : Is(l, f)
      <3>1. l \in U
        BY <1>1, <1>5
      <3>2. QED
        BY <3>1 DEF U
    <2> HIDE DEF Is
    <2>2. QED
      BY <1>2, <2>1
  <1>7. /\ after[0] = start
        /\ \A j \in 1 .. l : after[j] = Move(after[j - 1], all[j], n, ideal)
    <2> DEFINE Step(j, u) == Move(u, all[j], n, ideal)
    <2>1. after = [j \in 0 .. l |-> IF j = 0 THEN start ELSE Step(j, after[j - 1])]
      BY <1>6
    <2>2. 0 \in 0 .. l /\ \A j \in 1 .. l : j \in 0 .. l /\ j # 0
      BY <1>1
    <2> HIDE DEF Step, Is
    <2>3. after[0] = start /\ \A j \in 1 .. l : after[j] = Step(j, after[j - 1])
      BY <2>1, <2>2
    <2>4. QED
      BY <2>3 DEF Step
  <1>8. QED
    BY <1>7 DEF after, all, l, start, MoveSteps

\* Every element finds its new bucket when there are n of them.
LEMMA MovedIs ==
  ASSUME hashv \in [Elements -> Nat], NEW h, IsTable(h),
         h.hh_next \in HandlePointers, h.hh_prev \in HandlePointers,
         InBucketOrder(h) \in Seq(Elements), Distinct(InBucketOrder(h)),
         NEW m, \A x : In(x, InBucketOrder(h)) <=> x \in m,
         NEW n \in Nat \ {0}, NEW ideal
  PROVE  LET g == Moved(h, n, ideal)[Len(InBucketOrder(h))]
         IN  (\E d : Holds(g, d, m)) /\ SameOrder(h, g) /\ g.tbl.num_buckets = n
  <1> DEFINE all == InBucketOrder(h)
             l == Len(all)
             start == [h EXCEPT !.tbl.num_buckets = n, !.tbl.buckets = EmptyBuckets(n)]
             after == Moved(h, n, ideal)
  <1>1. l \in Nat /\ all \in Seq(Elements) /\ Distinct(all) /\ \A x : In(x, all) <=> x \in m
    OBVIOUS
  <1>2. /\ after[0] = start
        /\ \A j \in 1 .. l : after[j] = Move(after[j - 1], all[j], n, ideal)
    <2>1. MoveSteps(h, n, ideal, after)
      BY MovedSteps
    <2> HIDE DEF after
    <2>2. QED
      BY <2>1 DEF MoveSteps
  <1>3. /\ IsTable(start) /\ SameOrder(h, start) /\ start.tbl.num_buckets = n
        /\ start.tbl.buckets = EmptyBuckets(n)
        /\ start.hh_next = h.hh_next /\ start.hh_prev = h.hh_prev
    BY DEF IsTable, SameOrder
  <1> HIDE DEF start, all, l, after
  <1> DEFINE Some(k) == {all[j] : j \in 1 .. k}
             Good(k) == /\ SameOrder(h, after[k]) /\ after[k].tbl.num_buckets = n
                        /\ \E d : Holds(after[k], d, Some(k))
             T == {k \in 0 .. l : Good(k)}
  <1>4. 0 \in T
    <2> DEFINE d == [b \in 0 .. n - 1 |-> <<>>]
    <2>1. Some(0) = {}
      OBVIOUS
    <2>2. \A b \in 0 .. n - 1 : /\ start.tbl.buckets[b] = [hh_head |-> NULL, count |-> 0, expand_mult |-> 0]
                                /\ d[b] = <<>>
      BY <1>3 DEF EmptyBuckets
    <2>3. AreBuckets(start)
      BY <1>3 DEF AreBuckets, EmptyBuckets
    <2>4. Distinct(<<>>) /\ At(<<>>, 1) = NULL /\ Len(<<>>) = 0 /\ \A x : ~ In(x, <<>>)
      BY DEF Distinct, At, In
    <2>5. Links(Elements, start.hh_next, start.hh_prev, NULL, <<>>)
      BY <2>4 DEF Links
    <2> HIDE DEF d, Some
    <2>6. Holds(start, d, {})
      BY <1>3, <2>2, <2>3, <2>4, <2>5 DEF Holds
    <2>7. Holds(after[0], d, Some(0))
      BY <1>2, <2>1, <2>6
    <2>8. Good(0)
      BY <1>3, <1>2, <2>7
    <2> HIDE DEF Good
    <2>9. QED
      BY <1>1, <2>8
  <1>5. ASSUME NEW k \in 0 .. l - 1, k \in T PROVE k + 1 \in T
    <2> DEFINE g == after[k]
               e == all[k + 1]
    <2>1. k \in Nat /\ k + 1 \in 0 .. l /\ k + 1 \in 1 .. l /\ (k + 1) - 1 = k
      BY <1>1, <1>5
    <2>2. PICK d : Holds(g, d, Some(k))
      BY <1>5
    <2>3. SameOrder(h, g) /\ g.tbl.num_buckets = n
      BY <1>5
    <2>4. after[k + 1] = Move(g, e, n, ideal)
      BY <1>2, <2>1
    <2>5. e \in Elements /\ e \notin Some(k)
      <3>1. e \in Elements
        BY <1>1, <2>1 DEF l
      <3>2. ASSUME NEW j \in 1 .. k PROVE all[j] # e
        <4>1. j \in 1 .. l /\ j # k + 1
          BY <1>1, <2>1
        <4>2. QED
          BY <1>1, <2>1, <4>1 DEF Distinct, l
      <3>3. QED
        BY <3>1, <3>2
    <2>6. Some(k + 1) = Some(k) \cup {e}
      <3>1. \A j : j \in 1 .. k + 1 <=> j \in 1 .. k \/ j = k + 1
        BY <2>1
      <3>2. QED
        BY <3>1
    <2> HIDE DEF e, g, Some
    <2>7. Pushed(g, Move(g, e, n, ideal), To_bkt(e, n), e)
      <3>1. IsTable(g) /\ AreBuckets(g)
        BY <2>2 DEF Holds
      <3>2. QED
        BY <2>3, <2>5, <3>1, MoveIs
    <2>8. \E c : Holds(Move(g, e, n, ideal), c, Some(k) \cup {e})
      BY <2>2, <2>3, <2>5, <2>7, PushHolds
    <2>9. SameOrder(h, Move(g, e, n, ideal)) /\ Move(g, e, n, ideal).tbl.num_buckets = n
      BY <2>3, <2>7 DEF Pushed, SameOrder
    <2>10. Good(k + 1)
      BY <2>4, <2>6, <2>8, <2>9
    <2> HIDE DEF Good
    <2>11. QED
      BY <2>1, <2>10
  <1> HIDE DEF T
  <1>6. 0 .. l \subseteq T
    BY <1>1, <1>4, <1>5, AllUpto
  <1>7. Good(l)
    <2>1. l \in T
      BY <1>1, <1>6
    <2> HIDE DEF Good
    <2>2. QED
      BY <2>1 DEF T
  <1>8. Some(l) = m
    <2>1. \A x : x \in Some(l) <=> In(x, all)
      BY DEF In, l
    <2> HIDE DEF Some
    <2>2. \A x : x \in Some(l) <=> x \in m
      BY <1>1, <2>1
    <2> DEFINE s == Some(l)
    <2> HIDE DEF s
    <2>3. s = m
      <3>1. \A x : x \in s <=> x \in m
        BY <2>2 DEF s
      <3>2. QED
        <4>1. s \subseteq m /\ m \subseteq s
          BY <3>1
        <4>2. QED
          BY <4>1
    <2>4. QED
      BY <2>3 DEF s
  <1> HIDE DEF Some
  <1>9. QED
    BY <1>7, <1>8 DEF after, l, all

\* Doubling the buckets loses no element.
LEMMA ExpandIs ==
  ASSUME hashv \in [Elements -> Nat], NEW h, NEW c, NEW m, Holds(h, c, m)
  PROVE  (\E d : Holds(Expand_buckets(h), d, m)) /\ SameOrder(h, Expand_buckets(h))
  <1> DEFINE n == 2 * h.tbl.num_buckets
             items == h.tbl.num_items
             ideal == items \div n + IF items % n # 0 THEN 1 ELSE 0
             moved == Moved(h, n, ideal)[Len(InBucketOrder(h))]
             ineff == IF Nonideal_items(moved, ideal) > items \div 2
                      THEN h.tbl.ineff_expands + 1 ELSE 0
             first == [moved EXCEPT !.tbl.ineff_expands = ineff]
             stop == moved.tbl.noexpand \/ ineff > 1
             g == Expand_buckets(h)
  <1>1. g = [first EXCEPT !.tbl.noexpand = stop]
    BY DEF Expand_buckets
  <1>2. /\ IsTable(h) /\ h.hh_next \in HandlePointers /\ h.hh_prev \in HandlePointers
        /\ n \in Nat \ {0}
    BY DEF Holds, AreBuckets
  <1>3. /\ InBucketOrder(h) \in Seq(Elements) /\ Distinct(InBucketOrder(h))
        /\ \A x : In(x, InBucketOrder(h)) <=> x \in m
    BY InBucketOrderIs
  <1>4. (\E d : Holds(moved, d, m)) /\ SameOrder(h, moved)
    <2> HIDE DEF n, ideal
    <2>1. QED
      BY <1>2, <1>3, MovedIs
  <1> HIDE DEF moved, ineff, stop, g
  <1>5. PICK d : Holds(moved, d, m)
    BY <1>4
  <1>6. IsTable(moved)
    BY <1>5 DEF Holds
  <1>7. IsTable(g) /\ SameChains(moved, g) /\ SameOrder(moved, g)
    <2>1. IsTable(first) /\ SameChains(moved, first) /\ SameOrder(moved, first)
      BY <1>6 DEF IsTable, SameChains, SameOrder
    <2> HIDE DEF first
    <2>2. QED
      BY <1>1, <2>1 DEF IsTable, SameChains, SameOrder
  <1>8. Holds(g, d, m)
    BY <1>5, <1>7, HoldsSame
  <1>9. SameOrder(h, g)
    BY <1>4, <1>7 DEF SameOrder
  <1>10. QED
    BY <1>8, <1>9 DEF g

\* HASH_ADD_TO_BKT puts an element that is not in the table into its bucket.
LEMMA AddToBktIs ==
  ASSUME hashv \in [Elements -> Nat], NEW h, NEW c, NEW m, Holds(h, c, m),
         NEW e \in Elements \ m
  PROVE  (\E d : Holds(Add_to_bkt(h, e), d, m \cup {e})) /\ SameOrder(h, Add_to_bkt(h, e))
  <1> DEFINE b == To_bkt(e, h.tbl.num_buckets)
             g == Push(h, b, e)
  <1>1. Pushed(h, g, b, e)
    <2>1. IsTable(h) /\ AreBuckets(h) /\ h.tbl.num_buckets \in Nat \ {0}
      BY DEF Holds, AreBuckets
    <2>2. b \in 0 .. h.tbl.num_buckets - 1
      BY <2>1, ToBktIs
    <2> HIDE DEF b
    <2>3. QED
      BY <2>1, <2>2, PushIs
  <1>2. SameOrder(h, g) /\ \E d : Holds(g, d, m \cup {e})
    <2> HIDE DEF g
    <2>1. \E d : Holds(g, d, m \cup {e})
      BY <1>1, PushHolds
    <2>2. QED
      BY <1>1, <2>1 DEF Pushed
  <1>3. Add_to_bkt(h, e) \in {g, Expand_buckets(g)}
    BY DEF Add_to_bkt
  <1> HIDE DEF g
  <1>4. (\E d : Holds(Expand_buckets(g), d, m \cup {e})) /\ SameOrder(g, Expand_buckets(g))
    BY <1>2, ExpandIs
  <1>5. QED
    BY <1>2, <1>3, <1>4 DEF SameOrder

\* The application order of a table with a head is l.  The handles of other
\* elements hold no pointer.
Ordered(h, l) ==
  /\ h.next \in HandlePointers /\ h.prev \in HandlePointers
  /\ Links(Elements, h.next, h.prev, h.head, l) /\ l # <<>>
  /\ \A x \in Elements : ~ In(x, l) => h.next[x] = NULL /\ h.prev[x] = NULL

\* A table with the elements of l, in this order.
IsFull(h, l) ==
  Ordered(h, l) /\ h.tbl.num_items = Len(l) /\ \E c : Holds(h, c, ToSet(l))

Keeps(h, l) == (h = Empty /\ l = <<>>) \/ IsFull(h, l)

\* The tail of a table is its last element.
TailIs(h, l) == l # <<>> => h.tbl.tail = l[Len(l)]

\* AppOrder finds the order of a table that has one.
LEMMA OrderedIs ==
  ASSUME NEW h, NEW l, Ordered(h, l)
  PROVE  /\ l \in Seq(Elements) /\ Distinct(l) /\ Len(l) \in Nat \ {0}
         /\ h.head = l[1] /\ h.head \in Elements
         /\ AppOrder(h) = l
         /\ \A x : In(x, l) <=> x \in ToSet(l)
  <1> DEFINE n == Cardinality(Elements) + 1
             nxt == h.next
             head == h.head
  <1>1. l \in Seq(Elements) /\ Distinct(l) /\ l # <<>> /\ head = At(l, 1) /\ LeadsThrough(nxt, head, l)
    BY DEF Ordered, Links, LeadsThrough
  <1>2. Len(l) \in Nat \ {0} /\ 1 \in 1 .. Len(l)
    BY <1>1
  <1>3. nxt \in [Elements -> Elements \cup {NULL}] /\ AppOrder(h) = Path(nxt, head, n)
    BY DEF Ordered, HandlePointers, AppOrder
  <1>4. n \in Nat /\ Len(l) <= n
    <2>1. Len(l) <= Cardinality(Elements) /\ Cardinality(Elements) \in Nat
      BY <1>1, DistinctFits
    <2>2. QED
      BY <1>2, <2>1
  <1> HIDE DEF n, nxt
  <1>5. Path(nxt, head, n) = l
    <2> HIDE DEF head
    <2>1. QED
      BY <1>1, <1>3, <1>4, PathIs
  <1>6. \A x : In(x, l) <=> x \in ToSet(l)
    BY <1>1, ToSetIn
  <1>7. head = l[1] /\ head \in Elements
    BY <1>1, <1>2 DEF At
  <1>8. QED
    BY <1>1, <1>2, <1>3, <1>5, <1>6, <1>7

\* A head that is NULL: no element, and no handle holds a pointer.
LEMMA EmptyIs ==
  /\ IsTable(Empty) /\ Empty.head = NULL /\ AppOrder(Empty) = <<>> /\ Items(Empty) = {}
  /\ Empty.next = Loose /\ Empty.prev = Loose /\ Empty.hh_next = Loose /\ Empty.hh_prev = Loose
  /\ Loose \in HandlePointers /\ Empty.tbl.num_items = 0
  <1>1. /\ IsTable(Empty) /\ Empty.head = NULL
        /\ Empty.next = Loose /\ Empty.prev = Loose
        /\ Empty.hh_next = Loose /\ Empty.hh_prev = Loose /\ Empty.tbl.num_items = 0
    BY DEF Empty, IsTable
  <1>2. Loose \in [Elements -> Elements \cup {NULL}]
    BY DEF Loose
  <1>3. Cardinality(Elements) + 1 \in Nat
    BY FS_CardinalityType
  <1> DEFINE n == Cardinality(Elements) + 1
  <1>4. Path(Loose, NULL, n) = <<>>
    <2>1. <<>> \in Seq(Elements) /\ Len(<<>>) = 0 /\ LeadsThrough(Loose, NULL, <<>>)
      BY DEF LeadsThrough, At
    <2>2. Len(<<>>) <= n
      BY <1>3, <2>1
    <2> HIDE DEF n
    <2>3. n \in Nat
      BY <1>3 DEF n
    <2>4. QED
      BY <1>2, <2>1, <2>2, <2>3, PathIs
  <1>5. AppOrder(Empty) = <<>>
    BY <1>1, <1>4 DEF AppOrder
  <1>6. ToSet(<<>>) = {}
    BY DEF ToSet
  <1>7. QED
    BY <1>1, <1>2, <1>5, <1>6 DEF Items, HandlePointers

\* The order of a table is the one that AppOrder finds.
LEMMA KeepsIs ==
  ASSUME NEW h, NEW l, Keeps(h, l)
  PROVE  /\ l \in Seq(Elements) /\ Distinct(l) /\ AppOrder(h) = l
         /\ \A x : In(x, l) <=> x \in Items(h)
         /\ h.head = NULL <=> l = <<>>
         /\ l # <<>> => IsFull(h, l)
  <1>1. CASE h = Empty /\ l = <<>>
    <2>1. l \in Seq(Elements) /\ Distinct(l) /\ \A x : ~ In(x, l)
      BY <1>1 DEF Distinct, In
    <2>2. QED
      BY <1>1, <2>1, EmptyIs
  <1>2. CASE IsFull(h, l)
    <2>1. Ordered(h, l)
      BY <1>2 DEF IsFull
    <2>2. l # <<>>
      BY <2>1 DEF Ordered
    <2>3. QED
      BY <1>2, <2>1, <2>2, OrderedIs DEF Items
  <1>3. QED
    BY <1>1, <1>2 DEF Keeps

\* HASH_FIND finds the elements of the table, and only those.
LEMMA FindIs ==
  ASSUME hashv \in [Elements -> Nat], NEW h, NEW l, Keeps(h, l), NEW e \in Elements
  PROVE  Hash_find(h, e) = IF In(e, l) THEN e ELSE NULL
  <1>1. CASE l = <<>>
    <2>1. h.head = NULL /\ ~ In(e, l)
      BY <1>1, KeepsIs DEF In
    <2>2. QED
      BY <2>1 DEF Hash_find
  <1>2. CASE l # <<>>
    <2> DEFINE n == h.tbl.num_buckets
               b == To_bkt(e, n)
    <2>1. h.head # NULL /\ IsFull(h, l) /\ l \in Seq(Elements)
      BY <1>2, KeepsIs
    <2>2. PICK c : Holds(h, c, ToSet(l))
      BY <2>1 DEF IsFull
    <2>3. n \in Nat \ {0}
      BY <2>2 DEF Holds, AreBuckets
    <2>4. b \in 0 .. n - 1
      BY <2>3, ToBktIs
    <2>5. Chain(h, b) = c[b] /\ c[b] \in Seq(Elements)
      <3> HIDE DEF b
      <3>1. QED
        BY <2>2, <2>4, ChainIs
    <2>6. In(e, c[b]) <=> e \in ToSet(l)
      BY <2>2, <2>4 DEF Holds
    <2>7. e \in ToSet(c[b]) <=> In(e, c[b])
      <3> DEFINE s == c[b]
      <3> HIDE DEF s
      <3>1. s \in Seq(Elements)
        BY <2>5 DEF s
      <3>2. e \in ToSet(s) <=> In(e, s)
        BY <3>1, ToSetIn
      <3>3. QED
        BY <3>2 DEF s
    <2>8. e \in ToSet(l) <=> In(e, l)
      BY <2>1, ToSetIn
    <2>9. e \in ToSet(Chain(h, b)) <=> In(e, l)
      BY <2>5, <2>6, <2>7, <2>8
    <2>10. QED
      BY <2>1, <2>9 DEF Hash_find
  <1>3. QED
    BY <1>1, <1>2

\* A change of the chains leaves the application order.
LEMMA OrderedSame ==
  ASSUME NEW h, NEW l, Ordered(h, l), NEW g,
         g.head = h.head, g.next = h.next, g.prev = h.prev
  PROVE  Ordered(g, l)
  BY DEF Ordered

\* A new table has its first element in order, and no chain has it yet.
LEMMA MakeIs ==
  ASSUME NEW e \in Elements
  PROVE  LET t == Make_table(Empty, e)
         IN  /\ IsTable(t) /\ Ordered(t, <<e>>) /\ t.tbl.num_items = 0 /\ t.tbl.tail = e
             /\ \E c : Holds(t, c, {})
  <1> DEFINE t == Make_table(Empty, e)
             n == InitialBuckets
             c == [b \in 0 .. n - 1 |-> <<>>]
  <1>1. Empty.tbl = [num_buckets |-> 0, buckets |-> <<>>, num_items |-> 0, tail |-> NULL,
                     ineff_expands |-> 0, noexpand |-> FALSE]
    BY DEF Empty
  <1>2. /\ IsTable(t) /\ t.tbl.num_items = 0 /\ t.tbl.tail = e
        /\ t.tbl.num_buckets = n /\ t.tbl.buckets = EmptyBuckets(n)
        /\ t.head = e /\ t.next = Empty.next /\ t.prev = Empty.prev
        /\ t.hh_next = Empty.hh_next /\ t.hh_prev = Empty.hh_prev
    BY <1>1, EmptyIs DEF Make_table, IsTable
  <1> HIDE DEF t
  <1>3. /\ t.next = Loose /\ t.prev = Loose /\ t.hh_next = Loose /\ t.hh_prev = Loose
        /\ Loose \in HandlePointers
    BY <1>2, EmptyIs
  <1>4. n \in Nat \ {0}
    OBVIOUS
  <1> HIDE DEF n
  <1>5. AreBuckets(t)
    BY <1>2, <1>4 DEF AreBuckets, EmptyBuckets
  <1>6. \A b \in 0 .. n - 1 :
          t.tbl.buckets[b].hh_head = NULL /\ t.tbl.buckets[b].count = 0 /\ c[b] = <<>>
    BY <1>2 DEF EmptyBuckets
  <1>7. Links(Elements, Loose, Loose, NULL, <<>>) /\ Len(<<>>) = 0 /\ \A x : ~ In(x, <<>>)
    BY DEF Links, Distinct, At, In
  <1> HIDE DEF c
  <1>8. Holds(t, c, {})
    BY <1>2, <1>3, <1>5, <1>6, <1>7 DEF Holds
  <1>9. Links(Elements, Loose, Loose, e, <<e>>)
    <2>1. /\ <<e>> \in Seq(Elements) /\ Len(<<e>>) = 1 /\ <<e>>[1] = e /\ Loose[e] = NULL
          /\ \A k \in 1 .. 1 : k = 1
      BY DEF Loose
    <2> DEFINE s == <<e>>
    <2> HIDE DEF s
    <2>2. s \in Seq(Elements) /\ Len(s) = 1 /\ s[1] = e /\ Loose[e] = NULL
      BY <2>1 DEF s
    <2>3. At(s, 1) = e /\ At(s, 1 + 1) = NULL /\ At(s, 1 - 1) = NULL /\ Distinct(s)
      BY <2>1, <2>2 DEF At, Distinct
    <2>4. Links(Elements, Loose, Loose, e, s)
      BY <2>1, <2>2, <2>3 DEF Links
    <2>5. QED
      BY <2>4 DEF s
  <1>10. Ordered(t, <<e>>)
    <2>1. \A x \in Elements : Loose[x] = NULL
      BY DEF Loose
    <2>2. <<e>> # <<>>
      OBVIOUS
    <2>3. QED
      BY <1>2, <1>3, <1>9, <2>1, <2>2 DEF Ordered
  <1>11. QED
    BY <1>2, <1>8, <1>10 DEF t

\* g is h after e was linked behind the last element of l.
LinksLast(h, g, l, e) ==
  /\ g.head = h.head
  /\ g.next = [h.next EXCEPT ![l[Len(l)]] = e]
  /\ g.prev = [h.prev EXCEPT ![e] = l[Len(l)]]

\* An element that is not in the table is linked behind the last one.
LEMMA LinkLastIs ==
  ASSUME NEW h, NEW l, Ordered(h, l), NEW e \in Elements, ~ In(e, l), NEW g,
         LinksLast(h, g, l, e)
  PROVE  /\ Ordered(g, Append(l, e)) /\ Len(Append(l, e)) = Len(l) + 1
         /\ Append(l, e)[Len(l) + 1] = e
         /\ \A x : In(x, Append(l, e)) <=> x = e \/ In(x, l)
  <1> DEFINE last == l[Len(l)]
             s == Append(l, e)
             n1 == h.next
             p1 == h.prev
             n2 == g.next
             p2 == g.prev
  <1>1. l \in Seq(Elements) /\ Len(l) \in Nat \ {0}
    BY OrderedIs
  <1>2. /\ n1 \in [Elements -> Elements \cup {NULL}] /\ p1 \in [Elements -> Elements \cup {NULL}]
        /\ Links(Elements, n1, p1, h.head, l) /\ l # <<>>
        /\ \A x \in Elements : ~ In(x, l) => n1[x] = NULL /\ p1[x] = NULL
    BY DEF Ordered, HandlePointers
  <1>3. last \in Elements /\ In(last, l) /\ \A x : In(x, l) => x \in Elements
    BY <1>1 DEF In
  <1>4. n2 = [n1 EXCEPT ![last] = e] /\ p2 = [p1 EXCEPT ![e] = last] /\ g.head = h.head
    BY DEF LinksLast
  <1> HIDE DEF last, n1, p1, n2, p2
  <1>5. /\ n2 \in [Elements -> Elements \cup {NULL}] /\ p2 \in [Elements -> Elements \cup {NULL}]
        /\ \A x \in Elements : n2[x] = (IF x = last THEN e ELSE n1[x])
                               /\ p2[x] = IF x = e THEN last ELSE p1[x]
    BY <1>2, <1>3, <1>4
  <1>6. e # last
    BY <1>3
  <1>7. n2[e] = NULL /\ p2[e] = last
    BY <1>2, <1>5, <1>6
  <1>8. \A x : In(x, l) => p2[x] = p1[x] /\ n2[x] = IF x = last THEN e ELSE n1[x]
    BY <1>3, <1>5
  <1>9. Backs(n1, p1, l, e, n2, p2)
    BY <1>7, <1>8 DEF Backs, last
  <1>10. /\ Links(Elements, n2, p2, h.head, s) /\ Len(s) = Len(l) + 1 /\ s[Len(l) + 1] = e
         /\ \A x : In(x, s) <=> x = e \/ In(x, l)
    BY <1>2, <1>9, PushBack
  <1> HIDE DEF s
  <1>11. \A x \in Elements : ~ In(x, s) => n2[x] = NULL /\ p2[x] = NULL
    BY <1>2, <1>3, <1>5, <1>10
  <1>12. s # <<>>
    BY <1>1, <1>10
  <1>13. Ordered(g, s)
    BY <1>4, <1>5, <1>10, <1>11, <1>12 DEF Ordered, HandlePointers, n2, p2
  <1>14. QED
    BY <1>10, <1>13 DEF s

\* The elements of a list with one more.
LEMMA ToSetAppend ==
  ASSUME NEW l \in Seq(Elements), NEW e \in Elements
  PROVE  /\ ToSet(Append(l, e)) = ToSet(l) \cup {e} /\ ToSet(<<>>) = {} /\ Append(<<>>, e) = <<e>>
         /\ Append(l, e) # <<>> /\ Append(l, e)[Len(Append(l, e))] = e
  <1>1. ToSet(<<>>) = {} /\ Append(<<>>, e) = <<e>>
    BY DEF ToSet
  <1> DEFINE s == Append(l, e)
             n == Len(l)
  <1>2. s \in Seq(Elements) /\ Len(s) = n + 1 /\ s[n + 1] = e /\ n \in Nat
    OBVIOUS
  <1>3. \A k \in 1 .. n : s[k] = l[k]
    OBVIOUS
  <1> HIDE DEF s
  <1>4. DOMAIN s = 1 .. n + 1 /\ DOMAIN l = 1 .. n
    BY <1>2
  <1>5. \A k : k \in 1 .. n + 1 <=> k \in 1 .. n \/ k = n + 1
    BY <1>2
  <1> HIDE DEF n
  <1>6. ToSet(s) = ToSet(l) \cup {e}
    BY <1>2, <1>3, <1>4, <1>5 DEF ToSet
  <1>7. s # <<>> /\ s[Len(s)] = e
    BY <1>2
  <1>8. QED
    BY <1>1, <1>6, <1>7 DEF s

\* The table of HASH_ADD before the element is put in its bucket.
Joined(h, e) ==
  LET linked == IF h.head = NULL THEN Make_table(h, e)
                ELSE [h EXCEPT !.next[h.tbl.tail] = e, !.prev[e] = h.tbl.tail,
                               !.tbl.tail = e]
  IN  [linked EXCEPT !.tbl.num_items = @ + 1]

\* HASH_ADD links the element behind the tail and counts it.
LEMMA JoinedIs ==
  ASSUME hashv \in [Elements -> Nat], NEW h, NEW l, Keeps(h, l), TailIs(h, l),
         NEW e \in Elements, ~ In(e, l)
  PROVE  LET g == Joined(h, e)
             s == Append(l, e)
         IN  /\ IsTable(g) /\ g.tbl.num_items = Len(s) /\ g.tbl.tail = e /\ Ordered(g, s)
             /\ \E c : Holds(g, c, ToSet(l))
  <1> DEFINE linked == IF h.head = NULL THEN Make_table(h, e)
                       ELSE [h EXCEPT !.next[h.tbl.tail] = e, !.prev[e] = h.tbl.tail,
                                      !.tbl.tail = e]
             g == [linked EXCEPT !.tbl.num_items = linked.tbl.num_items + 1]
             s == Append(l, e)
  <1>1. l \in Seq(Elements) /\ (h.head = NULL <=> l = <<>>) /\ (l # <<>> => IsFull(h, l))
    BY KeepsIs
  <1>2. ASSUME l = <<>>
        PROVE  /\ IsTable(g) /\ g.tbl.num_items = Len(s) /\ g.tbl.tail = e /\ Ordered(g, s)
               /\ \E c : Holds(g, c, ToSet(l))
    <2>1. h = Empty /\ linked = Make_table(Empty, e)
      <3>1. h = Empty
        BY <1>2 DEF Keeps, IsFull, Ordered
      <3>2. QED
        BY <3>1, EmptyIs
    <2>2. /\ IsTable(linked) /\ Ordered(linked, <<e>>) /\ linked.tbl.num_items = 0
          /\ linked.tbl.tail = e /\ \E c : Holds(linked, c, {})
      <3> DEFINE t == Make_table(Empty, e)
      <3>1. /\ IsTable(t) /\ Ordered(t, <<e>>) /\ t.tbl.num_items = 0
            /\ t.tbl.tail = e /\ \E c : Holds(t, c, {})
        BY MakeIs
      <3> HIDE DEF t
      <3>2. linked = t
        BY <2>1 DEF t
      <3> HIDE DEF linked
      <3>3. QED
        BY <3>1, <3>2
    <2> HIDE DEF linked
    <2>3. /\ IsTable(g) /\ g.tbl.num_items = 1 /\ g.tbl.tail = e /\ SameChains(linked, g)
          /\ g.head = linked.head /\ g.next = linked.next /\ g.prev = linked.prev
      BY <2>2 DEF IsTable, SameChains
    <2> HIDE DEF g
    <2>4. \E c : Holds(g, c, {})
      BY <2>2, <2>3, HoldsSame
    <2>5. Ordered(g, <<e>>)
      BY <2>2, <2>3, OrderedSame
    <2>6. s = <<e>> /\ Len(s) = 1 /\ ToSet(l) = {}
      <3>1. <<>> \in Seq(Elements) /\ Len(<<e>>) = 1
        OBVIOUS
      <3>2. ToSet(<<>>) = {} /\ Append(<<>>, e) = <<e>>
        BY <3>1, ToSetAppend
      <3>3. QED
        BY <1>2, <3>1, <3>2
    <2>7. QED
      BY <2>3, <2>4, <2>5, <2>6
  <1>3. ASSUME l # <<>>
        PROVE  /\ IsTable(g) /\ g.tbl.num_items = Len(s) /\ g.tbl.tail = e /\ Ordered(g, s)
               /\ \E c : Holds(g, c, ToSet(l))
    <2>1. IsFull(h, l) /\ h.head # NULL /\ h.tbl.tail = l[Len(l)]
      BY <1>1, <1>3 DEF TailIs
    <2>2. PICK c : Holds(h, c, ToSet(l))
      BY <2>1 DEF IsFull
    <2>3. IsTable(h) /\ Ordered(h, l) /\ h.tbl.num_items = Len(l)
      BY <2>1, <2>2 DEF IsFull, Holds
    <2>4. linked = [h EXCEPT !.next[h.tbl.tail] = e, !.prev[e] = h.tbl.tail, !.tbl.tail = e]
      BY <2>1
    <2> HIDE DEF linked
    <2>5. /\ IsTable(linked) /\ SameChains(h, linked) /\ linked.head = h.head
          /\ linked.tbl.num_items = h.tbl.num_items /\ linked.tbl.tail = e
          /\ linked.next = [h.next EXCEPT ![h.tbl.tail] = e]
          /\ linked.prev = [h.prev EXCEPT ![e] = h.tbl.tail]
      BY <2>3, <2>4 DEF IsTable, SameChains
    <2>6. /\ IsTable(g) /\ g.tbl.num_items = h.tbl.num_items + 1 /\ g.tbl.tail = e
          /\ SameChains(h, g)
          /\ g.head = h.head /\ g.next = linked.next /\ g.prev = linked.prev
      BY <2>5 DEF IsTable, SameChains
    <2> HIDE DEF g
    <2>7. Holds(g, c, ToSet(l))
      BY <2>2, <2>6, HoldsSame
    <2>8. Ordered(g, s) /\ Len(s) = Len(l) + 1
      <3>1. LinksLast(h, g, l, e)
        BY <2>1, <2>5, <2>6 DEF LinksLast
      <3>2. QED
        BY <2>3, <3>1, LinkLastIs
    <2>9. QED
      BY <2>3, <2>6, <2>7, <2>8
  <1>4. /\ IsTable(g) /\ g.tbl.num_items = Len(s) /\ g.tbl.tail = e /\ Ordered(g, s)
        /\ \E c : Holds(g, c, ToSet(l))
    BY <1>2, <1>3
  <1>5. Joined(h, e) = g
    BY DEF Joined
  <1> HIDE DEF g, s
  <1>6. QED
    BY <1>4, <1>5 DEF s

\* HASH_ADD appends an element to the order and puts it in its bucket.
LEMMA AddIs ==
  ASSUME hashv \in [Elements -> Nat], NEW h, NEW l, Keeps(h, l), TailIs(h, l),
         NEW e \in Elements, ~ In(e, l)
  PROVE  /\ Keeps(Hash_add(h, e), Append(l, e)) /\ TailIs(Hash_add(h, e), Append(l, e))
  <1> DEFINE g == Joined(h, e)
             s == Append(l, e)
             added == Hash_add(h, e)
  <1>1. added = Add_to_bkt(g, e)
    BY DEF Hash_add, Joined
  <1>2. l \in Seq(Elements) /\ (h.head = NULL <=> l = <<>>) /\ (l # <<>> => IsFull(h, l))
    BY KeepsIs
  <1>3. e \notin ToSet(l) /\ ToSet(s) = ToSet(l) \cup {e} /\ s # <<>> /\ s[Len(s)] = e
    BY <1>2, ToSetIn, ToSetAppend
  <1>4. /\ IsTable(g) /\ g.tbl.num_items = Len(s) /\ g.tbl.tail = e /\ Ordered(g, s)
        /\ \E c : Holds(g, c, ToSet(l))
    BY JoinedIs
  <1> HIDE DEF g, s, added
  <1>5. (\E d : Holds(added, d, ToSet(s))) /\ SameOrder(g, added)
    <2>1. PICK c : Holds(g, c, ToSet(l))
      BY <1>4
    <2> DEFINE m == ToSet(l)
    <2> HIDE DEF m
    <2>2. e \in Elements \ m /\ Holds(g, c, m)
      BY <1>3, <2>1 DEF m
    <2>3. (\E d : Holds(added, d, m \cup {e})) /\ SameOrder(g, added)
      BY <1>1, <2>2, AddToBktIs
    <2>4. QED
      BY <1>3, <2>3 DEF m
  <1>6. Ordered(added, s) /\ added.tbl.num_items = Len(s) /\ added.tbl.tail = e
    BY <1>4, <1>5, OrderedSame DEF SameOrder
  <1>7. QED
    BY <1>3, <1>5, <1>6 DEF Keeps, IsFull, TailIs, s, added

\* What a bucket becomes when an element is taken out.
Dropped(h, g, b, e) ==
  /\ IsTable(g) /\ SameOrder(h, g) /\ g.tbl.num_buckets = h.tbl.num_buckets
  /\ g.hh_next = [x \in Elements |-> IF x = e THEN NULL
                    ELSE IF x = h.hh_prev[e] THEN h.hh_next[e] ELSE h.hh_next[x]]
  /\ g.hh_prev = [x \in Elements |-> IF x = e THEN NULL
                    ELSE IF x = h.hh_next[e] THEN h.hh_prev[e] ELSE h.hh_prev[x]]
  /\ DOMAIN g.tbl.buckets = DOMAIN h.tbl.buckets
  /\ DOMAIN g.tbl.buckets[b] = {"hh_head", "count", "expand_mult"}
  /\ g.tbl.buckets[b].hh_head = (IF h.tbl.buckets[b].hh_head = e THEN h.hh_next[e]
                                 ELSE h.tbl.buckets[b].hh_head)
  /\ g.tbl.buckets[b].count = h.tbl.buckets[b].count - 1
  /\ \A c \in DOMAIN h.tbl.buckets : c # b => g.tbl.buckets[c] = h.tbl.buckets[c]

\* HASH_DEL_IN_BKT takes e out of its chain.
LEMMA DelIs ==
  ASSUME NEW h, IsTable(h), AreBuckets(h), NEW b \in 0 .. h.tbl.num_buckets - 1, NEW e
  PROVE  Dropped(h, Del_in_bkt(h, b, e), b, e)
  <1> DEFINE g == Del_in_bkt(h, b, e)
             old == h.tbl.buckets[b]
             head == IF old.hh_head = e THEN h.hh_next[e] ELSE old.hh_head
             one == [old EXCEPT !.count = old.count - 1]
             new == [one EXCEPT !.hh_head = head]
  <1>1. DOMAIN old = {"hh_head", "count", "expand_mult"} /\ b \in DOMAIN h.tbl.buckets
    BY DEF AreBuckets
  <1>2. /\ IsTable(g) /\ SameOrder(h, g) /\ g.tbl.num_buckets = h.tbl.num_buckets
        /\ g.hh_next = [x \in Elements |-> IF x = e THEN NULL
                    ELSE IF x = h.hh_prev[e] THEN h.hh_next[e] ELSE h.hh_next[x]]
        /\ g.hh_prev = [x \in Elements |-> IF x = e THEN NULL
                    ELSE IF x = h.hh_next[e] THEN h.hh_prev[e] ELSE h.hh_prev[x]]
    BY DEF IsTable, SameOrder, Del_in_bkt
  <1>3. g.tbl.buckets = [h.tbl.buckets EXCEPT ![b] = new]
    BY <1>1 DEF IsTable, Del_in_bkt
  <1>4. /\ DOMAIN new = {"hh_head", "count", "expand_mult"}
        /\ new.hh_head = head /\ new.count = old.count - 1
    BY <1>1
  <1> HIDE DEF g, new
  <1>5. /\ DOMAIN g.tbl.buckets = DOMAIN h.tbl.buckets
        /\ g.tbl.buckets[b] = new
        /\ \A c \in DOMAIN h.tbl.buckets : c # b => g.tbl.buckets[c] = h.tbl.buckets[c]
    BY <1>1, <1>3
  <1>6. QED
    BY <1>2, <1>4, <1>5 DEF g, Dropped

\* The chain of a bucket without one of its elements.
LEMMA DropHolds ==
  ASSUME hashv \in [Elements -> Nat], NEW h, NEW c, NEW m, Holds(h, c, m), NEW e \in m,
         NEW g, Dropped(h, g, To_bkt(e, h.tbl.num_buckets), e)
  PROVE  \E d : Holds(g, d, m \ {e})
  <1> DEFINE n == h.tbl.num_buckets
             b == To_bkt(e, n)
             cb == c[b]
             q == PlaceIn(cb, e)
             d == [a \in 0 .. n - 1 |-> IF a = b THEN RemoveAt(cb, q) ELSE c[a]]
             first == h.tbl.buckets[b].hh_head
             n1 == h.hh_next
             p1 == h.hh_prev
             n2 == g.hh_next
             p2 == g.hh_prev
  <1>1. /\ IsTable(h) /\ AreBuckets(h) /\ m \subseteq Elements /\ e \in Elements
        /\ n1 \in [Elements -> Elements \cup {NULL}] /\ p1 \in [Elements -> Elements \cup {NULL}]
    BY DEF Holds, HandlePointers
  <1>2. \A a \in 0 .. n - 1 :
          /\ Links(Elements, n1, p1, h.tbl.buckets[a].hh_head, c[a])
          /\ h.tbl.buckets[a].count = Len(c[a])
          /\ \A x : In(x, c[a]) <=> x \in m /\ To_bkt(x, n) = a
    BY DEF Holds
  <1>3. n \in Nat \ {0} /\ b \in 0 .. n - 1 /\ To_bkt(e, n) = b
    BY <1>1, ToBktIs DEF AreBuckets
  <1>4. /\ IsTable(g) /\ SameOrder(h, g) /\ g.tbl.num_buckets = n
        /\ n2 = [x \in Elements |-> IF x = e THEN NULL
                   ELSE IF x = p1[e] THEN n1[e] ELSE n1[x]]
        /\ p2 = [x \in Elements |-> IF x = e THEN NULL
                   ELSE IF x = n1[e] THEN p1[e] ELSE p1[x]]
        /\ DOMAIN g.tbl.buckets = DOMAIN h.tbl.buckets
        /\ DOMAIN g.tbl.buckets[b] = {"hh_head", "count", "expand_mult"}
        /\ g.tbl.buckets[b].hh_head = (IF first = e THEN n1[e] ELSE first)
        /\ g.tbl.buckets[b].count = h.tbl.buckets[b].count - 1
        /\ \A a \in DOMAIN h.tbl.buckets : a # b => g.tbl.buckets[a] = h.tbl.buckets[a]
    BY DEF Dropped
  <1>5. DOMAIN h.tbl.buckets = 0 .. n - 1
    BY <1>1 DEF AreBuckets
  <1> HIDE DEF b, n1, p1, n2, p2
  <1>6. AreBuckets(g)
    BY <1>1, <1>3, <1>4, <1>5 DEF AreBuckets
  <1> HIDE DEF n
  <1>7. d[b] = RemoveAt(cb, q) /\ \A a \in 0 .. n - 1 : a # b => d[a] = c[a]
    BY <1>3
  <1> HIDE DEF d
  <1>8. /\ Links(Elements, n1, p1, first, cb)
        /\ \A x : In(x, cb) <=> x \in m /\ To_bkt(x, n) = b
    BY <1>2, <1>3
  <1> HIDE DEF first, cb
  <1>9. cb \in Seq(Elements) /\ Distinct(cb) /\ In(e, cb) /\ first = At(cb, 1)
    BY <1>3, <1>8 DEF Links
  <1>10. q \in 1 .. Len(cb) /\ cb[q] = e
    BY <1>9, PlaceInIs
  <1> HIDE DEF q
  <1>11. /\ n2 \in [Elements -> Elements \cup {NULL}] /\ p2 \in [Elements -> Elements \cup {NULL}]
         /\ \A x \in Elements : x # e =>
              /\ n2[x] = IF x = p1[e] THEN n1[e] ELSE n1[x]
              /\ p2[x] = IF x = n1[e] THEN p1[e] ELSE p1[x]
    BY <1>1, <1>4
  <1>12. \A x : In(x, cb) => x \in Elements
    BY <1>9 DEF In
  <1>13. Cuts(n1, p1, cb, q, n2, p2)
    BY <1>10, <1>11, <1>12 DEF Cuts
  <1>14. first = e <=> q = 1
    <2>1. 1 \in 1 .. Len(cb)
      BY <1>9, <1>10
    <2>2. QED
      BY <1>9, <1>10, <2>1 DEF At, Distinct
  <1>15. /\ Links(Elements, n2, p2, g.tbl.buckets[b].hh_head, d[b])
         /\ Len(d[b]) = Len(cb) - 1
         /\ \A x : In(x, d[b]) <=> x # e /\ In(x, cb)
    <2> DEFINE s == RemoveAt(cb, q)
    <2>1. /\ Links(Elements, n2, p2, IF q = 1 THEN n1[cb[q]] ELSE first, s)
          /\ Len(s) = Len(cb) - 1
          /\ \A x : In(x, s) <=> x # cb[q] /\ In(x, cb)
      BY <1>8, <1>10, <1>13, Unlink
    <2> HIDE DEF s
    <2>2. (IF q = 1 THEN n1[cb[q]] ELSE first) = g.tbl.buckets[b].hh_head
      BY <1>4, <1>10, <1>14
    <2>3. d[b] = s
      BY <1>7 DEF s
    <2>4. QED
      BY <1>10, <2>1, <2>2, <2>3
  <1>16. n1[e] # NULL => In(n1[e], cb)
    <2>1. n1[e] = At(cb, q + 1)
      BY <1>8, <1>10 DEF Links
    <2>2. QED
      BY <2>1 DEF At, In
  <1>17. p1[e] # NULL => In(p1[e], cb)
    <2>1. p1[e] = At(cb, q - 1)
      BY <1>8, <1>10 DEF Links
    <2>2. QED
      BY <2>1 DEF At, In
  <1>18. ASSUME NEW a \in 0 .. n - 1, a # b
         PROVE  /\ Links(Elements, n2, p2, g.tbl.buckets[a].hh_head, d[a])
                /\ g.tbl.buckets[a].count = Len(d[a])
                /\ \A x : In(x, d[a]) <=> x \in m \ {e} /\ To_bkt(x, n) = a
    <2>1. /\ Links(Elements, n1, p1, h.tbl.buckets[a].hh_head, c[a])
          /\ \A x : In(x, c[a]) <=> x \in m /\ To_bkt(x, n) = a
          /\ h.tbl.buckets[a].count = Len(c[a])
      BY <1>2
    <2>2. \A x : In(x, c[a]) => x \in Elements /\ x # e /\ ~ In(x, cb)
      BY <1>1, <1>3, <1>8, <1>18, <2>1
    <2>3. \A x : In(x, c[a]) => x # n1[e] /\ x # p1[e]
      <3>1. \A x : In(x, c[a]) => x # NULL
        BY <2>2
      <3>2. QED
        BY <1>16, <1>17, <2>2, <3>1
    <2>4. \A x : In(x, c[a]) => n2[x] = n1[x] /\ p2[x] = p1[x]
      BY <1>11, <2>2, <2>3
    <2>5. Links(Elements, n2, p2, h.tbl.buckets[a].hh_head, c[a])
      BY <2>1, <2>4, LinksFrame
    <2>6. g.tbl.buckets[a] = h.tbl.buckets[a] /\ d[a] = c[a]
      BY <1>4, <1>5, <1>7, <1>18
    <2>7. \A x : In(x, c[a]) <=> x \in m \ {e} /\ To_bkt(x, n) = a
      BY <2>1, <2>2
    <2>8. QED
      BY <2>1, <2>5, <2>6, <2>7
  <1>19. /\ g.tbl.buckets[b].count = Len(d[b])
         /\ \A x : In(x, d[b]) <=> x \in m \ {e} /\ To_bkt(x, n) = b
    <2>1. h.tbl.buckets[b].count = Len(cb)
      BY <1>2, <1>3 DEF cb
    <2>2. QED
      BY <1>4, <1>8, <1>15, <2>1
  <1>20. \A a \in 0 .. n - 1 :
           /\ Links(Elements, n2, p2, g.tbl.buckets[a].hh_head, d[a])
           /\ g.tbl.buckets[a].count = Len(d[a])
           /\ \A x : In(x, d[a]) <=> x \in m \ {e} /\ To_bkt(x, n) = a
    BY <1>15, <1>18, <1>19
  <1>21. Holds(g, d, m \ {e})
    BY <1>1, <1>4, <1>6, <1>11, <1>20 DEF Holds, HandlePointers, n2, p2
  <1>22. QED
    BY <1>21

\* g is h after the element at place p of l was unlinked.
Unlinks(h, g, l, p) ==
  /\ g.head = (IF h.prev[l[p]] = NULL THEN h.next[l[p]] ELSE h.head)
  /\ g.next = [x \in Elements |-> IF x = l[p] THEN NULL
                 ELSE IF x = h.prev[l[p]] THEN h.next[l[p]] ELSE h.next[x]]
  /\ g.prev = [x \in Elements |-> IF x = l[p] THEN NULL
                 ELSE IF x = h.next[l[p]] THEN h.prev[l[p]] ELSE h.prev[x]]

\* The neighbours of an element are those in the order.
LEMMA BesideIs ==
  ASSUME NEW h, NEW l, Ordered(h, l), NEW p \in 1 .. Len(l)
  PROVE  /\ h.next[l[p]] = At(l, p + 1) /\ h.prev[l[p]] = At(l, p - 1) /\ l[p] \in Elements
         /\ h.prev[l[p]] = NULL <=> p = 1
         /\ h.next[l[p]] = NULL <=> p = Len(l)
  <1>1. l \in Seq(Elements) /\ Len(l) \in Nat \ {0}
    BY OrderedIs
  <1>2. h.next[l[p]] = At(l, p + 1) /\ h.prev[l[p]] = At(l, p - 1) /\ l[p] \in Elements
    BY <1>1 DEF Ordered, Links
  <1>3. p - 1 \in 1 .. Len(l) <=> p # 1
    BY <1>1
  <1>4. p + 1 \in 1 .. Len(l) <=> p # Len(l)
    BY <1>1
  <1>5. \A k \in 1 .. Len(l) : l[k] # NULL
    BY <1>1
  <1>6. QED
    BY <1>2, <1>3, <1>4, <1>5 DEF At

\* The order of a table after HASH_DELETE unlinked an element.
LEMMA UnlinkIs ==
  ASSUME NEW h, NEW l, Ordered(h, l), NEW p \in 1 .. Len(l), Len(l) # 1,
         NEW g, Unlinks(h, g, l, p)
  PROVE  /\ Ordered(g, RemoveAt(l, p)) /\ Len(RemoveAt(l, p)) = Len(l) - 1
         /\ \A x : In(x, RemoveAt(l, p)) <=> x # l[p] /\ In(x, l)
  <1> DEFINE s == RemoveAt(l, p)
             e == l[p]
             n1 == h.next
             p1 == h.prev
             n2 == g.next
             p2 == g.prev
             first == IF p = 1 THEN n1[e] ELSE h.head
  <1>1. l \in Seq(Elements) /\ Len(l) \in Nat \ {0} /\ e \in Elements /\ (p1[e] = NULL <=> p = 1)
    BY OrderedIs, BesideIs
  <1>2. /\ n1 \in [Elements -> Elements \cup {NULL}] /\ p1 \in [Elements -> Elements \cup {NULL}]
        /\ Links(Elements, n1, p1, h.head, l)
        /\ \A x \in Elements : ~ In(x, l) => n1[x] = NULL /\ p1[x] = NULL
    BY DEF Ordered, HandlePointers
  <1>3. /\ g.head = first
        /\ n2 = [x \in Elements |-> IF x = e THEN NULL
                   ELSE IF x = p1[e] THEN n1[e] ELSE n1[x]]
        /\ p2 = [x \in Elements |-> IF x = e THEN NULL
                   ELSE IF x = n1[e] THEN p1[e] ELSE p1[x]]
    BY <1>1 DEF Unlinks
  <1> HIDE DEF n1, p1, n2, p2
  <1>4. /\ n2 \in [Elements -> Elements \cup {NULL}] /\ p2 \in [Elements -> Elements \cup {NULL}]
        /\ n2[e] = NULL /\ p2[e] = NULL
        /\ \A x \in Elements : x # e =>
             /\ n2[x] = IF x = p1[e] THEN n1[e] ELSE n1[x]
             /\ p2[x] = IF x = n1[e] THEN p1[e] ELSE p1[x]
    BY <1>1, <1>2, <1>3
  <1>5. \A x : In(x, l) => x \in Elements
    BY <1>1 DEF In
  <1>6. Cuts(n1, p1, l, p, n2, p2)
    BY <1>4, <1>5 DEF Cuts
  <1>7. /\ Links(Elements, n2, p2, first, s) /\ Len(s) = Len(l) - 1
        /\ \A x : In(x, s) <=> x # e /\ In(x, l)
    BY <1>2, <1>6, Unlink
  <1> HIDE DEF s, first
  <1>8. \A x \in Elements : ~ In(x, s) => n2[x] = NULL /\ p2[x] = NULL
    <2>1. SUFFICES ASSUME NEW x \in Elements, x # e, ~ In(x, l) PROVE n2[x] = NULL /\ p2[x] = NULL
      BY <1>4, <1>7
    <2>2. n1[x] = NULL /\ p1[x] = NULL
      BY <1>2, <2>1
    <2>3. \A k \in Int : At(l, k) = NULL \/ In(At(l, k), l)
      BY DEF At, In
    <2>4. n1[e] = At(l, p + 1) /\ p1[e] = At(l, p - 1)
      BY BesideIs DEF n1, p1
    <2>5. x # n1[e] /\ x # p1[e]
      <3>1. p + 1 \in Int /\ p - 1 \in Int /\ x # NULL
        BY <1>1, <2>1
      <3>2. QED
        BY <2>1, <2>3, <2>4, <3>1
    <2>6. QED
      BY <1>4, <2>1, <2>2, <2>5
  <1>9. s # <<>>
    BY <1>1, <1>7
  <1>10. Ordered(g, s)
    BY <1>3, <1>4, <1>7, <1>8, <1>9 DEF Ordered, HandlePointers, n2, p2
  <1>11. QED
    BY <1>7, <1>10 DEF s

\* HASH_DELETE takes an element out of the order and out of its bucket.
LEMMA DeleteIs ==
  ASSUME hashv \in [Elements -> Nat], NEW h, NEW l, IsFull(h, l), NEW p \in 1 .. Len(l)
  PROVE  /\ Keeps(Hash_delete(h, l[p]), RemoveAt(l, p))
         /\ TailIs(h, l) => TailIs(Hash_delete(h, l[p]), RemoveAt(l, p))
  <1> DEFINE e == l[p]
             before == h.prev[e]
             after == h.next[e]
             g == [h EXCEPT !.head = IF before = NULL THEN after ELSE h.head,
                  !.next = [x \in Elements |->
                    IF x = e THEN NULL ELSE IF x = before THEN after ELSE h.next[x]],
                  !.prev = [x \in Elements |->
                    IF x = e THEN NULL ELSE IF x = after THEN before ELSE h.prev[x]],
                  !.tbl.tail = IF h.tbl.tail = e THEN before ELSE h.tbl.tail,
                  !.tbl.num_items = h.tbl.num_items - 1]
             n == h.tbl.num_buckets
             f == Del_in_bkt(g, To_bkt(e, n), e)
             s == RemoveAt(l, p)
             out == Hash_delete(h, e)
  <1>1. out = IF before = NULL /\ after = NULL THEN Empty ELSE f
    BY DEF Hash_delete
  <1>2. Ordered(h, l) /\ h.tbl.num_items = Len(l)
    BY DEF IsFull
  <1>3. PICK c : Holds(h, c, ToSet(l))
    BY DEF IsFull
  <1>4. /\ l \in Seq(Elements) /\ Len(l) \in Nat \ {0} /\ Distinct(l)
        /\ \A x : In(x, l) <=> x \in ToSet(l)
    BY <1>2, OrderedIs
  <1>5. /\ before = At(l, p - 1) /\ after = At(l, p + 1) /\ e \in Elements
        /\ (before = NULL <=> p = 1) /\ (after = NULL <=> p = Len(l))
    BY <1>2, BesideIs
  <1>6. s \in Seq(Elements) /\ Len(s) = Len(l) - 1
    BY <1>4, RemoveAtIs
  <1>7. CASE Len(l) = 1
    <2>1. s = <<>>
      BY <1>6, <1>7
    <2>2. out = Empty
      BY <1>1, <1>4, <1>5, <1>7
    <2>3. QED
      BY <2>1, <2>2 DEF Keeps, TailIs
  <1>8. CASE Len(l) # 1
    <2>1. out = f
      BY <1>1, <1>4, <1>5, <1>8
    <2>2. IsTable(h) /\ AreBuckets(h)
      BY <1>3 DEF Holds
    <2>3. /\ IsTable(g) /\ SameChains(h, g) /\ Unlinks(h, g, l, p)
          /\ g.tbl.num_items = h.tbl.num_items - 1
          /\ g.tbl.tail = IF h.tbl.tail = e THEN before ELSE h.tbl.tail
      BY <2>2 DEF IsTable, SameChains, Unlinks
    <2> HIDE DEF g
    <2>4. /\ Ordered(g, s) /\ Len(s) = Len(l) - 1
          /\ \A x : In(x, s) <=> x # e /\ In(x, l)
      BY <1>2, <1>8, <2>3, UnlinkIs
    <2>5. Holds(g, c, ToSet(l))
      BY <1>3, <2>3, HoldsSame
    <2>6. e \in ToSet(l) /\ g.tbl.num_buckets = n
      BY <1>4, <2>3 DEF In, SameChains
    <2>7. Dropped(g, f, To_bkt(e, n), e)
      <3> DEFINE b == To_bkt(e, n)
      <3>1. IsTable(g) /\ AreBuckets(g) /\ n \in Nat \ {0}
        BY <2>5, <2>6 DEF Holds, AreBuckets
      <3>2. b \in 0 .. n - 1
        BY <1>5, <3>1, ToBktIs
      <3> HIDE DEF b, n
      <3>3. Dropped(g, Del_in_bkt(g, b, e), b, e)
        BY <2>6, <3>1, <3>2, DelIs
      <3>4. QED
        BY <3>3 DEF b
    <2> HIDE DEF f
    <2>8. \E d : Holds(f, d, ToSet(l) \ {e})
      <3> DEFINE m == ToSet(l)
      <3>1. Holds(g, c, m) /\ e \in m
        BY <2>5, <2>6
      <3> HIDE DEF m
      <3>2. \E d : Holds(f, d, m \ {e})
        BY <2>6, <2>7, <3>1, DropHolds
      <3>3. QED
        BY <3>2 DEF m
    <2>9. ToSet(s) = ToSet(l) \ {e}
      <3> HIDE DEF s
      <3>1. \A x : In(x, s) <=> x \in ToSet(s)
        BY <1>6, ToSetIn
      <3> DEFINE a == ToSet(s)
                 m == ToSet(l)
      <3>2. \A x : x \in a <=> x \in m /\ x # e
        BY <1>4, <2>4, <3>1
      <3> HIDE DEF a, m
      <3>3. a = m \ {e}
        BY <3>2
      <3>4. QED
        BY <3>3 DEF a, m
    <2>10. SameOrder(g, f)
      BY <2>7 DEF Dropped
    <2>11. Ordered(f, s)
      BY <2>4, <2>10, OrderedSame DEF SameOrder
    <2>12. f.tbl.num_items = Len(s)
      BY <1>2, <2>3, <2>4, <2>10 DEF SameOrder
    <2>13. IsFull(f, s)
      BY <2>8, <2>9, <2>11, <2>12 DEF IsFull
    <2>14. ASSUME h.tbl.tail = l[Len(l)] PROVE f.tbl.tail = s[Len(s)]
      <3>1. f.tbl.tail = IF h.tbl.tail = e THEN before ELSE h.tbl.tail
        BY <2>3, <2>10 DEF SameOrder
      <3>2. Len(l) \in 1 .. Len(l) /\ Len(s) \in 1 .. Len(l) - 1 /\ Len(s) + 1 = Len(l)
        BY <1>4, <1>6, <1>8
      <3>3. s[Len(s)] = IF Len(s) < p THEN l[Len(s)] ELSE l[Len(s) + 1]
        BY <1>4, <3>2, RemoveAtIs
      <3>4. CASE p = Len(l)
        <4>1. Len(s) < p /\ p - 1 = Len(s) /\ p - 1 \in 1 .. Len(l)
          BY <1>4, <3>2, <3>4
        <4>2. before = l[p - 1]
          BY <1>5, <4>1 DEF At
        <4>3. QED
          BY <2>14, <3>1, <3>3, <3>4, <4>1, <4>2
      <3>5. CASE p # Len(l)
        <4>1. ~ (Len(s) < p)
          BY <1>4, <3>2, <3>5
        <4>2. l[Len(l)] # e
          BY <1>4, <3>2, <3>5 DEF Distinct
        <4>3. QED
          BY <2>14, <3>1, <3>2, <3>3, <4>1, <4>2
      <3>6. QED
        BY <3>4, <3>5
    <2>15. l # <<>>
      BY <1>4
    <2>16. QED
      BY <2>1, <2>13, <2>14, <2>15 DEF Keeps, TailIs
  <1>9. QED
    BY <1>7, <1>8

\* What a sort has built of its new list.
Relinkings == [list : Elements \cup {NULL}, tail : Elements \cup {NULL},
               next : HandlePointers, prev : HandlePointers]

\* The new list after each element of l was linked, and its end closed.
RelinkSteps(h, l, after) ==
  /\ after[0] = [list |-> NULL, tail |-> NULL, next |-> h.next, prev |-> h.prev]
  /\ \A k \in 1 .. Len(l) : after[k - 1] \in Relinkings /\ after[k] = Relink(after[k - 1], l[k])
  /\ Linked(h, l) =
       [h EXCEPT !.head = after[Len(l)].list, !.tbl.tail = after[Len(l)].tail,
                 !.next = [after[Len(l)].next EXCEPT ![after[Len(l)].tail] = NULL],
                 !.prev = after[Len(l)].prev]

LEMMA RelinkExists ==
  ASSUME NEW h, h.next \in HandlePointers, h.prev \in HandlePointers, NEW l \in Seq(Elements)
  PROVE  \E after : RelinkSteps(h, l, after)
  <1> DEFINE n == Len(l)
             S == Relinkings
             start == [list |-> NULL, tail |-> NULL, next |-> h.next, prev |-> h.prev]
             step == [x \in (1 .. n) \X S |-> Relink(x[2], l[x[1]])]
             Is(g) == g = [k \in 0 .. n |-> IF k = 0 THEN start ELSE Relink(g[k - 1], l[k])]
             after == CHOOSE g : Is(g)
  <1>1. Linked(h, l) =
          [h EXCEPT !.head = after[n].list, !.tbl.tail = after[n].tail,
                    !.next = [after[n].next EXCEPT ![after[n].tail] = NULL],
                    !.prev = after[n].prev]
    BY DEF Linked
  <1>2. n \in Nat /\ \A k \in 1 .. n : l[k] \in Elements
    OBVIOUS
  <1>3. start \in S
    BY DEF Relinkings
  <1>4. step \in [(1 .. n) \X S -> S]
    <2>1. ASSUME NEW g \in S, NEW e \in Elements PROVE Relink(g, e) \in S
      BY DEF Relink, Relinkings, HandlePointers
    <2> HIDE DEF S, n
    <2>2. QED
      BY <1>2, <2>1
  <1> HIDE DEF n, S, start
  <1>5. PICK f : Computes(S, start, step, n, f)
    <2> HIDE DEF step
    <2>1. QED
      BY <1>2, <1>3, <1>4, LoopExists
  <1>6. /\ f \in [0 .. n -> S]
        /\ f = [k \in 0 .. n |-> IF k = 0 THEN start ELSE step[<<k, f[k - 1]>>]]
    BY <1>5 DEF Computes
  <1>7. ASSUME NEW k \in 1 .. n
        PROVE  /\ k \in 0 .. n /\ k - 1 \in 0 .. n /\ f[k - 1] \in S
               /\ step[<<k, f[k - 1]>>] = Relink(f[k - 1], l[k])
    <2>1. k \in 0 .. n /\ k - 1 \in 0 .. n
      BY <1>2
    <2>2. f[k - 1] \in S
      BY <1>6, <2>1
    <2>3. QED
      BY <2>1, <2>2
  <1> HIDE DEF step
  <1>8. Is(f)
    <2>1. ASSUME NEW k \in 0 .. n, k # 0 PROVE step[<<k, f[k - 1]>>] = Relink(f[k - 1], l[k])
      <3>1. k \in 1 .. n
        BY <1>2, <2>1
      <3>2. QED
        BY <1>7, <3>1
    <2>2. QED
      BY <1>6, <2>1
  <1>9. Is(after)
    <2> HIDE DEF Is
    <2>1. QED
      BY <1>8
  <1> HIDE DEF after
  <1>10. after = [k \in 0 .. n |-> IF k = 0 THEN start ELSE Relink(after[k - 1], l[k])]
    BY <1>9
  <1> HIDE DEF Is
  <1>11. after[0] = start
    BY <1>2, <1>10
  <1>12. ASSUME NEW k \in 1 .. n PROVE after[k] = Relink(after[k - 1], l[k])
    <2> DEFINE E(u) == Relink(u, l[k])
    <2>1. k \in 0 .. n /\ k # 0
      BY <1>2
    <2>2. after[k] = IF k = 0 THEN start ELSE E(after[k - 1])
      BY <1>10, <2>1
    <2> HIDE DEF E
    <2>3. after[k] = E(after[k - 1])
      BY <2>1, <2>2
    <2>4. QED
      BY <2>3 DEF E
  <1>13. \A k \in 0 .. n : after[k] \in S
    <2> DEFINE U == {k \in Nat : k <= n => after[k] \in S}
    <2>1. 0 \in U
      BY <1>3, <1>11
    <2>2. ASSUME NEW k \in Nat, k \in U PROVE k + 1 \in U
      <3>1. CASE k + 1 <= n
        <4>1. k + 1 \in 1 .. n /\ (k + 1) - 1 = k /\ after[k] \in S
          BY <1>2, <2>2, <3>1
        <4>2. after[k + 1] = Relink(after[k], l[k + 1]) /\ l[k + 1] \in Elements
          BY <1>2, <1>12, <4>1
        <4>3. Relink(after[k], l[k + 1]) \in S
          BY <4>1, <4>2 DEF Relink, Relinkings, HandlePointers, S
        <4>4. QED
          BY <4>2, <4>3
      <3>2. CASE ~ (k + 1 <= n)
        BY <3>2
      <3>3. QED
        BY <3>1, <3>2
    <2> HIDE DEF U
    <2>3. Nat \subseteq U
      BY <2>1, <2>2, NatAll
    <2>4. QED
      BY <1>2, <2>3 DEF U
  <1>14. \A k \in 1 .. n : after[k - 1] \in S
    <2>1. \A k \in 1 .. n : k - 1 \in 0 .. n
      BY <1>2
    <2>2. QED
      BY <1>13, <2>1
  <1>15. RelinkSteps(h, l, after)
    BY <1>1, <1>11, <1>12, <1>14 DEF RelinkSteps, n, S, start
  <1>16. QED
    BY <1>15

\* The new list after k elements of l: they are linked both ways but for the
\* last one, and what is not in l is as it was.
RelinkedUpTo(h, l, k, g) ==
  /\ g \in Relinkings
  /\ g.tail = At(l, k) /\ (k > 0 => g.list = l[1])
  /\ \A j \in 1 .. k - 1 : g.next[l[j]] = l[j + 1]
  /\ \A j \in 1 .. k : g.prev[l[j]] = At(l, j - 1)
  /\ \A x \in Elements : ~ In(x, l) => g.next[x] = h.next[x] /\ g.prev[x] = h.prev[x]

\* One more element is linked.
LEMMA RelinkStep ==
  ASSUME NEW h, NEW l \in Seq(Elements), Distinct(l), NEW k \in 1 .. Len(l),
         NEW g, RelinkedUpTo(h, l, k - 1, g)
  PROVE  RelinkedUpTo(h, l, k, Relink(g, l[k]))
  <1> DEFINE e == l[k]
             f == Relink(g, e)
  <1>1. /\ Len(l) \in Nat /\ k \in Nat /\ e \in Elements /\ At(l, k) = e /\ NULL \notin Elements
        /\ \A j \in 1 .. Len(l) : l[j] \in Elements /\ In(l[j], l)
    BY HashAssumption DEF At, In
  <1>2. g \in Relinkings /\ g.tail = At(l, k - 1) /\ (k - 1 > 0 => g.list = l[1])
    BY DEF RelinkedUpTo
  <1>3. f \in Relinkings
    BY <1>1, <1>2 DEF Relink, Relinkings, HandlePointers
  <1>4. f.tail = e /\ f.prev = [g.prev EXCEPT ![e] = g.tail] /\ e \in DOMAIN g.prev
    BY <1>1, <1>2 DEF Relink, Relinkings, HandlePointers
  <1>5. CASE k = 1
    <2>1. g.tail = NULL
      BY <1>2, <1>5 DEF At
    <2>2. f.list = e /\ f.next = g.next
      BY <2>1 DEF Relink
    <2>3. \A j \in 1 .. k : f.prev[l[j]] = At(l, j - 1)
      BY <1>2, <1>4, <1>5
    <2>4. \A x \in Elements : ~ In(x, l) => x # e
      BY <1>1
    <2>5. \A x \in Elements : ~ In(x, l) => f.next[x] = h.next[x] /\ f.prev[x] = h.prev[x]
      BY <1>4, <2>2, <2>4 DEF RelinkedUpTo
    <2> HIDE DEF f
    <2>6. QED
      BY <1>1, <1>3, <1>4, <1>5, <2>2, <2>3, <2>5 DEF RelinkedUpTo, f
  <1>6. CASE k # 1
    <2>1. k - 1 \in 1 .. Len(l) /\ k - 1 > 0
      BY <1>1, <1>6
    <2>2. g.tail = l[k - 1] /\ l[k - 1] \in Elements /\ g.tail # NULL
      BY <1>1, <1>2, <2>1 DEF At
    <2>3. f.list = l[1] /\ f.next = [g.next EXCEPT ![l[k - 1]] = e] /\ l[k - 1] \in DOMAIN g.next
      BY <1>2, <2>1, <2>2 DEF Relink, Relinkings, HandlePointers
    <2> HIDE DEF f, e
    <2>4. ASSUME NEW j \in 1 .. k - 1 PROVE f.next[l[j]] = l[j + 1]
      <3>1. CASE j = k - 1
        <4>1. j + 1 = k
          BY <1>1, <3>1
        <4>2. QED
          BY <2>3, <3>1, <4>1 DEF e
      <3>2. CASE j # k - 1
        <4>1. j \in 1 .. (k - 1) - 1 /\ j \in 1 .. Len(l)
          BY <1>1, <3>2
        <4>2. l[j] # l[k - 1]
          BY <2>1, <3>2, <4>1 DEF Distinct
        <4>3. g.next[l[j]] = l[j + 1]
          BY <4>1 DEF RelinkedUpTo
        <4>4. QED
          BY <2>3, <4>2, <4>3
      <3>3. QED
        BY <3>1, <3>2
    <2>5. ASSUME NEW j \in 1 .. k PROVE f.prev[l[j]] = At(l, j - 1)
      <3>1. CASE j = k
        BY <1>2, <1>4, <3>1 DEF e
      <3>2. CASE j # k
        <4>1. j \in 1 .. k - 1 /\ j \in 1 .. Len(l)
          BY <1>1, <3>2
        <4>2. l[j] # e
          BY <3>2, <4>1 DEF Distinct, e
        <4>3. g.prev[l[j]] = At(l, j - 1)
          BY <4>1 DEF RelinkedUpTo
        <4>4. QED
          BY <1>4, <4>2, <4>3
      <3>3. QED
        BY <3>1, <3>2
    <2>6. ASSUME NEW x \in Elements, ~ In(x, l) PROVE f.next[x] = h.next[x] /\ f.prev[x] = h.prev[x]
      <3>1. x # e /\ x # l[k - 1]
        BY <1>1, <2>1, <2>6 DEF e
      <3>2. g.next[x] = h.next[x] /\ g.prev[x] = h.prev[x]
        BY <2>6 DEF RelinkedUpTo
      <3>3. QED
        BY <1>4, <2>3, <3>1, <3>2
    <2>7. RelinkedUpTo(h, l, k, f)
      BY <1>1, <1>3, <1>4, <2>3, <2>4, <2>5, <2>6 DEF RelinkedUpTo, e
    <2>8. QED
      BY <2>7 DEF f, e
  <1>7. QED
    BY <1>5, <1>6

\* The table after its elements were relinked in the order of l.
LEMMA LinkedIs ==
  ASSUME NEW h, IsTable(h), NEW l0, Ordered(h, l0),
         NEW l \in Seq(Elements), Distinct(l), l # <<>>, ToSet(l) = ToSet(l0)
  PROVE  LET g == Linked(h, l)
         IN  /\ IsTable(g) /\ SameChains(h, g) /\ Ordered(g, l)
             /\ g.tbl.num_items = h.tbl.num_items /\ g.tbl.noexpand = h.tbl.noexpand
             /\ g.tbl.tail = l[Len(l)]
  <1> DEFINE g == Linked(h, l)
             n == Len(l)
  <1>1. n \in Nat \ {0} /\ NULL \notin Elements
    BY HashAssumption
  <1>2. h.next \in HandlePointers /\ h.prev \in HandlePointers
    BY DEF Ordered
  <1>3. \A x \in Elements : ~ In(x, l) => h.next[x] = NULL /\ h.prev[x] = NULL
    <2>1. l0 \in Seq(Elements)
      BY DEF Ordered, Links
    <2>2. \A x : (In(x, l) <=> x \in ToSet(l)) /\ (In(x, l0) <=> x \in ToSet(l0))
      BY <2>1, ToSetIn
    <2>3. QED
      BY <2>2 DEF Ordered
  <1>4. PICK after : RelinkSteps(h, l, after)
    BY <1>2, RelinkExists
  <1>5. \A k \in 0 .. n : RelinkedUpTo(h, l, k, after[k])
    <2> DEFINE U == {k \in Nat : k <= n => RelinkedUpTo(h, l, k, after[k])}
    <2>1. 0 \in U
      <3>1. after[0] = [list |-> NULL, tail |-> NULL, next |-> h.next, prev |-> h.prev]
        BY <1>4 DEF RelinkSteps
      <3>2. after[0] \in Relinkings /\ after[0].tail = At(l, 0)
        BY <1>2, <3>1 DEF Relinkings, At
      <3>3. RelinkedUpTo(h, l, 0, after[0])
        BY <3>1, <3>2 DEF RelinkedUpTo
      <3>4. QED
        BY <3>3
    <2>2. ASSUME NEW k \in Nat, k \in U PROVE k + 1 \in U
      <3>1. CASE k + 1 <= n
        <4> DEFINE m == k + 1
        <4>1. m \in 1 .. Len(l) /\ m - 1 = k
          BY <1>1, <3>1
        <4>2. RelinkedUpTo(h, l, k, after[k])
          BY <1>1, <2>2, <3>1
        <4>3. QED
          <5> HIDE DEF m
          <5>1. RelinkedUpTo(h, l, m - 1, after[m - 1])
            BY <4>1, <4>2
          <5>2. after[m] = Relink(after[m - 1], l[m])
            BY <1>4, <4>1 DEF RelinkSteps
          <5>3. RelinkedUpTo(h, l, m, Relink(after[m - 1], l[m]))
            BY <4>1, <5>1, RelinkStep
          <5>4. RelinkedUpTo(h, l, m, after[m])
            BY <5>2, <5>3
          <5>5. QED
            BY <5>4 DEF m
      <3>2. CASE ~ (k + 1 <= n)
        BY <3>2
      <3>3. QED
        BY <3>1, <3>2
    <2> HIDE DEF U
    <2>3. Nat \subseteq U
      BY <2>1, <2>2, NatAll
    <2>4. QED
      BY <1>1, <2>3 DEF U
  <1> DEFINE end == after[n]
             n2 == [end.next EXCEPT ![end.tail] = NULL]
             p2 == end.prev
  <1>6. RelinkedUpTo(h, l, n, end)
    BY <1>1, <1>5
  <1>7. g = [h EXCEPT !.head = end.list, !.tbl.tail = end.tail, !.next = n2, !.prev = p2]
    BY <1>4 DEF RelinkSteps
  <1>8. /\ end \in Relinkings /\ end.tail = l[n] /\ end.list = l[1] /\ l[n] \in Elements
    BY <1>1, <1>6 DEF RelinkedUpTo, At
  <1>9. n2 \in HandlePointers /\ p2 \in HandlePointers /\ l[n] \in DOMAIN end.next
    BY <1>8 DEF Relinkings, HandlePointers
  <1>10. ASSUME NEW k \in 1 .. n PROVE n2[l[k]] = At(l, k + 1) /\ p2[l[k]] = At(l, k - 1)
    <2>1. p2[l[k]] = At(l, k - 1)
      BY <1>6 DEF RelinkedUpTo
    <2>2. CASE k = n
      <3>1. At(l, k + 1) = NULL
        BY <1>1, <2>2 DEF At
      <3>2. n2[l[k]] = NULL
        BY <1>8, <1>9, <2>2
      <3>3. QED
        BY <2>1, <3>1, <3>2
    <2>3. CASE k # n
      <3>1. k \in 1 .. n - 1 /\ n \in 1 .. Len(l) /\ k \in 1 .. Len(l) /\ k + 1 \in 1 .. Len(l)
        BY <1>1, <2>3
      <3>2. l[k] # l[n]
        BY <2>3, <3>1 DEF Distinct
      <3>3. end.next[l[k]] = l[k + 1]
        BY <1>6, <3>1 DEF RelinkedUpTo
      <3>4. n2[l[k]] = l[k + 1]
        BY <1>8, <3>2, <3>3
      <3>5. QED
        BY <2>1, <3>1, <3>4 DEF At
    <2>4. QED
      BY <2>2, <2>3
  <1>11. ASSUME NEW x \in Elements, ~ In(x, l) PROVE n2[x] = NULL /\ p2[x] = NULL
    <2>1. x # l[n]
      BY <1>1, <1>11 DEF In
    <2>2. end.next[x] = NULL /\ end.prev[x] = NULL
      BY <1>3, <1>6, <1>11 DEF RelinkedUpTo
    <2>3. QED
      BY <1>8, <2>1, <2>2
  <1> HIDE DEF g, end, n2, p2
  <1>12. /\ IsTable(g) /\ SameChains(h, g) /\ g.head = end.list /\ g.next = n2 /\ g.prev = p2
         /\ g.tbl.num_items = h.tbl.num_items /\ g.tbl.noexpand = h.tbl.noexpand
         /\ g.tbl.tail = end.tail
    BY <1>7 DEF IsTable, SameChains
  <1>13. l[1] = At(l, 1)
    BY <1>1 DEF At
  <1>14. Ordered(g, l)
    BY <1>8, <1>9, <1>10, <1>11, <1>12, <1>13 DEF Ordered, Links
  <1>15. QED
    BY <1>8, <1>12, <1>14 DEF g

\* HASH_SRT reorders the elements by a stable sort, and nothing else.
LEMMA SrtIs ==
  ASSUME NEW h, NEW l, Keeps(h, l), TailIs(h, l), NEW rank \in [Elements -> Int]
  PROVE  \E s : /\ Keeps(Hash_srt(h, rank), s) /\ TailIs(Hash_srt(h, rank), s)
                /\ (l = <<>> /\ s = <<>>) \/ IsStableSort(rank, l, s)
  <1>1. l \in Seq(Elements) /\ Distinct(l) /\ AppOrder(h) = l /\ (h.head = NULL <=> l = <<>>)
        /\ (l # <<>> => IsFull(h, l))
    BY KeepsIs
  <1>2. CASE l = <<>>
    <2>1. Hash_srt(h, rank) = h
      BY <1>1, <1>2 DEF Hash_srt
    <2>2. QED
      BY <1>2, <2>1
  <1>3. CASE l # <<>>
    <2> DEFINE s == Sorted(rank, l)
               g == Linked(h, s)
    <2>1. Hash_srt(h, rank) = g
      BY <1>1, <1>3 DEF Hash_srt
    <2>2. s \in Seq(Elements) /\ Distinct(s) /\ IsStableSort(rank, l, s)
      BY <1>1, <1>3, SortIsStable
    <2> HIDE DEF s
    <2>3. Len(s) = Len(l) /\ ToSet(s) = ToSet(l)
      BY <2>2 DEF IsStableSort, ToSet
    <2>4. s # <<>>
      <3>1. Len(l) \in Nat \ {0}
        BY <1>1, <1>3
      <3>2. QED
        BY <2>3, <3>1
    <2>5. IsFull(h, l)
      BY <1>1, <1>3
    <2>6. PICK c : Holds(h, c, ToSet(l))
      BY <2>5 DEF IsFull
    <2>7. IsTable(h) /\ h.tbl.num_items = Len(l)
      BY <2>5, <2>6 DEF Holds, IsFull
    <2>8. /\ IsTable(g) /\ SameChains(h, g) /\ Ordered(g, s)
          /\ g.tbl.num_items = h.tbl.num_items /\ g.tbl.tail = s[Len(s)]
      BY <2>2, <2>3, <2>4, <2>5, <2>7, LinkedIs DEF IsFull
    <2> HIDE DEF g
    <2>9. Holds(g, c, ToSet(s))
      BY <2>3, <2>6, <2>8, HoldsSame
    <2>10. IsFull(g, s)
      BY <2>3, <2>7, <2>8, <2>9 DEF IsFull
    <2>11. QED
      BY <2>1, <2>2, <2>8, <2>10 DEF Keeps, TailIs
  <1>4. QED
    BY <1>2, <1>3

\* The table of HASH_SELECT while it is filled; its last element is known.
Fills(g, l) ==
  /\ Keeps(g.table, l)
  /\ IF l = <<>> THEN g.last = NULL ELSE g.last = l[Len(l)]

\* The table of HASH_SELECT after an element was linked behind the last one.
Followed(h, last, e) ==
  IF last = NULL THEN Make_table(h, e) ELSE [h EXCEPT !.prev[e] = last, !.next[last] = e]

LEMMA FollowedIs ==
  ASSUME hashv \in [Elements -> Nat], NEW h, NEW l, Keeps(h, l), NEW last,
         IF l = <<>> THEN last = NULL ELSE last = l[Len(l)],
         NEW e \in Elements, ~ In(e, l)
  PROVE  LET linked == Followed(h, last, e)
             s == Append(l, e)
         IN  /\ IsTable(linked) /\ linked.tbl.num_items = Len(l) /\ Ordered(linked, s)
             /\ Len(s) = Len(l) + 1
             /\ \E c : Holds(linked, c, ToSet(l))
  <1> DEFINE linked == IF last = NULL THEN Make_table(h, e)
                       ELSE [h EXCEPT !.prev[e] = last, !.next[last] = e]
             s == Append(l, e)
  <1>1. /\ Keeps(h, l) /\ l \in Seq(Elements) /\ (l # <<>> => IsFull(h, l))
        /\ (IF l = <<>> THEN last = NULL ELSE last = l[Len(l)])
    BY KeepsIs
  <1>2. ASSUME l = <<>>
        PROVE  /\ IsTable(linked) /\ linked.tbl.num_items = Len(l) /\ Ordered(linked, s)
               /\ Len(s) = Len(l) + 1
               /\ \E c : Holds(linked, c, ToSet(l))
    <2> DEFINE t == Make_table(Empty, e)
    <2>1. /\ IsTable(t) /\ Ordered(t, <<e>>) /\ t.tbl.num_items = 0
          /\ \E c : Holds(t, c, {})
      BY MakeIs
    <2> HIDE DEF t
    <2>2. linked = t
      <3>1. h = Empty
        BY <1>1, <1>2 DEF Keeps, IsFull, Ordered
      <3>2. QED
        BY <1>1, <1>2, <3>1 DEF t
    <2>3. <<>> \in Seq(Elements) /\ Len(<<e>>) = 1 /\ Len(<<>>) = 0
      OBVIOUS
    <2>4. ToSet(<<>>) = {} /\ Append(<<>>, e) = <<e>>
      BY <2>3, ToSetAppend
    <2>5. s = <<e>> /\ ToSet(l) = {} /\ Len(s) = 1 /\ Len(l) = 0
      BY <1>2, <2>3, <2>4
    <2> HIDE DEF linked, s
    <2>6. QED
      BY <2>1, <2>2, <2>5
  <1>3. ASSUME l # <<>>
        PROVE  /\ IsTable(linked) /\ linked.tbl.num_items = Len(l) /\ Ordered(linked, s)
               /\ Len(s) = Len(l) + 1
               /\ \E c : Holds(linked, c, ToSet(l))
    <2>1. IsFull(h, l) /\ last = l[Len(l)]
      BY <1>1, <1>3
    <2>2. PICK c : Holds(h, c, ToSet(l))
      BY <2>1 DEF IsFull
    <2>3. IsTable(h) /\ Ordered(h, l) /\ h.tbl.num_items = Len(l)
      BY <2>1, <2>2 DEF IsFull, Holds
    <2>4. last # NULL
      <3>1. l \in Seq(Elements) /\ Len(l) \in 1 .. Len(l)
        BY <1>1, <1>3
      <3>2. l[Len(l)] \in Elements
        BY <3>1
      <3>3. QED
        BY <2>1, <3>2
    <2>5. linked = [h EXCEPT !.prev[e] = last, !.next[last] = e]
      BY <2>4
    <2> HIDE DEF linked
    <2>6. /\ IsTable(linked) /\ SameChains(h, linked) /\ linked.head = h.head
          /\ linked.tbl.num_items = h.tbl.num_items
          /\ linked.next = [h.next EXCEPT ![last] = e]
          /\ linked.prev = [h.prev EXCEPT ![e] = last]
      BY <2>3, <2>5 DEF IsTable, SameChains
    <2>7. Holds(linked, c, ToSet(l))
      BY <2>2, <2>6, HoldsSame
    <2>8. LinksLast(h, linked, l, e)
      BY <2>1, <2>6 DEF LinksLast
    <2>9. Ordered(linked, s) /\ Len(s) = Len(l) + 1
      BY <2>3, <2>8, LinkLastIs
    <2>10. QED
      BY <2>3, <2>6, <2>7, <2>9
  <1>4. /\ IsTable(linked) /\ linked.tbl.num_items = Len(l) /\ Ordered(linked, s)
        /\ Len(s) = Len(l) + 1
        /\ \E c : Holds(linked, c, ToSet(l))
    BY <1>2, <1>3
  <1>5. Followed(h, last, e) = linked
    BY DEF Followed
  <1> HIDE DEF linked, s
  <1>6. QED
    BY <1>4, <1>5 DEF s

\* A step of HASH_SELECT adds the element, or leaves the table.
LEMMA SelectedIs ==
  ASSUME hashv \in [Elements -> Nat], NEW g, NEW l, Fills(g, l),
         NEW e \in Elements, ~ In(e, l), NEW chosen
  PROVE  \E s : /\ Fills(Selected(g, e, chosen), s)
                /\ \A x : In(x, s) => x = e \/ In(x, l)
  <1>1. CASE e \notin chosen
    BY <1>1 DEF Selected
  <1>2. CASE e \in chosen
    <2> DEFINE h == g.table
               last == g.last
               linked == Followed(h, last, e)
               added == Add_to_bkt(linked, e)
               f == [added EXCEPT !.tbl.num_items = added.tbl.num_items + 1]
               s == Append(l, e)
    <2>1. Selected(g, e, chosen) = [table |-> f, last |-> e]
      BY <1>2 DEF Selected, Followed
    <2>2. /\ Keeps(h, l) /\ l \in Seq(Elements) /\ (l # <<>> => IsFull(h, l))
          /\ (IF l = <<>> THEN last = NULL ELSE last = l[Len(l)])
      BY KeepsIs DEF Fills
    <2>3. /\ e \notin ToSet(l) /\ ToSet(s) = ToSet(l) \cup {e}
          /\ s # <<>> /\ s[Len(s)] = e
      BY <2>2, ToSetIn, ToSetAppend
    <2> HIDE DEF h, last
    <2>4. /\ IsTable(linked) /\ linked.tbl.num_items = Len(l) /\ Ordered(linked, s)
          /\ Len(s) = Len(l) + 1
          /\ \E c : Holds(linked, c, ToSet(l))
      BY <2>2, FollowedIs
    <2>5. \A x : In(x, s) => x = e \/ In(x, l)
      <3>1. s \in Seq(Elements)
        BY <2>2
      <3> HIDE DEF s
      <3>2. \A x : In(x, s) => x \in ToSet(s)
        BY <3>1, ToSetIn
      <3>3. \A x : x \in ToSet(l) => In(x, l)
        BY <2>2, ToSetIn
      <3>4. QED
        BY <2>3, <3>2, <3>3
    <2> HIDE DEF linked, s
    <2>6. (\E d : Holds(added, d, ToSet(s))) /\ SameOrder(linked, added)
      <3>1. PICK c : Holds(linked, c, ToSet(l))
        BY <2>4
      <3> DEFINE m == ToSet(l)
      <3> HIDE DEF m
      <3>2. e \in Elements \ m /\ Holds(linked, c, m)
        BY <2>3, <3>1 DEF m
      <3>3. (\E d : Holds(added, d, m \cup {e})) /\ SameOrder(linked, added)
        BY <3>2, AddToBktIs
      <3>4. QED
        BY <2>3, <3>3 DEF m
    <2> HIDE DEF added
    <2>7. PICK d : Holds(added, d, ToSet(s))
      BY <2>6
    <2>8. Ordered(added, s) /\ added.tbl.num_items = Len(l) /\ IsTable(added)
      BY <2>4, <2>6, <2>7, OrderedSame DEF SameOrder, Holds
    <2>9. /\ IsTable(f) /\ SameChains(added, f) /\ f.tbl.num_items = Len(l) + 1
          /\ f.head = added.head /\ f.next = added.next /\ f.prev = added.prev
      BY <2>8 DEF IsTable, SameChains
    <2> HIDE DEF f
    <2>10. Holds(f, d, ToSet(s)) /\ Ordered(f, s)
      BY <2>7, <2>8, <2>9, HoldsSame, OrderedSame
    <2>11. IsFull(f, s)
      BY <2>4, <2>9, <2>10 DEF IsFull
    <2>12. Fills([table |-> f, last |-> e], s)
      BY <2>3, <2>11 DEF Fills, Keeps
    <2>13. QED
      BY <2>1, <2>5, <2>12
  <1>3. QED
    BY <1>1, <1>2

-----------------------------------------------------------------------------
(* Sums: the first n values of f add up to Total(f)[n].                    *)

Sums(f, s) == s \in [Nat -> Nat] /\ s[0] = 0 /\ \A k \in Nat : s[k + 1] = s[k] + f[k]

Total(f) == CHOOSE s : Sums(f, s)

LEMMA TotalIs ==
  ASSUME NEW f \in [Nat -> Nat]
  PROVE  Sums(f, Total(f))
  <1> DEFINE S == Nat \X Nat
             step == [x \in S |-> <<x[1] + 1, x[2] + f[x[1]]>>]
  <1>1. <<0, 0>> \in S /\ step \in [S -> S]
    OBVIOUS
  <1>2. \A x \in S : step[x] = <<x[1] + 1, x[2] + f[x[1]]>>
    OBVIOUS
  <1> HIDE DEF S, step
  <1>3. PICK r : Recurs(S, <<0, 0>>, step, r)
    BY <1>1, NatRecursion
  <1>4. r \in [Nat -> S] /\ r[0] = <<0, 0>> /\ \A k \in Nat : r[k + 1] = step[r[k]]
    BY <1>3 DEF Recurs
  <1> DEFINE T == {k \in Nat : r[k][1] = k}
  <1>5. 0 \in T
    BY <1>4
  <1>6. ASSUME NEW k \in Nat, k \in T PROVE k + 1 \in T
    <2>1. r[k] \in S /\ r[k][1] = k /\ r[k + 1] = step[r[k]]
      BY <1>4, <1>6
    <2>2. r[k + 1] = <<r[k][1] + 1, r[k][2] + f[r[k][1]]>>
      BY <1>2, <2>1
    <2>3. QED
      BY <2>1, <2>2
  <1> HIDE DEF T
  <1>7. Nat \subseteq T
    BY <1>5, <1>6, NatAll
  <1>8. \A k \in Nat : r[k][1] = k
    BY <1>7 DEF T
  <1> DEFINE s == [k \in Nat |-> r[k][2]]
  <1>9. s \in [Nat -> Nat]
    BY <1>4 DEF S
  <1>10. s[0] = 0
    BY <1>4
  <1>11. ASSUME NEW k \in Nat PROVE s[k + 1] = s[k] + f[k]
    <2>1. r[k] \in S /\ r[k][1] = k /\ r[k + 1] = step[r[k]]
      BY <1>4, <1>8
    <2>2. r[k + 1] = <<r[k][1] + 1, r[k][2] + f[r[k][1]]>>
      BY <1>2, <2>1
    <2>3. QED
      BY <2>1, <2>2
  <1> HIDE DEF s
  <1>12. Sums(f, s)
    BY <1>9, <1>10, <1>11 DEF Sums
  <1>13. QED
    BY <1>12 DEF Total

\* A sum is bounded by what its terms are bounded by.
LEMMA TotalBounded ==
  ASSUME NEW f \in [Nat -> Nat], NEW g \in [Nat -> Nat], NEW a \in Nat, NEW c \in Nat,
         NEW n \in Nat, \A k \in 0 .. n - 1 : f[k] <= a * g[k] + c
  PROVE  Total(f)[n] <= a * Total(g)[n] + c * n
  <1> DEFINE s == Total(f)
             t == Total(g)
             T == {k \in Nat : k <= n => s[k] <= a * t[k] + c * k}
  <1>1. Sums(f, s) /\ Sums(g, t)
    BY TotalIs
  <1> HIDE DEF s, t
  <1>2. /\ s \in [Nat -> Nat] /\ s[0] = 0 /\ \A k \in Nat : s[k + 1] = s[k] + f[k]
        /\ t \in [Nat -> Nat] /\ t[0] = 0 /\ \A k \in Nat : t[k + 1] = t[k] + g[k]
    BY <1>1 DEF Sums
  <1>3. 0 \in T
    BY <1>2
  <1>4. ASSUME NEW k \in Nat, k \in T PROVE k + 1 \in T
    <2>1. SUFFICES ASSUME k + 1 <= n PROVE s[k + 1] <= a * t[k + 1] + c * (k + 1)
      OBVIOUS
    <2>2. s[k] <= a * t[k] + c * k
      BY <1>4, <2>1
    <2>3. k \in 0 .. n - 1
      BY <2>1
    <2>4. f[k] <= a * g[k] + c
      BY <2>3
    <2>5. s[k + 1] = s[k] + f[k] /\ t[k + 1] = t[k] + g[k]
      BY <1>2
    <2> DEFINE u == s[k]
               v == t[k]
               x == f[k]
               y == g[k]
    <2>6. u \in Nat /\ v \in Nat /\ x \in Nat /\ y \in Nat
      BY <1>2
    <2> HIDE DEF u, v, x, y
    <2>7. u <= a * v + c * k /\ x <= a * y + c
      BY <2>2, <2>4 DEF u, v, x, y
    <2>8. a * (v + y) = a * v + a * y /\ c * (k + 1) = c * k + c
      BY <2>6
    <2>9. a * v \in Nat /\ a * y \in Nat /\ c * k \in Nat
      BY <2>6
    <2>10. u + x <= a * (v + y) + c * (k + 1)
      <3> DEFINE av == a * v
                 ay == a * y
                 ck == c * k
                 avy == a * (v + y)
                 ck1 == c * (k + 1)
      <3>1. /\ av \in Nat /\ ay \in Nat /\ ck \in Nat /\ avy = av + ay /\ ck1 = ck + c
            /\ u <= av + ck /\ x <= ay + c
        BY <2>7, <2>8, <2>9
      <3> HIDE DEF av, ay, ck, avy, ck1
      <3>2. u + x <= avy + ck1
        BY <2>6, <3>1
      <3>3. QED
        BY <3>2 DEF avy, ck1
    <2>11. QED
      BY <2>5, <2>10 DEF u, v, x, y
  <1> HIDE DEF T
  <1>5. Nat \subseteq T
    BY <1>3, <1>4, NatAll
  <1>6. n \in T
    BY <1>5
  <1>7. QED
    BY <1>6 DEF T, s, t

\* g is f with one more at b.
OneMore(f, g, n, b) == g[b] = f[b] + 1 /\ \A k \in 0 .. n - 1 : k # b => g[k] = f[k]

\* A sum whose term at b grew by one grew by one.
LEMMA TotalGrows ==
  ASSUME NEW f \in [Nat -> Nat], NEW g \in [Nat -> Nat], NEW n \in Nat, NEW b \in 0 .. n - 1,
         OneMore(f, g, n, b)
  PROVE  Total(g)[n] = Total(f)[n] + 1
  <1> DEFINE s == Total(f)
             t == Total(g)
             T == {k \in Nat : k <= n => t[k] = s[k] + IF b < k THEN 1 ELSE 0}
  <1>1. Sums(f, s) /\ Sums(g, t)
    BY TotalIs
  <1> HIDE DEF s, t
  <1>2. /\ s \in [Nat -> Nat] /\ s[0] = 0 /\ \A k \in Nat : s[k + 1] = s[k] + f[k]
        /\ t \in [Nat -> Nat] /\ t[0] = 0 /\ \A k \in Nat : t[k + 1] = t[k] + g[k]
    BY <1>1 DEF Sums
  <1>3. 0 \in T
    BY <1>2
  <1>4. ASSUME NEW k \in Nat, k \in T PROVE k + 1 \in T
    <2>1. SUFFICES ASSUME k + 1 <= n PROVE t[k + 1] = s[k + 1] + IF b < k + 1 THEN 1 ELSE 0
      OBVIOUS
    <2>2. t[k] = s[k] + IF b < k THEN 1 ELSE 0
      BY <1>4, <2>1
    <2>3. k \in 0 .. n - 1
      BY <2>1
    <2>4. g[k] = f[k] + IF k = b THEN 1 ELSE 0
      BY <2>3 DEF OneMore
    <2>5. s[k + 1] = s[k] + f[k] /\ t[k + 1] = t[k] + g[k]
      BY <1>2
    <2>6. s[k] \in Nat /\ f[k] \in Nat
      BY <1>2
    <2>7. CASE k = b
      BY <2>2, <2>4, <2>5, <2>6, <2>7
    <2>8. CASE k # b
      <3>1. b < k + 1 <=> b < k
        BY <2>8
      <3>2. g[k] = f[k]
        BY <2>4, <2>6, <2>8
      <3>3. QED
        BY <2>2, <2>5, <2>6, <3>1, <3>2
    <2>9. QED
      BY <2>7, <2>8
  <1> HIDE DEF T
  <1>5. Nat \subseteq T
    BY <1>3, <1>4, NatAll
  <1>6. n \in T
    BY <1>5
  <1>7. t[n] = s[n] + IF b < n THEN 1 ELSE 0
    BY <1>6 DEF T
  <1>8. QED
    BY <1>7 DEF s, t

\* Nothing adds up to nothing.
LEMMA TotalOfNone ==
  ASSUME NEW f \in [Nat -> Nat], NEW n \in Nat, \A k \in 0 .. n - 1 : f[k] = 0
  PROVE  Total(f)[n] = 0
  <1>1. \A k \in 0 .. n - 1 : f[k] <= 0 * f[k] + 0
    OBVIOUS
  <1>2. Total(f)[n] <= 0 * Total(f)[n] + 0 * n
    BY <1>1, TotalBounded
  <1>3. Total(f)[n] \in Nat
    BY TotalIs DEF Sums
  <1>4. QED
    BY <1>2, <1>3

\* The same terms have the same sum.
LEMMA TotalSame ==
  ASSUME NEW f \in [Nat -> Nat], NEW g \in [Nat -> Nat], NEW n \in Nat,
         \A k \in 0 .. n - 1 : f[k] = g[k]
  PROVE  Total(f)[n] = Total(g)[n]
  <1>1. \A k \in 0 .. n - 1 : f[k] <= 1 * g[k] + 0 /\ g[k] <= 1 * f[k] + 0
    OBVIOUS
  <1>2. Total(f)[n] <= 1 * Total(g)[n] + 0 * n /\ Total(g)[n] <= 1 * Total(f)[n] + 0 * n
    BY <1>1, TotalBounded
  <1>3. Total(f)[n] \in Nat /\ Total(g)[n] \in Nat
    BY TotalIs DEF Sums
  <1>4. QED
    BY <1>2, <1>3

\* A sum is at least what its terms are at least.
LEMMA TotalScaled ==
  ASSUME NEW f \in [Nat -> Nat], NEW g \in [Nat -> Nat], NEW a \in Nat,
         NEW n \in Nat, \A k \in 0 .. n - 1 : a * g[k] <= f[k]
  PROVE  a * Total(g)[n] <= Total(f)[n]
  <1> DEFINE s == Total(f)
             t == Total(g)
             T == {k \in Nat : k <= n => a * t[k] <= s[k]}
  <1>1. Sums(f, s) /\ Sums(g, t)
    BY TotalIs
  <1> HIDE DEF s, t
  <1>2. /\ s \in [Nat -> Nat] /\ s[0] = 0 /\ \A k \in Nat : s[k + 1] = s[k] + f[k]
        /\ t \in [Nat -> Nat] /\ t[0] = 0 /\ \A k \in Nat : t[k + 1] = t[k] + g[k]
    BY <1>1 DEF Sums
  <1>3. 0 \in T
    BY <1>2
  <1>4. ASSUME NEW k \in Nat, k \in T PROVE k + 1 \in T
    <2>1. SUFFICES ASSUME k + 1 <= n PROVE a * t[k + 1] <= s[k + 1]
      OBVIOUS
    <2>2. a * t[k] <= s[k]
      BY <1>4, <2>1
    <2>3. k \in 0 .. n - 1
      BY <2>1
    <2>4. a * g[k] <= f[k]
      BY <2>3
    <2>5. s[k + 1] = s[k] + f[k] /\ t[k + 1] = t[k] + g[k]
      BY <1>2
    <2> DEFINE u == s[k]
               v == t[k]
               x == f[k]
               y == g[k]
               av == a * v
               ay == a * y
               avy == a * (v + y)
    <2>6. u \in Nat /\ v \in Nat /\ x \in Nat /\ y \in Nat
      BY <1>2
    <2>7. av <= u /\ ay <= x
      BY <2>2, <2>4
    <2> HIDE DEF u, v, x, y
    <2>8. avy = av + ay
      BY <2>6
    <2>9. av \in Nat /\ ay \in Nat
      BY <2>6
    <2> HIDE DEF av, ay, avy
    <2>10. avy <= u + x
      BY <2>6, <2>7, <2>8, <2>9
    <2>11. a * (v + y) <= u + x
      BY <2>10 DEF avy
    <2>12. QED
      BY <2>5, <2>11 DEF u, v, x, y
  <1> HIDE DEF T
  <1>5. Nat \subseteq T
    BY <1>3, <1>4, NatAll
  <1>6. n \in T
    BY <1>5
  <1>7. QED
    BY <1>6 DEF T, s, t

\* A product grows with its second factor.
LEMMA TimesGrows ==
  ASSUME NEW n \in Nat, NEW a \in Nat, NEW b \in Nat, a <= b
  PROVE  n * a <= n * b
  <1> DEFINE d == b - a
             na == n * a
             nd == n * d
  <1>1. d \in Nat /\ b = a + d
    OBVIOUS
  <1> HIDE DEF d
  <1>2. n * (a + d) = na + nd /\ na \in Nat /\ nd \in Nat
    BY <1>1
  <1> HIDE DEF nd
  <1>3. na <= na + nd
    BY <1>2
  <1>4. QED
    BY <1>1, <1>2, <1>3

-----------------------------------------------------------------------------
(* Room in the chains: f counts the elements of n buckets, m is what each   *)
(* has been allowed beyond the threshold t.                                 *)

\* The table of HASH_ADD, while it may expand.
Roomy(f, m, n, t) ==
  /\ \A b \in 0 .. n - 1 : f[b] <= t * m[b] + t /\ (m[b] > 0 => f[b] < t * m[b] + t)
  /\ Total(m)[n] <= n

\* The table of HASH_SELECT, which counts an element after it was put in its
\* bucket.
Late(f, m, n, t) ==
  /\ \A b \in 0 .. n - 1 : f[b] <= t * m[b] + t
  /\ \/ Total(m)[n] <= n
     \/ /\ Total(m)[n] <= n + 1 /\ t <= n
        /\ \A b \in 0 .. n - 1 : f[b] < t * m[b] + t

\* After an expansion with the ideal length q.
Filled(f, m, n, q) ==
  \A b \in 0 .. n - 1 : \/ f[b] <= q /\ m[b] = 0
                        \/ f[b] > q /\ m[b] = f[b] \div q

Ideal(items, n) == items \div n + IF items % n # 0 THEN 1 ELSE 0

\* The ideal length of a chain: the number of elements over the number of
\* buckets, rounded up.
LEMMA IdealIs ==
  ASSUME NEW items \in Nat, NEW n \in Nat \ {0}
  PROVE  /\ Ideal(items, n) \in Nat /\ items <= n * Ideal(items, n)
         /\ items > 0 => Ideal(items, n) > 0
         /\ \A t \in Nat : items <= n * t => Ideal(items, n) <= t
  <1> DEFINE d == items \div n
             r == items % n
             q == Ideal(items, n)
             nd == n * d
  <1>1. d \in Nat /\ r \in 0 .. n - 1 /\ items = nd + r /\ nd \in Nat
    BY Z3
  <1>2. q = IF r # 0 THEN d + 1 ELSE d
    BY <1>1 DEF Ideal
  <1> HIDE DEF d, r, q
  <1>3. n * (d + 1) = nd + n
    BY <1>1
  <1>4. q \in Nat
    BY <1>1, <1>2
  <1>5. items <= n * q
    <2>1. CASE r # 0
      <3>1. n * q = nd + n
        BY <1>2, <1>3, <2>1
      <3> HIDE DEF nd
      <3>2. QED
        BY <1>1, <3>1
    <2>2. CASE r = 0
      <3>1. n * q = nd
        BY <1>2, <2>2
      <3> HIDE DEF nd
      <3>2. QED
        BY <1>1, <2>2, <3>1
    <2>3. QED
      BY <2>1, <2>2
  <1>6. ASSUME items > 0 PROVE q > 0
    <2>1. CASE q = 0
      <3>1. n * q = 0
        BY <2>1
      <3>2. QED
        BY <1>5, <1>6, <3>1
    <2>2. QED
      BY <1>4, <2>1
  <1>7. ASSUME NEW t \in Nat, items <= n * t PROVE q <= t
    <2>1. SUFFICES ASSUME t < q PROVE FALSE
      BY <1>4
    <2>2. CASE r # 0
      <3>1. t <= d
        BY <1>1, <1>2, <2>1, <2>2
      <3>2. n * t <= n * d
        BY <1>1, <3>1, TimesGrows
      <3> DEFINE nt == n * t
      <3>3. nt \in Nat /\ nt <= nd /\ items <= nt
        BY <1>7, <3>2
      <3> HIDE DEF nt, nd
      <3>4. QED
        BY <1>1, <2>2, <3>3
    <2>3. CASE r = 0
      <3>1. t + 1 <= d
        BY <1>1, <1>2, <2>1, <2>3
      <3>2. n * (t + 1) <= n * d
        BY <1>1, <3>1, TimesGrows
      <3>3. n * (t + 1) = n * t + n
        OBVIOUS
      <3> DEFINE nt == n * t
      <3>4. nt \in Nat /\ nt + n <= nd /\ items <= nt
        BY <1>7, <3>2, <3>3
      <3> HIDE DEF nt, nd
      <3>5. QED
        BY <1>1, <2>3, <3>4
    <2>4. QED
      BY <2>2, <2>3
  <1>8. QED
    BY <1>4, <1>5, <1>6, <1>7 DEF q

\* A table that may expand has no more elements than twice as many buckets
\* would have at the threshold.
LEMMA RoomyAddsUp ==
  ASSUME NEW f \in [Nat -> Nat], NEW m \in [Nat -> Nat], NEW n \in Nat \ {0}, NEW t \in Nat \ {0},
         Roomy(f, m, n, t)
  PROVE  Total(f)[n] + 1 <= (2 * n) * t
  <1> DEFINE x == Total(m)[n]
             u == Total(f)[n]
             tx == t * x
             tn == t * n
  <1>1. \A b \in 0 .. n - 1 : f[b] <= t * m[b] + t /\ (m[b] > 0 => f[b] < t * m[b] + t)
    BY DEF Roomy
  <1>2. x <= n
    BY DEF Roomy
  <1>3. x \in Nat /\ u \in Nat
    BY TotalIs DEF Sums
  <1> HIDE DEF x, u
  <1>4. tx \in Nat /\ tn \in Nat /\ (2 * n) * t = tn + tn
    BY <1>3
  <1>5. CASE x < n
    <2>1. \A b \in 0 .. n - 1 : f[b] <= t * m[b] + t
      BY <1>1
    <2>2. u <= t * x + t * n
      BY <2>1, TotalBounded DEF x, u
    <2>3. t * (x + 1) <= t * n
      BY <1>3, <1>5, TimesGrows
    <2>4. t * (x + 1) = tx + t
      BY <1>3
    <2>5. u <= tx + tn /\ tx + t <= tn
      BY <2>2, <2>3, <2>4
    <2> HIDE DEF tx, tn
    <2>6. u + 1 <= tn + tn
      BY <1>3, <1>4, <2>5
    <2>7. QED
      BY <1>4, <2>6 DEF u
  <1>6. CASE x = n
    <2>1. PICK b \in 0 .. n - 1 : m[b] # 0
      <3>1. x # 0
        BY <1>6
      <3>2. QED
        BY <3>1, TotalOfNone DEF x
    <2>2. m[b] > 0 /\ b \in Nat
      <3>1. b \in Nat
        BY <2>1
      <3>2. m[b] \in Nat
        BY <3>1
      <3>3. QED
        BY <2>1, <3>1, <3>2
    <2> DEFINE g == [f EXCEPT ![b] = f[b] + 1]
    <2>3. g \in [Nat -> Nat] /\ g[b] = f[b] + 1 /\ \A k \in 0 .. n - 1 : k # b => g[k] = f[k]
      <3>1. b \in Nat /\ f[b] + 1 \in Nat
        BY <2>2
      <3>2. g \in [Nat -> Nat]
        BY <3>1
      <3>3. g[b] = f[b] + 1 /\ \A k \in 0 .. n - 1 : k # b => g[k] = f[k]
        BY <3>1
      <3>4. QED
        BY <3>2, <3>3
    <2> HIDE DEF g
    <2>4. Total(g)[n] = u + 1
      <3>1. OneMore(f, g, n, b)
        BY <2>3 DEF OneMore
      <3>2. n \in Nat /\ g \in [Nat -> Nat]
        BY <2>3
      <3> HIDE DEF u
      <3>3. Total(g)[n] = Total(f)[n] + 1
        BY <2>1, <3>1, <3>2, TotalGrows
      <3>4. QED
        BY <3>3 DEF u
    <2>5. f[b] < t * m[b] + t
      BY <1>1, <2>1, <2>2
    <2>6. g[b] <= t * m[b] + t
      <3> DEFINE z == t * m[b]
      <3>1. z \in Nat /\ f[b] \in Nat
        BY <2>2
      <3>2. f[b] < z + t
        BY <2>5
      <3> HIDE DEF z
      <3>3. g[b] <= z + t
        BY <2>3, <3>1, <3>2
      <3>4. QED
        BY <3>3 DEF z
    <2>7. \A k \in 0 .. n - 1 : g[k] <= t * m[k] + t
      BY <1>1, <2>3, <2>6
    <2>8. Total(g)[n] <= t * Total(m)[n] + t * n
      BY <2>3, <2>7, TotalBounded
    <2>9. u + 1 <= tx + tn /\ tx = tn
      BY <1>6, <2>4, <2>8 DEF x
    <2> HIDE DEF tx, tn
    <2>10. u + 1 <= tn + tn
      BY <2>9
    <2>11. QED
      BY <1>4, <2>10 DEF u
  <1>7. QED
    BY <1>2, <1>3, <1>5, <1>6

\* So has the table of HASH_SELECT, but for one.
LEMMA LateAddsUp ==
  ASSUME NEW f \in [Nat -> Nat], NEW m \in [Nat -> Nat], NEW n \in Nat \ {0}, NEW t \in Nat \ {0},
         Late(f, m, n, t)
  PROVE  Total(f)[n] <= (2 * n) * t
  <1> DEFINE x == Total(m)[n]
             u == Total(f)[n]
             tx == t * x
             tn == t * n
  <1>1. x \in Nat /\ u \in Nat
    BY TotalIs DEF Sums
  <1>2. (2 * n) * t = tn + tn /\ tn \in Nat
    OBVIOUS
  <1>3. CASE x <= n
    <2>1. \A b \in 0 .. n - 1 : f[b] <= t * m[b] + t
      BY DEF Late
    <2>2. u <= tx + tn
      BY <2>1, TotalBounded
    <2> HIDE DEF x, u
    <2>3. tx <= tn
      BY <1>1, <1>3, TimesGrows
    <2>4. tx \in Nat
      BY <1>1
    <2> HIDE DEF tx, tn
    <2>5. u <= tn + tn
      BY <1>1, <1>2, <2>2, <2>3, <2>4
    <2>6. QED
      BY <1>2, <2>5 DEF u
  <1>4. CASE ~ (x <= n)
    <2>1. x <= n + 1 /\ t <= n /\ \A b \in 0 .. n - 1 : f[b] < t * m[b] + t
      BY <1>4 DEF Late
    <2> DEFINE c == t - 1
               cn == c * n
    <2>2. \A b \in 0 .. n - 1 : f[b] <= t * m[b] + c
      <3>1. ASSUME NEW b \in 0 .. n - 1 PROVE f[b] <= t * m[b] + c
        <4> DEFINE z == t * m[b]
        <4>1. b \in Nat
          BY <3>1
        <4>2. m[b] \in Nat /\ f[b] \in Nat
          BY <4>1
        <4>3. z \in Nat
          BY <4>2
        <4>4. f[b] < z + t
          BY <2>1, <3>1
        <4> HIDE DEF z
        <4>5. f[b] <= z + c
          BY <4>2, <4>3, <4>4
        <4>6. QED
          BY <4>5 DEF z
      <3>2. QED
        BY <3>1
    <2>3. c \in Nat
      OBVIOUS
    <2> HIDE DEF c
    <2>4. u <= tx + cn
      BY <2>2, <2>3, TotalBounded
    <2> HIDE DEF x, u
    <2>5. t * x <= t * (n + 1)
      BY <1>1, <2>1, TimesGrows
    <2>6. t * (n + 1) = tn + t
      OBVIOUS
    <2>7. cn + n = tn
      <3>1. t = c + 1
        BY DEF c
      <3>2. QED
        BY <2>3, <3>1
    <2>8. tx \in Nat /\ cn \in Nat
      BY <1>1, <2>3
    <2>9. tx <= tn + t
      BY <2>5, <2>6
    <2> HIDE DEF tx, tn, cn
    <2>10. u <= tn + tn
      BY <1>1, <1>2, <2>1, <2>4, <2>7, <2>8, <2>9
    <2>11. QED
      BY <1>2, <2>10 DEF u
  <1>5. QED
    BY <1>3, <1>4

\* What was counted beyond the ideal length.
LEMMA FilledIs ==
  ASSUME NEW f \in [Nat -> Nat], NEW m \in [Nat -> Nat], NEW n \in Nat \ {0}, NEW q \in Nat \ {0},
         Filled(f, m, n, q), NEW t \in Nat, q <= t
  PROVE  /\ q * Total(m)[n] <= Total(f)[n]
         /\ \A b \in 0 .. n - 1 : f[b] <= t * m[b] + t /\ (m[b] > 0 => f[b] < t * m[b] + t)
         /\ q < t => \A b \in 0 .. n - 1 : f[b] < t * m[b] + t
  <1>1. ASSUME NEW b \in 0 .. n - 1
        PROVE  /\ q * m[b] <= f[b]
               /\ f[b] <= t * m[b] + t /\ (m[b] > 0 => f[b] < t * m[b] + t)
               /\ q < t => f[b] < t * m[b] + t
    <2> DEFINE y == m[b]
               x == f[b]
               z == t * y
               qy == q * y
    <2>1. b \in Nat
      BY <1>1
    <2>2. x \in Nat /\ y \in Nat
      BY <2>1
    <2>3. (x <= q /\ y = 0) \/ (x > q /\ y = x \div q)
      BY <1>1 DEF Filled
    <2> HIDE DEF x, y
    <2>4. CASE x <= q /\ y = 0
      <3>1. z = 0 /\ qy = 0
        BY <2>4
      <3>2. qy <= x /\ x <= z + t /\ ~ (y > 0) /\ (q < t => x < z + t)
        BY <2>2, <2>4, <3>1
      <3>3. QED
        BY <3>2 DEF x, y
    <2>5. CASE x > q /\ y = x \div q
      <3>1. qy <= x /\ x < qy + q
        <4> DEFINE r == x % q
        <4>1. x = q * (x \div q) + r /\ r \in 0 .. q - 1
          BY <2>2, Z3
        <4>2. x = qy + r
          BY <2>5, <4>1
        <4>3. qy \in Nat
          BY <2>2
        <4> HIDE DEF r, qy
        <4>4. QED
          BY <4>1, <4>2, <4>3
      <3>2. qy <= z
        <4>1. y * q <= y * t
          BY <2>2, TimesGrows
        <4>2. y * q = qy /\ y * t = z
          BY <2>2
        <4>3. QED
          BY <4>1, <4>2
      <3>3. qy \in Nat /\ z \in Nat
        BY <2>2
      <3> HIDE DEF qy, z
      <3>4. qy <= x /\ x <= z + t /\ x < z + t
        BY <2>2, <3>1, <3>2, <3>3
      <3>5. QED
        BY <3>4 DEF x, y, qy, z
    <2>6. QED
      BY <2>3, <2>4, <2>5
  <1>2. \A b \in 0 .. n - 1 : q * m[b] <= f[b]
    BY <1>1
  <1>3. q * Total(m)[n] <= Total(f)[n]
    BY <1>2, TotalScaled
  <1>4. QED
    BY <1>1, <1>3

\* An expansion makes room for as many elements again.
LEMMA FilledIsRoomy ==
  ASSUME NEW f \in [Nat -> Nat], NEW m \in [Nat -> Nat], NEW n \in Nat \ {0}, NEW t \in Nat \ {0},
         NEW items \in Nat \ {0}, items = Total(f)[n], items <= n * t,
         Filled(f, m, n, Ideal(items, n))
  PROVE  Roomy(f, m, n, t)
  <1> DEFINE q == Ideal(items, n)
             x == Total(m)[n]
  <1>1. q \in Nat \ {0} /\ items <= n * q /\ q <= t
    <2>1. items > 0
      OBVIOUS
    <2>2. q > 0 /\ q \in Nat
      BY <2>1, IdealIs
    <2>3. items <= n * q
      BY IdealIs
    <2>4. q <= t
      BY IdealIs
    <2>5. QED
      BY <2>2, <2>3, <2>4
  <1> HIDE DEF q
  <1>2. Filled(f, m, n, q)
    BY DEF q
  <1>3. /\ q * x <= items
        /\ \A b \in 0 .. n - 1 : f[b] <= t * m[b] + t /\ (m[b] > 0 => f[b] < t * m[b] + t)
    BY <1>1, <1>2, FilledIs
  <1>4. x \in Nat
    BY TotalIs DEF Sums
  <1> HIDE DEF x
  <1>5. x <= n
    <2>1. SUFFICES ASSUME n + 1 <= x PROVE FALSE
      BY <1>4
    <2>2. q * (n + 1) <= q * x
      BY <1>1, <1>4, <2>1, TimesGrows
    <2>3. q * (n + 1) = n * q + q
      BY <1>1
    <2> DEFINE nq == n * q
               qx == q * x
    <2>4. nq \in Nat /\ qx \in Nat /\ nq + q <= qx /\ qx <= items /\ items <= nq
      BY <1>1, <1>3, <1>4, <2>2, <2>3
    <2> HIDE DEF nq, qx
    <2>5. QED
      BY <1>1, <2>4
  <1>6. QED
    BY <1>3, <1>5 DEF Roomy, x

\* So does one that does not count the last element yet.
LEMMA FilledIsLate ==
  ASSUME NEW f \in [Nat -> Nat], NEW m \in [Nat -> Nat], NEW n \in Nat \ {0}, NEW t \in Nat,
         t > 1, t <= n,
         NEW items \in Nat \ {0}, items + 1 = Total(f)[n], items <= n * t,
         Filled(f, m, n, Ideal(items, n))
  PROVE  Late(f, m, n, t)
  <1> DEFINE q == Ideal(items, n)
             x == Total(m)[n]
  <1>1. q \in Nat \ {0} /\ items <= n * q /\ q <= t
    <2>1. items > 0
      OBVIOUS
    <2>2. q > 0 /\ q \in Nat
      BY <2>1, IdealIs
    <2>3. items <= n * q
      BY IdealIs
    <2>4. q <= t
      BY IdealIs
    <2>5. QED
      BY <2>2, <2>3, <2>4
  <1> HIDE DEF q
  <1>2. Filled(f, m, n, q)
    BY DEF q
  <1>3. /\ q * x <= items + 1
        /\ \A b \in 0 .. n - 1 : f[b] <= t * m[b] + t
        /\ q < t => \A b \in 0 .. n - 1 : f[b] < t * m[b] + t
    <2>1. q * x <= Total(f)[n]
      BY <1>1, <1>2, FilledIs
    <2>2. \A b \in 0 .. n - 1 : f[b] <= t * m[b] + t
      BY <1>1, <1>2, FilledIs
    <2>3. q < t => \A b \in 0 .. n - 1 : f[b] < t * m[b] + t
      BY <1>1, <1>2, FilledIs
    <2>4. q * x <= items + 1
      BY <2>1
    <2>5. QED
      BY <2>2, <2>3, <2>4
  <1>4. x \in Nat
    BY TotalIs DEF Sums
  <1> HIDE DEF x
  <1>5. CASE q = 1
    <2>1. q * x = x /\ n * q = n
      BY <1>4, <1>5
    <2>2. x <= n + 1
      BY <1>1, <1>3, <1>4, <2>1
    <2>3. \A b \in 0 .. n - 1 : f[b] < t * m[b] + t
      BY <1>3, <1>5
    <2>4. QED
      BY <1>3, <2>2, <2>3 DEF Late, x
  <1>6. CASE q # 1
    <2>1. x <= n
      <3>1. SUFFICES ASSUME n + 1 <= x PROVE FALSE
        BY <1>4
      <3>2. q * (n + 1) <= q * x
        BY <1>1, <1>4, <3>1, TimesGrows
      <3>3. q * (n + 1) = n * q + q
        BY <1>1
      <3> DEFINE nq == n * q
                 qx == q * x
      <3>4. nq \in Nat /\ qx \in Nat /\ nq + q <= qx /\ qx <= items + 1 /\ items <= nq
        BY <1>1, <1>3, <1>4, <3>2, <3>3
      <3> HIDE DEF nq, qx
      <3>5. QED
        BY <1>1, <1>6, <3>4
    <2>2. QED
      BY <1>3, <2>1 DEF Late, x
  <1>7. QED
    BY <1>5, <1>6

\* One more element in a chain that it leaves below the bound.
LEMMA RoomyGrows ==
  ASSUME NEW f, NEW m, NEW n \in Nat, NEW t, Roomy(f, m, n, t),
         NEW g, NEW b \in 0 .. n - 1, OneMore(f, g, n, b),
         g[b] < t * m[b] + t, g[b] \in Nat, t * m[b] + t \in Nat
  PROVE  Roomy(g, m, n, t)
  <1>1. \A k \in 0 .. n - 1 : f[k] <= t * m[k] + t /\ (m[k] > 0 => f[k] < t * m[k] + t)
    BY DEF Roomy
  <1>2. g[b] <= t * m[b] + t
    OBVIOUS
  <1>3. \A k \in 0 .. n - 1 : g[k] <= t * m[k] + t /\ (m[k] > 0 => g[k] < t * m[k] + t)
    BY <1>1, <1>2 DEF OneMore
  <1>4. QED
    BY <1>3 DEF Roomy

LEMMA LateGrows ==
  ASSUME NEW f, NEW m, NEW n \in Nat, NEW t, Late(f, m, n, t),
         NEW g, NEW b \in 0 .. n - 1, OneMore(f, g, n, b),
         g[b] < t * m[b] + t, g[b] \in Nat, t * m[b] + t \in Nat
  PROVE  Late(g, m, n, t)
  <1>1. \A k \in 0 .. n - 1 : f[k] <= t * m[k] + t
    BY DEF Late
  <1>2. g[b] <= t * m[b] + t
    OBVIOUS
  <1>3. \A k \in 0 .. n - 1 : g[k] <= t * m[k] + t
    BY <1>1, <1>2 DEF OneMore
  <1>4. ASSUME \A k \in 0 .. n - 1 : f[k] < t * m[k] + t
        PROVE  \A k \in 0 .. n - 1 : g[k] < t * m[k] + t
    BY <1>4 DEF OneMore
  <1>5. QED
    BY <1>3, <1>4 DEF Late

\* Fewer elements need no more room.
LEMMA RoomyFewer ==
  ASSUME NEW f \in [Nat -> Nat], NEW m \in [Nat -> Nat], NEW n \in Nat, NEW t \in Nat,
         Roomy(f, m, n, t),
         NEW g \in [Nat -> Nat], \A k \in 0 .. n - 1 : g[k] <= f[k]
  PROVE  Roomy(g, m, n, t)
  <1>1. ASSUME NEW k \in 0 .. n - 1
        PROVE  g[k] <= t * m[k] + t /\ (m[k] > 0 => g[k] < t * m[k] + t)
    <2> DEFINE cap == t * m[k] + t
    <2>1. k \in Nat
      BY <1>1
    <2>2. m[k] \in Nat /\ f[k] \in Nat /\ g[k] \in Nat /\ g[k] <= f[k]
      BY <1>1, <2>1
    <2>3. cap \in Nat
      BY <2>2
    <2>4. f[k] <= cap /\ (m[k] > 0 => f[k] < cap)
      BY <1>1 DEF Roomy
    <2> HIDE DEF cap
    <2>5. g[k] <= cap /\ (m[k] > 0 => g[k] < cap)
      BY <2>2, <2>3, <2>4
    <2>6. QED
      BY <2>5 DEF cap
  <1>2. QED
    BY <1>1 DEF Roomy

-----------------------------------------------------------------------------
(* The counts of a table.                                                  *)

CountsOf(h) ==
  [b \in Nat |-> IF b < h.tbl.num_buckets THEN h.tbl.buckets[b].count ELSE 0]
MultsOf(h) ==
  [b \in Nat |-> IF b < h.tbl.num_buckets THEN h.tbl.buckets[b].expand_mult ELSE 0]

HasNumbers(h) ==
  /\ h.tbl.num_buckets \in Nat \ {0}
  /\ \A b \in 0 .. h.tbl.num_buckets - 1 :
       h.tbl.buckets[b].count \in Nat /\ h.tbl.buckets[b].expand_mult \in Nat

\* The elements in the chains of h.
Counted(h) == Total(CountsOf(h))[h.tbl.num_buckets]

LEMMA CountsAre ==
  ASSUME NEW h, HasNumbers(h)
  PROVE  /\ CountsOf(h) \in [Nat -> Nat] /\ MultsOf(h) \in [Nat -> Nat] /\ Counted(h) \in Nat
         /\ \A b \in 0 .. h.tbl.num_buckets - 1 :
              /\ CountsOf(h)[b] = h.tbl.buckets[b].count
              /\ MultsOf(h)[b] = h.tbl.buckets[b].expand_mult
  <1> DEFINE n == h.tbl.num_buckets
  <1>1. /\ n \in Nat
        /\ \A b \in 0 .. n - 1 :
             h.tbl.buckets[b].count \in Nat /\ h.tbl.buckets[b].expand_mult \in Nat
    BY DEF HasNumbers
  <1>2. \A b \in Nat : b < n => b \in 0 .. n - 1
    BY <1>1
  <1>3. \A b \in 0 .. n - 1 : b \in Nat /\ b < n
    BY <1>1
  <1>4. CountsOf(h) \in [Nat -> Nat]
    BY <1>1, <1>2 DEF CountsOf
  <1>5. MultsOf(h) \in [Nat -> Nat]
    BY <1>1, <1>2 DEF MultsOf
  <1>6. \A b \in 0 .. n - 1 : CountsOf(h)[b] = h.tbl.buckets[b].count
    BY <1>3 DEF CountsOf
  <1>7. \A b \in 0 .. n - 1 : MultsOf(h)[b] = h.tbl.buckets[b].expand_mult
    BY <1>3 DEF MultsOf
  <1>8. Counted(h) \in Nat
    <2>1. Total(CountsOf(h)) \in [Nat -> Nat]
      BY <1>4, TotalIs DEF Sums
    <2>2. QED
      BY <1>1, <2>1 DEF Counted
  <1>9. QED
    BY <1>4, <1>5, <1>6, <1>7, <1>8

\* A change that leaves the buckets leaves their counts.
LEMMA CountsSame ==
  ASSUME NEW h, NEW g, SameChains(h, g)
  PROVE  /\ CountsOf(g) = CountsOf(h) /\ MultsOf(g) = MultsOf(h) /\ Counted(g) = Counted(h)
         /\ HasNumbers(h) => HasNumbers(g)
  <1>1. g.tbl.num_buckets = h.tbl.num_buckets /\ g.tbl.buckets = h.tbl.buckets
    BY DEF SameChains
  <1>2. CountsOf(g) = CountsOf(h) /\ MultsOf(g) = MultsOf(h)
    BY <1>1 DEF CountsOf, MultsOf
  <1>3. Counted(g) = Counted(h)
    BY <1>1, <1>2 DEF Counted
  <1>4. HasNumbers(h) => HasNumbers(g)
    BY <1>1 DEF HasNumbers
  <1>5. QED
    BY <1>2, <1>3, <1>4

\* New buckets are empty.
LEMMA CountsEmpty ==
  ASSUME NEW h, NEW n \in Nat \ {0}, h.tbl.num_buckets = n, h.tbl.buckets = EmptyBuckets(n)
  PROVE  /\ HasNumbers(h) /\ Counted(h) = 0
         /\ \A b \in 0 .. n - 1 : CountsOf(h)[b] = 0 /\ MultsOf(h)[b] = 0
  <1>1. \A b \in 0 .. n - 1 : h.tbl.buckets[b].count = 0 /\ h.tbl.buckets[b].expand_mult = 0
    BY DEF EmptyBuckets
  <1>2. HasNumbers(h)
    BY <1>1 DEF HasNumbers
  <1>3. \A b \in 0 .. n - 1 : CountsOf(h)[b] = 0 /\ MultsOf(h)[b] = 0
    BY <1>1, <1>2, CountsAre
  <1>4. CountsOf(h) \in [Nat -> Nat]
    BY <1>2, CountsAre
  <1>5. Counted(h) = 0
    BY <1>3, <1>4, TotalOfNone DEF Counted
  <1>6. QED
    BY <1>2, <1>3, <1>5

\* g is h with one more element in bucket b, whose allowance is x.
Gains(h, g, b, x) ==
  /\ g.tbl.num_buckets = h.tbl.num_buckets
  /\ g.tbl.buckets[b].count = h.tbl.buckets[b].count + 1
  /\ g.tbl.buckets[b].expand_mult = x
  /\ \A a \in 0 .. h.tbl.num_buckets - 1 : a # b => g.tbl.buckets[a] = h.tbl.buckets[a]
  /\ g.tbl.noexpand = h.tbl.noexpand /\ g.tbl.num_items = h.tbl.num_items

LEMMA GainsIs ==
  ASSUME NEW h, HasNumbers(h), NEW b \in 0 .. h.tbl.num_buckets - 1,
         NEW x \in Nat, NEW g, Gains(h, g, b, x)
  PROVE  /\ HasNumbers(g) /\ Counted(g) = Counted(h) + 1
         /\ OneMore(CountsOf(h), CountsOf(g), h.tbl.num_buckets, b)
         /\ MultsOf(g)[b] = x
         /\ \A a \in 0 .. h.tbl.num_buckets - 1 : a # b => MultsOf(g)[a] = MultsOf(h)[a]
  <1> DEFINE n == h.tbl.num_buckets
  <1>1. /\ g.tbl.num_buckets = n
        /\ g.tbl.buckets[b].count = h.tbl.buckets[b].count + 1
        /\ g.tbl.buckets[b].expand_mult = x
        /\ \A a \in 0 .. n - 1 : a # b => g.tbl.buckets[a] = h.tbl.buckets[a]
    BY DEF Gains
  <1>2. /\ n \in Nat \ {0}
        /\ \A a \in 0 .. n - 1 : h.tbl.buckets[a].count \in Nat /\ h.tbl.buckets[a].expand_mult \in Nat
    BY DEF HasNumbers
  <1> HIDE DEF n
  <1>3. b \in 0 .. n - 1
    BY DEF n
  <1>4. ASSUME NEW a \in 0 .. n - 1
        PROVE  g.tbl.buckets[a].count \in Nat /\ g.tbl.buckets[a].expand_mult \in Nat
    <2>1. CASE a = b
      <3>1. h.tbl.buckets[b].count \in Nat
        BY <1>2, <1>3
      <3>2. QED
        BY <1>1, <2>1, <3>1
    <2>2. CASE a # b
      BY <1>1, <1>2, <2>2
    <2>3. QED
      BY <2>1, <2>2
  <1>5. HasNumbers(g)
    BY <1>1, <1>2, <1>4 DEF HasNumbers
  <1>6. \A a \in 0 .. n - 1 : /\ CountsOf(h)[a] = h.tbl.buckets[a].count
                              /\ MultsOf(h)[a] = h.tbl.buckets[a].expand_mult
    BY CountsAre DEF n
  <1>7. \A a \in 0 .. n - 1 : /\ CountsOf(g)[a] = g.tbl.buckets[a].count
                              /\ MultsOf(g)[a] = g.tbl.buckets[a].expand_mult
    BY <1>1, <1>5, CountsAre
  <1>8. OneMore(CountsOf(h), CountsOf(g), n, b)
    <2>1. CountsOf(g)[b] = CountsOf(h)[b] + 1
      BY <1>1, <1>3, <1>6, <1>7
    <2>2. \A a \in 0 .. n - 1 : a # b => CountsOf(g)[a] = CountsOf(h)[a]
      BY <1>1, <1>6, <1>7
    <2>3. QED
      BY <2>1, <2>2 DEF OneMore
  <1>9. CountsOf(h) \in [Nat -> Nat] /\ CountsOf(g) \in [Nat -> Nat]
    BY <1>5, CountsAre
  <1>10. Counted(g) = Counted(h) + 1
    <2>1. Total(CountsOf(g))[n] = Total(CountsOf(h))[n] + 1
      BY <1>2, <1>3, <1>8, <1>9, TotalGrows
    <2>2. QED
      BY <1>1, <2>1 DEF Counted, n
  <1>11. MultsOf(g)[b] = x
    BY <1>1, <1>3, <1>7
  <1>12. \A a \in 0 .. n - 1 : a # b => MultsOf(g)[a] = MultsOf(h)[a]
    BY <1>1, <1>6, <1>7
  <1>13. QED
    BY <1>5, <1>8, <1>10, <1>11, <1>12 DEF n

\* HASH_ADD_TO_BKT counts the element in its bucket.
LEMMA PushGains ==
  ASSUME NEW h, IsTable(h), AreBuckets(h), NEW b \in 0 .. h.tbl.num_buckets - 1, NEW e
  PROVE  Gains(h, Push(h, b, e), b, h.tbl.buckets[b].expand_mult)
  <1> DEFINE g == Push(h, b, e)
             old == h.tbl.buckets[b]
             new == [[old EXCEPT !.hh_head = e] EXCEPT !.count = old.count + 1]
  <1>1. /\ g.tbl.num_buckets = h.tbl.num_buckets
        /\ g.tbl.noexpand = h.tbl.noexpand /\ g.tbl.num_items = h.tbl.num_items
    BY DEF IsTable, Push
  <1>2. g.tbl.buckets = [h.tbl.buckets EXCEPT ![b] = new]
    BY DEF IsTable, AreBuckets, Push
  <1> HIDE DEF g
  <1>3. DOMAIN old = {"hh_head", "count", "expand_mult"} /\ b \in DOMAIN h.tbl.buckets
    BY DEF AreBuckets
  <1>4. new.count = old.count + 1 /\ new.expand_mult = old.expand_mult
    BY <1>3
  <1>5. DOMAIN h.tbl.buckets = 0 .. h.tbl.num_buckets - 1
    BY DEF AreBuckets
  <1> HIDE DEF new
  <1>6. /\ g.tbl.buckets[b] = new
        /\ \A a \in 0 .. h.tbl.num_buckets - 1 : a # b => g.tbl.buckets[a] = h.tbl.buckets[a]
    BY <1>2, <1>3, <1>5
  <1>7. QED
    BY <1>1, <1>4, <1>6 DEF g, Gains

\* What a bucket is allowed once it has one element more.
Allowance(h, b, q) ==
  LET count == h.tbl.buckets[b].count + 1
  IN  IF count > q THEN count \div q ELSE h.tbl.buckets[b].expand_mult

\* In an expansion, a chain beyond the ideal length gets an allowance.
LEMMA MoveGains ==
  ASSUME hashv \in [Elements -> Nat], NEW h, IsTable(h), AreBuckets(h), NEW e \in Elements,
         NEW ideal
  PROVE  LET b == To_bkt(e, h.tbl.num_buckets)
         IN  /\ b \in 0 .. h.tbl.num_buckets - 1
             /\ Gains(h, Move(h, e, h.tbl.num_buckets, ideal), b, Allowance(h, b, ideal))
  <1> DEFINE b == To_bkt(e, h.tbl.num_buckets)
             g == Push(h, b, e)
             count == h.tbl.buckets[b].count + 1
             x == count \div ideal
             f == [g EXCEPT !.tbl.buckets[b].expand_mult = x]
             old == h.tbl.buckets[b].expand_mult
  <1>1. b \in 0 .. h.tbl.num_buckets - 1
    BY ToBktIs DEF AreBuckets
  <1>2. Pushed(h, g, b, e) /\ Gains(h, g, b, old)
    <2> HIDE DEF b
    <2>1. QED
      BY <1>1, PushIs, PushGains
  <1>3. Move(h, e, h.tbl.num_buckets, ideal) = IF count > ideal THEN f ELSE g
    BY DEF Move
  <1> HIDE DEF b, g, x, old
  <1>4. /\ IsTable(g) /\ DOMAIN g.tbl.buckets = 0 .. h.tbl.num_buckets - 1
        /\ b \in DOMAIN g.tbl.buckets
        /\ DOMAIN g.tbl.buckets[b] = {"hh_head", "count", "expand_mult"}
    BY <1>1, <1>2 DEF Pushed, AreBuckets
  <1>5. /\ f.tbl.num_buckets = g.tbl.num_buckets
        /\ f.tbl.noexpand = g.tbl.noexpand /\ f.tbl.num_items = g.tbl.num_items
    BY <1>4 DEF IsTable
  <1>6. f.tbl.buckets = [g.tbl.buckets EXCEPT ![b].expand_mult = x]
    BY <1>4 DEF IsTable
  <1> HIDE DEF f
  <1>7. /\ f.tbl.buckets[b] = [g.tbl.buckets[b] EXCEPT !.expand_mult = x]
        /\ \A c \in 0 .. h.tbl.num_buckets - 1 : c # b => f.tbl.buckets[c] = g.tbl.buckets[c]
    BY <1>4, <1>6
  <1>8. f.tbl.buckets[b].expand_mult = x /\ f.tbl.buckets[b].count = g.tbl.buckets[b].count
    BY <1>4, <1>7
  <1>9. Gains(h, f, b, x)
    BY <1>2, <1>5, <1>7, <1>8 DEF Gains
  <1>10. CASE count > ideal
    <2>1. Allowance(h, b, ideal) = x
      BY <1>10 DEF Allowance, x
    <2>2. QED
      BY <1>1, <1>3, <1>9, <1>10, <2>1 DEF b
  <1>11. CASE ~ (count > ideal)
    <2>1. Allowance(h, b, ideal) = old
      BY <1>11 DEF Allowance, old
    <2>2. QED
      BY <1>1, <1>2, <1>3, <1>11, <2>1 DEF b
  <1>12. QED
    BY <1>10, <1>11

\* The order of the buckets is as long as their counts say.
LEMMA OrderLength ==
  ASSUME NEW h, NEW c, NEW m, Holds(h, c, m), HasNumbers(h)
  PROVE  Len(InBucketOrder(h)) = Counted(h)
  <1> DEFINE n == h.tbl.num_buckets
             f == CountsOf(h)
             s == Total(f)
  <1>1. PICK upto : /\ InBucketOrder(h) = upto[n] /\ upto[0] = <<>>
                    /\ \A b \in 1 .. n : upto[b] = upto[b - 1] \o Chain(h, b - 1)
    BY OrderSteps
  <1>2. n \in Nat \ {0} /\ f \in [Nat -> Nat]
    BY CountsAre DEF HasNumbers
  <1>3. Sums(f, s)
    BY <1>2, TotalIs
  <1>4. \A b \in 0 .. n - 1 : /\ Chain(h, b) \in Seq(Elements)
                              /\ f[b] = Len(Chain(h, b))
    <2>1. ASSUME NEW b \in 0 .. n - 1
          PROVE  Chain(h, b) \in Seq(Elements) /\ f[b] = Len(Chain(h, b))
      <3>1. Chain(h, b) = c[b] /\ c[b] \in Seq(Elements)
        BY <2>1, ChainIs
      <3>2. h.tbl.buckets[b].count = Len(c[b])
        BY <2>1 DEF Holds
      <3>3. f[b] = h.tbl.buckets[b].count
        BY <2>1, CountsAre
      <3>4. QED
        BY <3>1, <3>2, <3>3
    <2>2. QED
      BY <2>1
  <1> HIDE DEF n, f, s
  <1>5. s \in [Nat -> Nat] /\ s[0] = 0 /\ \A k \in Nat : s[k + 1] = s[k] + f[k]
    BY <1>3 DEF Sums
  <1> DEFINE T == {b \in 0 .. n : upto[b] \in Seq(Elements) /\ Len(upto[b]) = s[b]}
  <1>6. 0 \in T
    <2>1. <<>> \in Seq(Elements) /\ Len(<<>>) = 0
      OBVIOUS
    <2>2. 0 \in 0 .. n
      BY <1>2
    <2>3. QED
      BY <1>1, <1>5, <2>1, <2>2
  <1>7. ASSUME NEW b \in 0 .. n - 1, b \in T PROVE b + 1 \in T
    <2> DEFINE u == upto[b]
               v == Chain(h, b)
    <2>1. b + 1 \in 1 .. n /\ (b + 1) - 1 = b /\ b + 1 \in 0 .. n /\ b \in Nat
      BY <1>2, <1>7
    <2>2. upto[b + 1] = u \o v
      BY <1>1, <2>1
    <2>3. u \in Seq(Elements) /\ Len(u) = s[b]
      BY <1>7
    <2>4. v \in Seq(Elements) /\ f[b] = Len(v)
      BY <1>4, <1>7
    <2> HIDE DEF u, v
    <2>5. u \o v \in Seq(Elements) /\ Len(u \o v) = Len(u) + Len(v)
      BY <2>3, <2>4, ConcatIs
    <2>6. s[b + 1] = s[b] + f[b]
      BY <1>5, <2>1
    <2>7. upto[b + 1] \in Seq(Elements) /\ Len(upto[b + 1]) = s[b + 1]
      BY <2>2, <2>3, <2>4, <2>5, <2>6
    <2>8. QED
      BY <2>1, <2>7
  <1> HIDE DEF T
  <1>8. 0 .. n \subseteq T
    BY <1>2, <1>6, <1>7, AllUpto
  <1>9. Len(upto[n]) = s[n]
    <2>1. n \in T
      BY <1>2, <1>8
    <2>2. QED
      BY <2>1 DEF T
  <1>10. QED
    BY <1>1, <1>9 DEF n, f, s, Counted

\* The chains of h are within the ideal length q, or allowed to be longer.
IsFilled(h, q) ==
  HasNumbers(h) /\ Filled(CountsOf(h), MultsOf(h), h.tbl.num_buckets, q)

\* A moved element keeps it that way.
LEMMA MoveFills ==
  ASSUME NEW h, NEW q \in Nat \ {0}, IsFilled(h, q), NEW b \in 0 .. h.tbl.num_buckets - 1,
         NEW g, Gains(h, g, b, Allowance(h, b, q))
  PROVE  IsFilled(g, q) /\ Counted(g) = Counted(h) + 1
  <1> DEFINE n == h.tbl.num_buckets
             count == CountsOf(h)[b] + 1
             old == MultsOf(h)[b]
             x == Allowance(h, b, q)
  <1>1. HasNumbers(h) /\ Filled(CountsOf(h), MultsOf(h), n, q)
    BY DEF IsFilled
  <1>2. /\ CountsOf(h)[b] = h.tbl.buckets[b].count /\ old = h.tbl.buckets[b].expand_mult
    BY <1>1, CountsAre
  <1>3. n \in Nat \ {0} /\ b \in Nat /\ CountsOf(h)[b] \in Nat /\ count \in Nat /\ old \in Nat
    <2>1. CountsOf(h) \in [Nat -> Nat] /\ MultsOf(h) \in [Nat -> Nat]
      BY <1>1, CountsAre
    <2>2. n \in Nat \ {0} /\ b \in Nat
      BY <1>1 DEF HasNumbers
    <2>3. CountsOf(h)[b] \in Nat /\ old \in Nat
      BY <2>1, <2>2
    <2>4. QED
      BY <2>2, <2>3
  <1>4. x = IF count > q THEN count \div q ELSE old
    BY <1>2 DEF Allowance
  <1> HIDE DEF x
  <1>5. x \in Nat
    <2> DEFINE y == count \div q
    <2>1. y \in Nat
      <3> HIDE DEF count
      <3>1. count \in Nat /\ q \in Nat \ {0}
        BY <1>3
      <3>2. QED
        BY <3>1, Z3
    <2>2. x = y \/ x = old
      BY <1>4
    <2> HIDE DEF y, old
    <2>3. QED
      BY <1>3, <2>1, <2>2
  <1>6. /\ HasNumbers(g) /\ Counted(g) = Counted(h) + 1
        /\ OneMore(CountsOf(h), CountsOf(g), n, b)
        /\ MultsOf(g)[b] = x
        /\ \A a \in 0 .. n - 1 : a # b => MultsOf(g)[a] = MultsOf(h)[a]
    <2>1. b \in 0 .. h.tbl.num_buckets - 1 /\ HasNumbers(h) /\ Gains(h, g, b, x)
      BY <1>1 DEF x
    <2>2. /\ HasNumbers(g) /\ Counted(g) = Counted(h) + 1
          /\ OneMore(CountsOf(h), CountsOf(g), h.tbl.num_buckets, b)
          /\ MultsOf(g)[b] = x
          /\ \A a \in 0 .. h.tbl.num_buckets - 1 : a # b => MultsOf(g)[a] = MultsOf(h)[a]
      <3> HIDE DEF n
      <3>1. QED
        BY <1>5, <2>1, GainsIs
    <2>3. QED
      BY <2>2
  <1>7. ASSUME NEW a \in 0 .. n - 1
        PROVE  \/ CountsOf(g)[a] <= q /\ MultsOf(g)[a] = 0
               \/ CountsOf(g)[a] > q /\ MultsOf(g)[a] = CountsOf(g)[a] \div q
    <2>1. CASE a # b
      <3>1. CountsOf(g)[a] = CountsOf(h)[a] /\ MultsOf(g)[a] = MultsOf(h)[a]
        BY <1>6, <2>1 DEF OneMore
      <3>2. \/ CountsOf(h)[a] <= q /\ MultsOf(h)[a] = 0
            \/ CountsOf(h)[a] > q /\ MultsOf(h)[a] = CountsOf(h)[a] \div q
        BY <1>1 DEF Filled
      <3>3. QED
        BY <3>1, <3>2
    <2>2. CASE a = b
      <3>1. CountsOf(g)[b] = count
        BY <1>6 DEF OneMore
      <3>2. CASE count > q
        <4>1. MultsOf(g)[b] = count \div q
          BY <1>4, <1>6, <3>2
        <4>2. QED
          BY <2>2, <3>1, <3>2, <4>1
      <3>3. CASE ~ (count > q)
        <4>1. MultsOf(g)[b] = old
          BY <1>4, <1>6, <3>3
        <4>2. CountsOf(h)[b] <= q /\ ~ (CountsOf(h)[b] > q)
          BY <1>3, <3>3
        <4>3. old = 0
          BY <1>1, <4>2 DEF Filled
        <4>4. count <= q
          BY <1>3, <3>3
        <4>5. QED
          BY <2>2, <3>1, <4>1, <4>3, <4>4
      <3>4. QED
        BY <3>2, <3>3
    <2>3. QED
      BY <2>1, <2>2
  <1>8. Filled(CountsOf(g), MultsOf(g), n, q)
    BY <1>7 DEF Filled
  <1>9. g.tbl.num_buckets = n
    BY DEF Gains
  <1>10. QED
    BY <1>6, <1>8, <1>9 DEF IsFilled

\* An expansion with the ideal length q fills the new buckets with every element.
LEMMA MovedFills ==
  ASSUME hashv \in [Elements -> Nat], NEW h, NEW c, NEW m, Holds(h, c, m),
         NEW n \in Nat \ {0}, NEW q \in Nat \ {0}
  PROVE  LET g == Moved(h, n, q)[Len(InBucketOrder(h))]
         IN  /\ IsFilled(g, q) /\ Counted(g) = Len(InBucketOrder(h))
             /\ g.tbl.num_buckets = n /\ g.tbl.noexpand = h.tbl.noexpand
  <1> DEFINE all == InBucketOrder(h)
             l == Len(all)
             start == [h EXCEPT !.tbl.num_buckets = n, !.tbl.buckets = EmptyBuckets(n)]
             after == Moved(h, n, q)
  <1>1. all \in Seq(Elements) /\ l \in Nat
    BY InBucketOrderIs
  <1>2. IsTable(h)
    BY DEF Holds
  <1>3. MoveSteps(h, n, q, after)
    <2> HIDE DEF after
    <2>1. MoveSteps(h, n, q, Moved(h, n, q))
      BY <1>1, MovedSteps
    <2>2. QED
      BY <2>1 DEF after
  <1> HIDE DEF after
  <1>4. after[0] = start /\ \A j \in 1 .. l : after[j] = Move(after[j - 1], all[j], n, q)
    BY <1>3 DEF MoveSteps
  <1>5. /\ IsTable(start) /\ start.tbl.num_buckets = n
        /\ start.tbl.buckets = EmptyBuckets(n) /\ start.tbl.noexpand = h.tbl.noexpand
    BY <1>2 DEF IsTable
  <1> HIDE DEF start
  <1>6. AreBuckets(start)
    BY <1>5 DEF AreBuckets, EmptyBuckets
  <1>7. IsFilled(start, q) /\ Counted(start) = 0
    <2>1. /\ HasNumbers(start) /\ Counted(start) = 0
          /\ \A b \in 0 .. n - 1 : CountsOf(start)[b] = 0 /\ MultsOf(start)[b] = 0
      BY <1>5, CountsEmpty
    <2>2. 0 <= q
      OBVIOUS
    <2>3. Filled(CountsOf(start), MultsOf(start), n, q)
      BY <2>1, <2>2 DEF Filled
    <2>4. QED
      BY <1>5, <2>1, <2>3 DEF IsFilled
  <1> HIDE DEF l
  <1> DEFINE Good(k) == /\ IsTable(after[k]) /\ AreBuckets(after[k])
                        /\ after[k].tbl.num_buckets = n /\ after[k].tbl.noexpand = h.tbl.noexpand
                        /\ IsFilled(after[k], q) /\ Counted(after[k]) = k
             T == {k \in 0 .. l : Good(k)}
  <1>8. 0 \in T
    <2>1. Good(0)
      BY <1>4, <1>5, <1>6, <1>7
    <2>2. 0 \in 0 .. l
      BY <1>1 DEF l
    <2> HIDE DEF Good
    <2>3. QED
      BY <2>1, <2>2
  <1>9. ASSUME NEW k \in 0 .. l - 1, k \in T PROVE k + 1 \in T
    <2> DEFINE g == after[k]
               e == all[k + 1]
               b == To_bkt(e, n)
               x == Allowance(g, b, q)
               f == Move(g, e, n, q)
    <2>1. k \in Nat /\ k + 1 \in 0 .. l /\ k + 1 \in 1 .. l /\ (k + 1) - 1 = k
      BY <1>1, <1>9 DEF l
    <2>2. /\ IsTable(g) /\ AreBuckets(g) /\ g.tbl.num_buckets = n
          /\ g.tbl.noexpand = h.tbl.noexpand /\ IsFilled(g, q) /\ Counted(g) = k
      BY <1>9
    <2>3. after[k + 1] = f
      BY <1>4, <2>1
    <2>4. e \in Elements
      BY <1>1, <2>1 DEF l
    <2> HIDE DEF e, g
    <2>5. /\ b \in 0 .. g.tbl.num_buckets - 1
          /\ Gains(g, Move(g, e, g.tbl.num_buckets, q), b, x)
      BY <2>2, <2>4, MoveGains
    <2>6. Pushed(g, Move(g, e, g.tbl.num_buckets, q), To_bkt(e, g.tbl.num_buckets), e)
      BY <2>2, <2>4, MoveIs
    <2>7. Gains(g, f, b, x) /\ Pushed(g, f, b, e)
      BY <2>2, <2>5, <2>6
    <2> HIDE DEF f, b
    <2>8. Gains(g, f, b, Allowance(g, b, q))
      BY <2>7
    <2> HIDE DEF x
    <2>9. IsFilled(f, q) /\ Counted(f) = Counted(g) + 1
      BY <2>2, <2>5, <2>8, MoveFills
    <2>10. f.tbl.num_buckets = n /\ f.tbl.noexpand = h.tbl.noexpand
      BY <2>2, <2>7 DEF Gains
    <2>11. IsTable(f) /\ AreBuckets(f)
      <3>1. IsTable(f)
        BY <2>7 DEF Pushed
      <3>2. DOMAIN f.tbl.buckets = 0 .. n - 1
        BY <2>2, <2>7 DEF Pushed, AreBuckets
      <3>3. \A a \in 0 .. n - 1 : DOMAIN f.tbl.buckets[a] = {"hh_head", "count", "expand_mult"}
        <4>1. \A a \in 0 .. n - 1 : DOMAIN g.tbl.buckets[a] = {"hh_head", "count", "expand_mult"}
          BY <2>2 DEF AreBuckets
        <4>2. \A a \in 0 .. n - 1 : a # b => f.tbl.buckets[a] = g.tbl.buckets[a]
          BY <2>2, <2>7 DEF Gains
        <4>3. DOMAIN f.tbl.buckets[b] = {"hh_head", "count", "expand_mult"}
          BY <2>7 DEF Pushed
        <4>4. QED
          BY <4>1, <4>2, <4>3
      <3>4. QED
        BY <2>10, <3>1, <3>2, <3>3 DEF AreBuckets
    <2>12. Good(k + 1)
      BY <2>2, <2>3, <2>9, <2>10, <2>11
    <2> HIDE DEF Good
    <2>13. QED
      BY <2>1, <2>12
  <1>10. 0 .. l \subseteq T
    <2> HIDE DEF T
    <2>1. l \in Nat
      BY <1>1 DEF l
    <2>2. QED
      BY <1>8, <1>9, <2>1, AllUpto
  <1>11. Good(l)
    <2> HIDE DEF Good
    <2>1. l \in 0 .. l
      BY <1>1 DEF l
    <2>2. QED
      BY <1>10, <2>1
  <1>12. QED
    BY <1>11 DEF after, l

\* g is h with twice as many buckets, filled with the ideal length.
Doubles(h, g) ==
  LET n == 2 * h.tbl.num_buckets
  IN  /\ IsFilled(g, Ideal(h.tbl.num_items, n)) /\ g.tbl.num_buckets = n
      /\ Counted(g) = Counted(h)
      /\ ~ g.tbl.noexpand => ~ h.tbl.noexpand

\* Doubling the buckets: every element is counted again, and no chain is
\* longer than its allowance of the ideal length.
LEMMA ExpandFills ==
  ASSUME hashv \in [Elements -> Nat], NEW h, NEW c, NEW m, Holds(h, c, m), HasNumbers(h),
         h.tbl.num_items \in Nat \ {0}
  PROVE  Doubles(h, Expand_buckets(h))
  <1> DEFINE n == 2 * h.tbl.num_buckets
             items == h.tbl.num_items
             ideal == Ideal(items, n)
             moved == Moved(h, n, ideal)[Len(InBucketOrder(h))]
             ineff == IF Nonideal_items(moved, ideal) > items \div 2
                      THEN h.tbl.ineff_expands + 1 ELSE 0
             first == [moved EXCEPT !.tbl.ineff_expands = ineff]
             stop == moved.tbl.noexpand \/ ineff > 1
             g == Expand_buckets(h)
  <1>1. g = [first EXCEPT !.tbl.noexpand = stop]
    BY DEF Expand_buckets, Ideal
  <1>2. /\ IsTable(h) /\ h.hh_next \in HandlePointers /\ h.hh_prev \in HandlePointers
        /\ n \in Nat \ {0}
    BY DEF Holds, AreBuckets
  <1>3. ideal \in Nat \ {0}
    <2>1. items \in Nat /\ items > 0
      OBVIOUS
    <2> HIDE DEF n, items
    <2>2. QED
      BY <1>2, <2>1, IdealIs
  <1> HIDE DEF n, items, ideal
  <1>4. IsTable(moved)
    <2>1. /\ InBucketOrder(h) \in Seq(Elements) /\ Distinct(InBucketOrder(h))
          /\ \A x : In(x, InBucketOrder(h)) <=> x \in m
      BY InBucketOrderIs
    <2>2. \E d : Holds(moved, d, m)
      BY <1>2, <2>1, MovedIs
    <2> HIDE DEF moved
    <2>3. QED
      BY <2>2 DEF Holds
  <1>5. /\ IsFilled(moved, ideal) /\ Counted(moved) = Len(InBucketOrder(h))
        /\ moved.tbl.num_buckets = n /\ moved.tbl.noexpand = h.tbl.noexpand
    BY <1>2, <1>3, MovedFills
  <1>6. Counted(moved) = Counted(h)
    BY <1>5, OrderLength
  <1> HIDE DEF moved, ineff, g
  <1>7. SameChains(moved, g) /\ g.tbl.num_buckets = n
    <2>1. IsTable(first) /\ SameChains(moved, first)
      BY <1>4 DEF IsTable, SameChains
    <2> HIDE DEF first, stop
    <2>2. SameChains(moved, g)
      BY <1>1, <2>1 DEF IsTable, SameChains
    <2>3. QED
      BY <1>5, <2>2 DEF SameChains
  <1>8. ~ g.tbl.noexpand => ~ h.tbl.noexpand
    <2>1. IsTable(first)
      BY <1>4 DEF IsTable
    <2> HIDE DEF first, stop
    <2>2. g.tbl.noexpand = stop
      BY <1>1, <2>1 DEF IsTable
    <2>3. QED
      BY <1>5, <2>2 DEF stop
  <1>9. CountsOf(g) = CountsOf(moved) /\ MultsOf(g) = MultsOf(moved) /\ Counted(g) = Counted(moved)
    BY <1>7, CountsSame
  <1>10. HasNumbers(g)
    BY <1>5, <1>7, CountsSame DEF IsFilled
  <1>11. IsFilled(g, ideal)
    BY <1>5, <1>7, <1>9, <1>10 DEF IsFilled
  <1>12. QED
    BY <1>6, <1>7, <1>8, <1>9, <1>11 DEF g, n, items, ideal, Doubles

-----------------------------------------------------------------------------
(* The room of a table.                                                    *)

\* Every element is counted, and the table has room while it may expand.
HasRoom(h) ==
  /\ HasNumbers(h) /\ Counted(h) = h.tbl.num_items
  /\ ~ h.tbl.noexpand => Roomy(CountsOf(h), MultsOf(h), h.tbl.num_buckets, thresh)

HasLateRoom(h) ==
  /\ HasNumbers(h) /\ h.tbl.num_buckets >= InitialBuckets
  /\ ~ h.tbl.noexpand => Late(CountsOf(h), MultsOf(h), h.tbl.num_buckets, thresh)

\* What a push does to the counts.
PushCounts(h, g, b) ==
  /\ HasNumbers(g) /\ Counted(g) = Counted(h) + 1
  /\ g.tbl.num_buckets = h.tbl.num_buckets /\ g.tbl.num_items = h.tbl.num_items
  /\ g.tbl.noexpand = h.tbl.noexpand
  /\ b \in 0 .. h.tbl.num_buckets - 1
  /\ OneMore(CountsOf(h), CountsOf(g), h.tbl.num_buckets, b)
  /\ MultsOf(g) = MultsOf(h)

LEMMA GainsCounts ==
  ASSUME NEW h, HasNumbers(h), NEW g, NEW b \in 0 .. h.tbl.num_buckets - 1,
         Gains(h, g, b, h.tbl.buckets[b].expand_mult)
  PROVE  PushCounts(h, g, b)
  <1> DEFINE x == h.tbl.buckets[b].expand_mult
             n == h.tbl.num_buckets
  <1>1. n \in Nat \ {0} /\ x \in Nat
    BY DEF HasNumbers
  <1>2. b \in 0 .. n - 1 /\ Gains(h, g, b, x)
    OBVIOUS
  <1>3. MultsOf(h)[b] = x
    BY CountsAre
  <1> HIDE DEF x
  <1>4. /\ HasNumbers(g) /\ Counted(g) = Counted(h) + 1
        /\ OneMore(CountsOf(h), CountsOf(g), n, b)
        /\ MultsOf(g)[b] = x
        /\ \A a \in 0 .. n - 1 : a # b => MultsOf(g)[a] = MultsOf(h)[a]
    BY <1>1, <1>2, GainsIs
  <1>5. /\ g.tbl.num_buckets = n /\ g.tbl.num_items = h.tbl.num_items
        /\ g.tbl.noexpand = h.tbl.noexpand
    BY <1>2 DEF Gains
  <1> HIDE DEF n
  <1>6. MultsOf(g) = MultsOf(h)
    <2>1. ASSUME NEW a \in Nat PROVE MultsOf(g)[a] = MultsOf(h)[a]
      <3>1. CASE a < n
        <4>1. a \in 0 .. n - 1
          BY <1>1, <3>1
        <4>2. QED
          BY <1>3, <1>4, <4>1
      <3>2. CASE ~ (a < n)
        <4>1. MultsOf(g)[a] = 0
          BY <1>5, <3>2 DEF MultsOf
        <4>2. MultsOf(h)[a] = 0
          BY <3>2 DEF MultsOf, n
        <4>3. QED
          BY <4>1, <4>2
      <3>3. QED
        BY <3>1, <3>2
    <2>2. MultsOf(h) \in [Nat -> Nat] /\ MultsOf(g) \in [Nat -> Nat]
      BY <1>4, CountsAre
    <2>3. QED
      BY <2>1, <2>2
  <1>7. QED
    BY <1>2, <1>4, <1>5, <1>6 DEF PushCounts, n

LEMMA PushCountsOne ==
  ASSUME hashv \in [Elements -> Nat], NEW h, NEW c, NEW m, Holds(h, c, m), HasNumbers(h),
         NEW e \in Elements
  PROVE  LET b == To_bkt(e, h.tbl.num_buckets) IN PushCounts(h, Push(h, b, e), b)
  <1> DEFINE b == To_bkt(e, h.tbl.num_buckets)
             g == Push(h, b, e)
             n == h.tbl.num_buckets
  <1>1. IsTable(h) /\ AreBuckets(h) /\ n \in Nat \ {0}
    BY DEF Holds, AreBuckets
  <1>2. b \in 0 .. n - 1
    BY <1>1, ToBktIs
  <1> HIDE DEF b
  <1>3. Gains(h, g, b, h.tbl.buckets[b].expand_mult)
    BY <1>1, <1>2, PushGains
  <1> HIDE DEF g
  <1>4. PushCounts(h, g, b)
    BY <1>2, <1>3, GainsCounts
  <1>5. QED
    BY <1>4 DEF g, b

\* The element that HASH_ADD_TO_BKT pushed leaves the chain below its bound, or
\* the table expands.
LEMMA BelowIs ==
  ASSUME thresh \in Nat \ {0}, NEW h, HasNumbers(h), NEW g, NEW b, PushCounts(h, g, b)
  PROVE  LET bucket == g.tbl.buckets[b] IN
         /\ CountsOf(g)[b] \in Nat /\ thresh * MultsOf(h)[b] + thresh \in Nat
         /\ ~ (bucket.count >= (bucket.expand_mult + 1) * thresh) =>
              CountsOf(g)[b] < thresh * MultsOf(h)[b] + thresh
         /\ bucket.count >= (bucket.expand_mult + 1) * thresh =>
              CountsOf(g)[b] >= thresh
  <1> DEFINE count == g.tbl.buckets[b].count
             mult == g.tbl.buckets[b].expand_mult
             tm == thresh * mult
  <1>1. /\ HasNumbers(g) /\ b \in 0 .. g.tbl.num_buckets - 1 /\ MultsOf(g) = MultsOf(h)
    BY DEF PushCounts
  <1>2. count \in Nat /\ mult \in Nat
    BY <1>1 DEF HasNumbers
  <1>3. CountsOf(g)[b] = count /\ MultsOf(h)[b] = mult
    BY <1>1, CountsAre
  <1> HIDE DEF count, mult
  <1>4. (mult + 1) * thresh = tm + thresh /\ tm \in Nat
    BY <1>2
  <1>5. ~ (count >= (mult + 1) * thresh) => count < tm + thresh
    <2> HIDE DEF tm
    <2>1. QED
      BY <1>2, <1>4
  <1>6. count >= (mult + 1) * thresh => count >= thresh
    <2> HIDE DEF tm
    <2>1. QED
      BY <1>2, <1>4
  <1>7. tm + thresh \in Nat
    BY <1>4
  <1>8. QED
    BY <1>2, <1>3, <1>5, <1>6, <1>7 DEF count, mult

\* HASH_ADD_TO_BKT keeps the room of a table whose elements are counted.
LEMMA AddToBktRoom ==
  ASSUME hashv \in [Elements -> Nat], thresh \in Nat \ {0},
         NEW h, NEW c, NEW m, Holds(h, c, m), NEW e \in Elements \ m,
         HasNumbers(h), h.tbl.num_items = Counted(h) + 1,
         ~ h.tbl.noexpand => Roomy(CountsOf(h), MultsOf(h), h.tbl.num_buckets, thresh)
  PROVE  HasRoom(Add_to_bkt(h, e))
  <1> DEFINE n == h.tbl.num_buckets
             b == To_bkt(e, n)
             g == Push(h, b, e)
             full == g.tbl.buckets[b].count >= (g.tbl.buckets[b].expand_mult + 1) * thresh
             r == Expand_buckets(g)
             items == g.tbl.num_items
             f1 == CountsOf(h)
             m1 == MultsOf(h)
  <1>1. PushCounts(h, g, b)
    BY PushCountsOne
  <1>2. \E d : Holds(g, d, m \cup {e})
    <2>1. IsTable(h) /\ AreBuckets(h) /\ n \in Nat \ {0}
      BY DEF Holds, AreBuckets
    <2>2. b \in 0 .. n - 1
      BY <2>1, ToBktIs
    <2>3. Pushed(h, g, b, e)
      <3> HIDE DEF b
      <3>1. QED
        BY <2>1, <2>2, PushIs
    <2> HIDE DEF g
    <2>4. QED
      BY <2>3, PushHolds
  <1>3. Add_to_bkt(h, e) = IF full /\ ~ g.tbl.noexpand THEN r ELSE g
    BY DEF Add_to_bkt
  <1> HIDE DEF g, b
  <1>4. /\ HasNumbers(g) /\ Counted(g) = Counted(h) + 1 /\ items = Counted(g)
        /\ g.tbl.num_buckets = n /\ g.tbl.noexpand = h.tbl.noexpand
        /\ b \in 0 .. n - 1 /\ OneMore(f1, CountsOf(g), n, b) /\ MultsOf(g) = m1
    BY <1>1 DEF PushCounts
  <1>5. n \in Nat \ {0} /\ f1 \in [Nat -> Nat] /\ m1 \in [Nat -> Nat] /\ Counted(h) \in Nat
    BY CountsAre DEF HasNumbers
  <1>6. /\ CountsOf(g)[b] \in Nat /\ thresh * m1[b] + thresh \in Nat
        /\ ~ full => CountsOf(g)[b] < thresh * m1[b] + thresh
    BY <1>1, BelowIs
  <1>7. Counted(h) = Total(f1)[n]
    BY DEF Counted
  <1> HIDE DEF full, n, f1, m1, r
  <1>8. ~ h.tbl.noexpand => Roomy(f1, m1, n, thresh)
    BY DEF f1, m1, n
  <1>9. CASE ~ (full /\ ~ g.tbl.noexpand)
    <2>1. ASSUME ~ g.tbl.noexpand PROVE Roomy(CountsOf(g), m1, n, thresh)
      <3>1. Roomy(f1, m1, n, thresh) /\ ~ full
        BY <1>4, <1>8, <1>9, <2>1
      <3>2. CountsOf(g)[b] < thresh * m1[b] + thresh
        BY <1>6, <3>1
      <3>3. n \in Nat
        BY <1>5
      <3>4. QED
        BY <1>4, <1>6, <3>1, <3>2, <3>3, RoomyGrows
    <2>2. HasRoom(g)
      BY <1>4, <2>1 DEF HasRoom
    <2>3. QED
      BY <1>3, <1>9, <2>2
  <1>10. CASE full /\ ~ g.tbl.noexpand
    <2>1. Roomy(f1, m1, n, thresh)
      BY <1>4, <1>8, <1>10
    <2>2. Total(f1)[n] + 1 <= (2 * n) * thresh
      BY <1>5, <2>1, RoomyAddsUp
    <2>3. items \in Nat \ {0} /\ items <= (2 * n) * thresh
      <3>1. items = Total(f1)[n] + 1 /\ Total(f1)[n] \in Nat
        BY <1>4, <1>5, <1>7
      <3>2. QED
        BY <2>2, <3>1
    <2>4. /\ IsFilled(r, Ideal(items, 2 * n)) /\ r.tbl.num_buckets = 2 * n
          /\ Counted(r) = items /\ SameOrder(g, r)
      <3>1. PICK d : Holds(g, d, m \cup {e})
        BY <1>2
      <3>2. items \in Nat \ {0}
        BY <2>3
      <3>3. Doubles(g, r)
        BY <1>4, <3>1, <3>2, ExpandFills DEF r
      <3>4. SameOrder(g, r)
        BY <3>1, ExpandIs DEF r
      <3>5. /\ IsFilled(r, Ideal(items, 2 * g.tbl.num_buckets))
            /\ r.tbl.num_buckets = 2 * g.tbl.num_buckets /\ Counted(r) = Counted(g)
        BY <3>3 DEF Doubles
      <3>6. QED
        BY <1>4, <3>4, <3>5
    <2>5. r.tbl.num_items = items
      BY <2>4 DEF SameOrder
    <2>6. HasNumbers(r) /\ Filled(CountsOf(r), MultsOf(r), 2 * n, Ideal(items, 2 * n))
      BY <2>4 DEF IsFilled
    <2>7. /\ CountsOf(r) \in [Nat -> Nat] /\ MultsOf(r) \in [Nat -> Nat]
          /\ items = Total(CountsOf(r))[2 * n]
      <3>1. CountsOf(r) \in [Nat -> Nat] /\ MultsOf(r) \in [Nat -> Nat]
        BY <2>6, CountsAre
      <3>2. items = Total(CountsOf(r))[2 * n]
        BY <2>4 DEF Counted
      <3>3. QED
        BY <3>1, <3>2
    <2> DEFINE nn == 2 * n
    <2>8. nn \in Nat \ {0}
      BY <1>5
    <2> HIDE DEF nn, items
    <2>9. Roomy(CountsOf(r), MultsOf(r), nn, thresh)
      <3>1. items \in Nat \ {0} /\ items <= nn * thresh /\ items = Total(CountsOf(r))[nn]
        BY <2>3, <2>7 DEF nn
      <3>2. Filled(CountsOf(r), MultsOf(r), nn, Ideal(items, nn))
        BY <2>6 DEF nn
      <3>3. QED
        BY <2>7, <2>8, <3>1, <3>2, FilledIsRoomy
    <2>10. HasRoom(r)
      BY <2>4, <2>5, <2>6, <2>9 DEF HasRoom, nn
    <2>11. QED
      BY <1>3, <1>10, <2>10
  <1>11. QED
    BY <1>9, <1>10

\* A sum with a term that is not zero.
LEMMA TotalOfSome ==
  ASSUME NEW f \in [Nat -> Nat], NEW n \in Nat, NEW b \in 0 .. n - 1, f[b] > 0
  PROVE  Total(f)[n] \in Nat \ {0}
  <1> DEFINE z == [f EXCEPT ![b] = f[b] - 1]
  <1>1. b \in Nat /\ f[b] \in Nat /\ f[b] - 1 \in Nat
    OBVIOUS
  <1>2. z \in [Nat -> Nat] /\ z[b] = f[b] - 1 /\ \A k \in 0 .. n - 1 : k # b => f[k] = z[k]
    BY <1>1
  <1> HIDE DEF z
  <1>3. OneMore(z, f, n, b)
    BY <1>1, <1>2 DEF OneMore
  <1>4. Total(f)[n] = Total(z)[n] + 1
    BY <1>2, <1>3, TotalGrows
  <1>5. Total(z)[n] \in Nat
    BY <1>2, TotalIs DEF Sums
  <1>6. QED
    BY <1>4, <1>5

\* HASH_ADD_TO_BKT keeps the room of a table that counts the element
\* afterwards.
LEMMA AddToBktLate ==
  ASSUME hashv \in [Elements -> Nat], thresh \in Nat, thresh > 1, thresh <= 2 * InitialBuckets,
         NEW h, NEW c, NEW m, Holds(h, c, m), NEW e \in Elements \ m,
         HasLateRoom(h), h.tbl.num_items = Counted(h)
  PROVE  HasLateRoom(Add_to_bkt(h, e)) /\ Counted(Add_to_bkt(h, e)) = Counted(h) + 1
  <1> DEFINE n == h.tbl.num_buckets
             b == To_bkt(e, n)
             g == Push(h, b, e)
             full == g.tbl.buckets[b].count >= (g.tbl.buckets[b].expand_mult + 1) * thresh
             r == Expand_buckets(g)
             items == g.tbl.num_items
             f1 == CountsOf(h)
             m1 == MultsOf(h)
  <1>1. HasNumbers(h)
    BY DEF HasLateRoom
  <1>2. PushCounts(h, g, b)
    BY <1>1, PushCountsOne
  <1>3. \E d : Holds(g, d, m \cup {e})
    <2>1. IsTable(h) /\ AreBuckets(h) /\ n \in Nat \ {0}
      BY DEF Holds, AreBuckets
    <2>2. b \in 0 .. n - 1
      BY <2>1, ToBktIs
    <2>3. Pushed(h, g, b, e)
      <3> HIDE DEF b
      <3>1. QED
        BY <2>1, <2>2, PushIs
    <2> HIDE DEF g
    <2>4. QED
      BY <2>3, PushHolds
  <1>4. Add_to_bkt(h, e) = IF full /\ ~ g.tbl.noexpand THEN r ELSE g
    BY DEF Add_to_bkt
  <1> HIDE DEF g, b
  <1>5. /\ HasNumbers(g) /\ Counted(g) = Counted(h) + 1 /\ items = Counted(h)
        /\ g.tbl.num_buckets = n /\ g.tbl.noexpand = h.tbl.noexpand
        /\ b \in 0 .. n - 1 /\ OneMore(f1, CountsOf(g), n, b) /\ MultsOf(g) = m1
    BY <1>2 DEF PushCounts
  <1>6. n \in Nat \ {0} /\ f1 \in [Nat -> Nat] /\ m1 \in [Nat -> Nat] /\ Counted(h) \in Nat
    BY <1>1, CountsAre DEF HasNumbers
  <1>7. thresh \in Nat \ {0}
    OBVIOUS
  <1>8. /\ CountsOf(g)[b] \in Nat /\ thresh * m1[b] + thresh \in Nat
        /\ ~ full => CountsOf(g)[b] < thresh * m1[b] + thresh
        /\ full => CountsOf(g)[b] >= thresh
    BY <1>1, <1>2, <1>7, BelowIs
  <1>9. Counted(h) = Total(f1)[n]
    BY DEF Counted
  <1> HIDE DEF full, n, f1, m1, r
  <1>10. n >= InitialBuckets /\ (~ h.tbl.noexpand => Late(f1, m1, n, thresh))
    BY DEF HasLateRoom, f1, m1, n
  <1>11. CASE ~ (full /\ ~ g.tbl.noexpand)
    <2>1. ASSUME ~ g.tbl.noexpand PROVE Late(CountsOf(g), m1, n, thresh)
      <3>1. Late(f1, m1, n, thresh) /\ ~ full
        BY <1>5, <1>10, <1>11, <2>1
      <3>2. CountsOf(g)[b] < thresh * m1[b] + thresh
        BY <1>8, <3>1
      <3>3. n \in Nat
        BY <1>6
      <3>4. QED
        BY <1>5, <1>8, <3>1, <3>2, <3>3, LateGrows
    <2>2. HasLateRoom(g)
      BY <1>5, <1>10, <2>1 DEF HasLateRoom
    <2>3. QED
      BY <1>4, <1>5, <1>11, <2>2
  <1>12. CASE full /\ ~ g.tbl.noexpand
    <2>1. Late(f1, m1, n, thresh)
      BY <1>5, <1>10, <1>12
    <2>2. Total(f1)[n] <= (2 * n) * thresh
      BY <1>6, <1>7, <2>1, LateAddsUp
    <2>3. f1[b] > 0
      <3>1. b \in Nat
        BY <1>5, <1>6
      <3>2. f1[b] \in Nat /\ CountsOf(g)[b] = f1[b] + 1
        BY <1>5, <1>6, <3>1 DEF OneMore
      <3>3. CountsOf(g)[b] >= thresh
        BY <1>8, <1>12
      <3>4. QED
        BY <3>2, <3>3
    <2>4. items \in Nat \ {0} /\ items <= (2 * n) * thresh
      <3>1. Total(f1)[n] \in Nat \ {0}
        BY <1>5, <1>6, <2>3, TotalOfSome
      <3>2. QED
        BY <1>5, <1>9, <2>2, <3>1
    <2>5. /\ IsFilled(r, Ideal(items, 2 * n)) /\ r.tbl.num_buckets = 2 * n
          /\ Counted(r) = items + 1
      <3>1. PICK d : Holds(g, d, m \cup {e})
        BY <1>3
      <3>2. items \in Nat \ {0}
        BY <2>4
      <3>3. Doubles(g, r)
        BY <1>5, <3>1, <3>2, ExpandFills DEF r
      <3>4. /\ IsFilled(r, Ideal(items, 2 * g.tbl.num_buckets))
            /\ r.tbl.num_buckets = 2 * g.tbl.num_buckets /\ Counted(r) = Counted(g)
        BY <3>3 DEF Doubles
      <3>5. QED
        BY <1>5, <3>4
    <2>6. HasNumbers(r) /\ Filled(CountsOf(r), MultsOf(r), 2 * n, Ideal(items, 2 * n))
      BY <2>5 DEF IsFilled
    <2>7. /\ CountsOf(r) \in [Nat -> Nat] /\ MultsOf(r) \in [Nat -> Nat]
          /\ items + 1 = Total(CountsOf(r))[2 * n]
      <3>1. CountsOf(r) \in [Nat -> Nat] /\ MultsOf(r) \in [Nat -> Nat]
        BY <2>6, CountsAre
      <3>2. items + 1 = Total(CountsOf(r))[2 * n]
        BY <2>5 DEF Counted
      <3>3. QED
        BY <3>1, <3>2
    <2> DEFINE nn == 2 * n
    <2>8. nn \in Nat \ {0} /\ thresh <= nn /\ nn >= InitialBuckets
      BY <1>6, <1>10
    <2> HIDE DEF nn, items
    <2>9. Late(CountsOf(r), MultsOf(r), nn, thresh)
      <3>1. items \in Nat \ {0} /\ items <= nn * thresh /\ items + 1 = Total(CountsOf(r))[nn]
        BY <2>4, <2>7 DEF nn
      <3>2. Filled(CountsOf(r), MultsOf(r), nn, Ideal(items, nn))
        BY <2>6 DEF nn
      <3>3. QED
        BY <2>7, <2>8, <3>1, <3>2, FilledIsLate
    <2>10. HasLateRoom(r)
      BY <2>5, <2>6, <2>8, <2>9 DEF HasLateRoom, nn
    <2>11. QED
      BY <1>4, <1>5, <1>12, <2>5, <2>10
  <1>13. QED
    BY <1>11, <1>12

\* g has the buckets of h and may expand if h may.
SameBuckets(h, g) == SameChains(h, g) /\ g.tbl.noexpand = h.tbl.noexpand

\* A table with new buckets only.
NewBuckets(g) ==
  /\ g.tbl.num_buckets = InitialBuckets /\ g.tbl.buckets = EmptyBuckets(InitialBuckets)
  /\ g.tbl.noexpand = FALSE

LEMMA MakeCounts ==
  ASSUME NEW e
  PROVE  LET t == Make_table(Empty, e) IN NewBuckets(t) /\ t.tbl.num_items = 0 /\ IsTable(t)
  <1> DEFINE t == Make_table(Empty, e)
  <1>1. Empty.tbl = [num_buckets |-> 0, buckets |-> <<>>, num_items |-> 0, tail |-> NULL,
                     ineff_expands |-> 0, noexpand |-> FALSE]
    BY DEF Empty
  <1>2. IsTable(t) /\ t.tbl.num_items = 0
    BY <1>1, EmptyIs DEF Make_table, IsTable
  <1> DEFINE y == Empty.tbl
  <1>3. t.tbl = [y EXCEPT !.num_buckets = InitialBuckets,
                          !.buckets = EmptyBuckets(InitialBuckets), !.tail = e]
    BY EmptyIs DEF Make_table
  <1>6. y = [num_buckets |-> 0, buckets |-> <<>>, num_items |-> 0, tail |-> NULL,
             ineff_expands |-> 0, noexpand |-> FALSE]
    BY <1>1
  <1> HIDE DEF y, t
  <1>7. /\ t.tbl.num_buckets = InitialBuckets /\ t.tbl.buckets = EmptyBuckets(InitialBuckets)
        /\ t.tbl.noexpand = FALSE
    BY <1>3, <1>6
  <1>5. QED
    BY <1>2, <1>7 DEF NewBuckets, t

\* New buckets have room.
LEMMA NewHasRoom ==
  ASSUME NEW g, NewBuckets(g), thresh \in Nat
  PROVE  /\ HasNumbers(g) /\ Counted(g) = 0
         /\ Roomy(CountsOf(g), MultsOf(g), g.tbl.num_buckets, thresh)
         /\ HasLateRoom(g)
  <1> DEFINE n == InitialBuckets
             f == CountsOf(g)
             m == MultsOf(g)
  <1>1. n \in Nat \ {0} /\ g.tbl.num_buckets = n /\ g.tbl.buckets = EmptyBuckets(n)
    BY DEF NewBuckets
  <1> HIDE DEF n
  <1>2. HasNumbers(g) /\ Counted(g) = 0 /\ \A b \in 0 .. n - 1 : f[b] = 0 /\ m[b] = 0
    BY <1>1, CountsEmpty
  <1>3. f \in [Nat -> Nat] /\ m \in [Nat -> Nat]
    BY <1>2, CountsAre
  <1>4. Total(m)[n] = 0
    BY <1>1, <1>2, <1>3, TotalOfNone
  <1> HIDE DEF f, m
  <1>5. 0 <= thresh * 0 + thresh /\ ~ (0 > 0) /\ 0 <= n
    BY <1>1
  <1>6. Roomy(f, m, n, thresh)
    BY <1>2, <1>4, <1>5 DEF Roomy
  <1>7. Late(f, m, n, thresh)
    BY <1>2, <1>4, <1>5 DEF Late
  <1>8. HasLateRoom(g)
    <2>1. n >= InitialBuckets
      BY <1>1 DEF n
    <2>2. QED
      BY <1>1, <1>2, <1>7, <2>1 DEF HasLateRoom, f, m
  <1>9. QED
    BY <1>1, <1>2, <1>6, <1>8 DEF f, m

\* What HASH_ADD does before the element is put in its bucket.
LEMMA JoinedCounts ==
  ASSUME NEW h, NEW e
  PROVE  LET g == Joined(h, e) IN
         /\ h = Empty => NewBuckets(g) /\ g.tbl.num_items = 0 + 1
         /\ IsTable(h) /\ h.head # NULL =>
              SameBuckets(h, g) /\ g.tbl.num_items = h.tbl.num_items + 1
  <1> DEFINE g == Joined(h, e)
  <1>1. ASSUME h = Empty PROVE NewBuckets(g) /\ g.tbl.num_items = 0 + 1
    <2> DEFINE t == Make_table(Empty, e)
    <2>1. NewBuckets(t) /\ t.tbl.num_items = 0 /\ IsTable(t)
      BY MakeCounts
    <2>2. g = [t EXCEPT !.tbl.num_items = t.tbl.num_items + 1]
      BY <1>1, EmptyIs DEF Joined
    <2> HIDE DEF t, g
    <2>3. g.tbl.num_items = 0 + 1
      BY <2>1, <2>2 DEF IsTable
    <2>4. NewBuckets(g)
      BY <2>1, <2>2 DEF IsTable, NewBuckets
    <2>5. QED
      BY <2>3, <2>4
  <1>2. ASSUME IsTable(h), h.head # NULL
        PROVE  SameBuckets(h, g) /\ g.tbl.num_items = h.tbl.num_items + 1
    <2> DEFINE k == [h EXCEPT !.next[h.tbl.tail] = e, !.prev[e] = h.tbl.tail, !.tbl.tail = e]
    <2>1. g = [k EXCEPT !.tbl.num_items = k.tbl.num_items + 1]
      BY <1>2 DEF Joined
    <2>2. IsTable(k) /\ SameBuckets(h, k) /\ k.tbl.num_items = h.tbl.num_items
      BY <1>2 DEF IsTable, SameBuckets, SameChains
    <2> HIDE DEF k, g
    <2>3. g.tbl.num_items = h.tbl.num_items + 1
      BY <2>1, <2>2 DEF IsTable
    <2>4. SameBuckets(h, g)
      BY <2>1, <2>2 DEF IsTable, SameBuckets, SameChains
    <2>5. QED
      BY <2>3, <2>4
  <1>3. QED
    BY <1>1, <1>2

\* What HASH_SELECT does before the element is put in its bucket.
LEMMA FollowedCounts ==
  ASSUME NEW h, NEW last, NEW e
  PROVE  LET g == Followed(h, last, e) IN
         /\ h = Empty /\ last = NULL => NewBuckets(g) /\ g.tbl.num_items = 0
         /\ IsTable(h) /\ last # NULL =>
              SameBuckets(h, g) /\ g.tbl.num_items = h.tbl.num_items
  <1> DEFINE g == Followed(h, last, e)
  <1>1. ASSUME h = Empty, last = NULL PROVE NewBuckets(g) /\ g.tbl.num_items = 0
    <2> DEFINE t == Make_table(Empty, e)
    <2>1. NewBuckets(t) /\ t.tbl.num_items = 0
      BY MakeCounts
    <2>2. g = t
      BY <1>1 DEF Followed
    <2> HIDE DEF t, g
    <2>3. QED
      BY <2>1, <2>2
  <1>2. ASSUME IsTable(h), last # NULL
        PROVE  SameBuckets(h, g) /\ g.tbl.num_items = h.tbl.num_items
    <2>1. g = [h EXCEPT !.prev[e] = last, !.next[last] = e]
      BY <1>2 DEF Followed
    <2> HIDE DEF g
    <2>2. SameBuckets(h, g) /\ g.tbl.num_items = h.tbl.num_items
      BY <1>2, <2>1 DEF IsTable, SameBuckets, SameChains
    <2>3. QED
      BY <2>2
  <1>3. QED
    BY <1>1, <1>2

\* HASH_ADD keeps the room of the table.
LEMMA AddRoom ==
  ASSUME hashv \in [Elements -> Nat], thresh \in Nat \ {0},
         NEW h, NEW l, Keeps(h, l), TailIs(h, l), l # <<>> => HasRoom(h),
         NEW e \in Elements, ~ In(e, l)
  PROVE  HasRoom(Hash_add(h, e))
  <1> DEFINE g == Joined(h, e)
             m == ToSet(l)
  <1>1. Hash_add(h, e) = Add_to_bkt(g, e)
    BY DEF Hash_add, Joined
  <1>2. PICK c : Holds(g, c, m)
    BY JoinedIs
  <1>3. l \in Seq(Elements) /\ (h.head = NULL <=> l = <<>>) /\ (l # <<>> => IsFull(h, l))
    BY KeepsIs
  <1>4. e \in Elements \ m
    BY <1>3, ToSetIn
  <1> HIDE DEF g, m
  <1>5. /\ HasNumbers(g) /\ g.tbl.num_items = Counted(g) + 1
        /\ ~ g.tbl.noexpand => Roomy(CountsOf(g), MultsOf(g), g.tbl.num_buckets, thresh)
    <2>1. CASE l = <<>>
      <3>1. h = Empty
        BY <2>1 DEF Keeps, IsFull, Ordered
      <3>2. NewBuckets(g) /\ g.tbl.num_items = 0 + 1
        BY <3>1, JoinedCounts DEF g
      <3>3. /\ HasNumbers(g) /\ Counted(g) = 0
            /\ Roomy(CountsOf(g), MultsOf(g), g.tbl.num_buckets, thresh)
        BY <3>2, NewHasRoom
      <3>4. QED
        BY <3>2, <3>3
    <2>2. CASE l # <<>>
      <3>1. HasRoom(h) /\ IsFull(h, l) /\ h.head # NULL
        BY <1>3, <2>2
      <3>2. IsTable(h)
        BY <3>1 DEF IsFull, Holds
      <3>3. SameBuckets(h, g) /\ g.tbl.num_items = h.tbl.num_items + 1
        BY <3>1, <3>2, JoinedCounts DEF g
      <3>4. SameChains(h, g) /\ g.tbl.noexpand = h.tbl.noexpand /\ g.tbl.num_buckets = h.tbl.num_buckets
        BY <3>3 DEF SameBuckets, SameChains
      <3>5. CountsOf(g) = CountsOf(h) /\ MultsOf(g) = MultsOf(h) /\ Counted(g) = Counted(h)
        BY <3>4, CountsSame
      <3>6. /\ HasNumbers(h) /\ Counted(h) = h.tbl.num_items
            /\ ~ h.tbl.noexpand => Roomy(CountsOf(h), MultsOf(h), h.tbl.num_buckets, thresh)
        BY <3>1 DEF HasRoom
      <3>7. HasNumbers(g)
        BY <3>4, <3>6, CountsSame
      <3>8. QED
        BY <3>3, <3>4, <3>5, <3>6, <3>7
    <2>3. QED
      BY <2>1, <2>2
  <1>6. HasRoom(Add_to_bkt(g, e))
    BY <1>2, <1>4, <1>5, AddToBktRoom
  <1>7. QED
    BY <1>1, <1>6

\* A table with at most thresh * (expand_mult + 1) elements in a chain, while
\* it may expand.
Fits(h) ==
  /\ HasNumbers(h)
  /\ ~ h.tbl.noexpand =>
       \A b \in 0 .. h.tbl.num_buckets - 1 :
         CountsOf(h)[b] <= thresh * MultsOf(h)[b] + thresh

\* HASH_DEL_IN_BKT takes an element off the count of its bucket.
LEMMA DelGains ==
  ASSUME NEW h, IsTable(h), AreBuckets(h), NEW b \in 0 .. h.tbl.num_buckets - 1, NEW e,
         h.tbl.buckets[b].count \in Nat \ {0}
  PROVE  LET f == Del_in_bkt(h, b, e) IN
         /\ f.tbl.buckets[b].count \in Nat
         /\ f.tbl.buckets[b].expand_mult = h.tbl.buckets[b].expand_mult
         /\ Gains(f, h, b, f.tbl.buckets[b].expand_mult)
  <1> DEFINE f == Del_in_bkt(h, b, e)
             old == h.tbl.buckets[b]
             head == IF old.hh_head = e THEN h.hh_next[e] ELSE old.hh_head
             one == [old EXCEPT !.count = old.count - 1]
             new == [one EXCEPT !.hh_head = head]
  <1>1. DOMAIN old = {"hh_head", "count", "expand_mult"} /\ b \in DOMAIN h.tbl.buckets
    BY DEF AreBuckets
  <1>2. /\ f.tbl.num_buckets = h.tbl.num_buckets
        /\ f.tbl.noexpand = h.tbl.noexpand /\ f.tbl.num_items = h.tbl.num_items
    BY DEF IsTable, Del_in_bkt
  <1>3. f.tbl.buckets = [h.tbl.buckets EXCEPT ![b] = new]
    BY <1>1 DEF IsTable, Del_in_bkt
  <1>4. new.count = old.count - 1 /\ new.expand_mult = old.expand_mult
    BY <1>1
  <1>5. DOMAIN h.tbl.buckets = 0 .. h.tbl.num_buckets - 1
    BY DEF AreBuckets
  <1> HIDE DEF f, new
  <1>6. /\ f.tbl.buckets[b] = new
        /\ \A a \in 0 .. h.tbl.num_buckets - 1 : a # b => f.tbl.buckets[a] = h.tbl.buckets[a]
    BY <1>1, <1>3, <1>5
  <1> DEFINE k == old.count
             x == old.expand_mult
  <1>7. k \in Nat \ {0}
    OBVIOUS
  <1>8. f.tbl.buckets[b].count = k - 1 /\ f.tbl.buckets[b].expand_mult = x
    BY <1>4, <1>6
  <1> HIDE DEF k, x
  <1>9. k - 1 \in Nat /\ k = (k - 1) + 1
    BY <1>7
  <1>10. f.tbl.buckets[b].count \in Nat /\ k = f.tbl.buckets[b].count + 1
    BY <1>8, <1>9
  <1>11. /\ h.tbl.num_buckets = f.tbl.num_buckets
         /\ h.tbl.buckets[b].count = f.tbl.buckets[b].count + 1
         /\ h.tbl.buckets[b].expand_mult = f.tbl.buckets[b].expand_mult
    BY <1>2, <1>8, <1>10 DEF k, x
  <1>12. \A a \in 0 .. f.tbl.num_buckets - 1 : a # b => h.tbl.buckets[a] = f.tbl.buckets[a]
    BY <1>2, <1>6
  <1>13. Gains(f, h, b, f.tbl.buckets[b].expand_mult)
    BY <1>2, <1>11, <1>12 DEF Gains
  <1>14. QED
    BY <1>8, <1>10, <1>13 DEF f, x

\* g is h with one element less.
Loses(h, g) == HasNumbers(g) /\ \E b : PushCounts(g, h, b)

LEMMA DelLoses ==
  ASSUME NEW h, IsTable(h), AreBuckets(h), HasNumbers(h),
         NEW b \in 0 .. h.tbl.num_buckets - 1, NEW e, h.tbl.buckets[b].count \in Nat \ {0}
  PROVE  Loses(h, Del_in_bkt(h, b, e))
  <1> DEFINE f == Del_in_bkt(h, b, e)
  <1>1. /\ f.tbl.buckets[b].count \in Nat
        /\ f.tbl.buckets[b].expand_mult = h.tbl.buckets[b].expand_mult
        /\ Gains(f, h, b, f.tbl.buckets[b].expand_mult)
    BY DelGains
  <1> HIDE DEF f
  <1>2. /\ h.tbl.num_buckets = f.tbl.num_buckets
        /\ \A a \in 0 .. f.tbl.num_buckets - 1 : a # b => h.tbl.buckets[a] = f.tbl.buckets[a]
    BY <1>1 DEF Gains
  <1>3. /\ h.tbl.num_buckets \in Nat \ {0}
        /\ \A a \in 0 .. h.tbl.num_buckets - 1 :
             h.tbl.buckets[a].count \in Nat /\ h.tbl.buckets[a].expand_mult \in Nat
    BY DEF HasNumbers
  <1>4. ASSUME NEW a \in 0 .. f.tbl.num_buckets - 1
        PROVE  f.tbl.buckets[a].count \in Nat /\ f.tbl.buckets[a].expand_mult \in Nat
    <2>1. CASE a = b
      <3>1. h.tbl.buckets[b].expand_mult \in Nat
        BY <1>3
      <3>2. QED
        BY <1>1, <2>1, <3>1
    <2>2. CASE a # b
      BY <1>2, <1>3, <1>4, <2>2
    <2>3. QED
      BY <2>1, <2>2
  <1>5. HasNumbers(f)
    BY <1>2, <1>3, <1>4 DEF HasNumbers
  <1>6. b \in 0 .. f.tbl.num_buckets - 1
    BY <1>2
  <1>7. PushCounts(f, h, b)
    BY <1>1, <1>5, <1>6, GainsCounts
  <1>8. Loses(h, f)
    BY <1>5, <1>7 DEF Loses
  <1>9. QED
    BY <1>8 DEF f

\* A table that loses an element keeps its room.
LEMMA LosesKeeps ==
  ASSUME NEW h, NEW g, Loses(h, g)
  PROVE  /\ HasNumbers(g) /\ Counted(h) = Counted(g) + 1
         /\ g.tbl.num_buckets = h.tbl.num_buckets /\ g.tbl.noexpand = h.tbl.noexpand
         /\ MultsOf(g) = MultsOf(h)
         /\ \A k \in 0 .. h.tbl.num_buckets - 1 : CountsOf(g)[k] <= CountsOf(h)[k]
         /\ g.tbl.num_items = h.tbl.num_items
  <1> DEFINE n == h.tbl.num_buckets
  <1>1. PICK b : HasNumbers(g) /\ PushCounts(g, h, b)
    BY DEF Loses
  <1>2. /\ Counted(h) = Counted(g) + 1 /\ n = g.tbl.num_buckets
        /\ h.tbl.num_items = g.tbl.num_items /\ h.tbl.noexpand = g.tbl.noexpand
        /\ b \in 0 .. n - 1 /\ OneMore(CountsOf(g), CountsOf(h), n, b)
        /\ MultsOf(h) = MultsOf(g)
    BY <1>1 DEF PushCounts
  <1>3. CountsOf(g) \in [Nat -> Nat] /\ n \in Nat
    BY <1>1, <1>2, CountsAre DEF HasNumbers
  <1> HIDE DEF n
  <1>4. /\ CountsOf(h)[b] = CountsOf(g)[b] + 1
        /\ \A k \in 0 .. n - 1 : k # b => CountsOf(h)[k] = CountsOf(g)[k]
    BY <1>2 DEF OneMore
  <1>5. \A k \in 0 .. n - 1 : CountsOf(g)[k] \in Nat
    BY <1>3
  <1>6. \A k \in 0 .. n - 1 : CountsOf(g)[k] <= CountsOf(h)[k]
    BY <1>2, <1>4, <1>5
  <1>7. QED
    BY <1>1, <1>2, <1>6 DEF n

\* HASH_DELETE leaves the room of a table.
KeepsRoom(h, g) ==
  /\ HasRoom(h) => HasRoom(g)
  /\ Fits(h) => Fits(g)

\* The bucket of an element counts it.
LEMMA CountsElement ==
  ASSUME hashv \in [Elements -> Nat], NEW h, NEW c, NEW m, Holds(h, c, m), NEW e \in m
  PROVE  LET b == To_bkt(e, h.tbl.num_buckets) IN
         /\ b \in 0 .. h.tbl.num_buckets - 1
         /\ h.tbl.buckets[b].count \in Nat \ {0}
  <1> DEFINE n == h.tbl.num_buckets
             b == To_bkt(e, n)
  <1>1. e \in Elements /\ n \in Nat \ {0}
    BY DEF Holds, AreBuckets
  <1>2. b \in 0 .. n - 1
    BY <1>1, ToBktIs
  <1>3. /\ Links(Elements, h.hh_next, h.hh_prev, h.tbl.buckets[b].hh_head, c[b])
        /\ h.tbl.buckets[b].count = Len(c[b])
        /\ In(e, c[b])
    <2> HIDE DEF n
    <2>1. /\ \A k \in 0 .. n - 1 :
               /\ Links(Elements, h.hh_next, h.hh_prev, h.tbl.buckets[k].hh_head, c[k])
               /\ h.tbl.buckets[k].count = Len(c[k])
               /\ \A x : In(x, c[k]) <=> x \in m /\ To_bkt(x, n) = k
      BY DEF Holds, n
    <2>2. QED
      BY <1>2, <2>1
  <1> DEFINE s == c[b]
  <1>4. s \in Seq(Elements) /\ In(e, s)
    BY <1>3 DEF Links
  <1> HIDE DEF s
  <1>5. Len(s) \in Nat \ {0}
    <2>1. PICK p \in 1 .. Len(s) : s[p] = e
      BY <1>4 DEF In
    <2>2. Len(s) \in Nat
      BY <1>4
    <2>3. QED
      BY <2>1, <2>2
  <1>6. QED
    BY <1>2, <1>3, <1>5 DEF s, n

\* HASH_DELETE takes the element off the counts, or leaves no table.
LEMMA DeleteRoom ==
  ASSUME hashv \in [Elements -> Nat], thresh \in Nat, NEW h, NEW l, IsFull(h, l), NEW e, In(e, l)
  PROVE  Hash_delete(h, e) = Empty \/ KeepsRoom(h, Hash_delete(h, e))
  <1> DEFINE before == h.prev[e]
             after == h.next[e]
             g == [h EXCEPT !.head = IF before = NULL THEN after ELSE h.head,
                  !.next = [x \in Elements |->
                    IF x = e THEN NULL ELSE IF x = before THEN after ELSE h.next[x]],
                  !.prev = [x \in Elements |->
                    IF x = e THEN NULL ELSE IF x = after THEN before ELSE h.prev[x]],
                  !.tbl.tail = IF h.tbl.tail = e THEN before ELSE h.tbl.tail,
                  !.tbl.num_items = h.tbl.num_items - 1]
             n == h.tbl.num_buckets
             b == To_bkt(e, n)
             f == Del_in_bkt(g, b, e)
             out == Hash_delete(h, e)
  <1>1. out = IF before = NULL /\ after = NULL THEN Empty ELSE f
    BY DEF Hash_delete
  <1>2. PICK c : Holds(h, c, ToSet(l))
    BY DEF IsFull
  <1>3. Ordered(h, l)
    BY DEF IsFull
  <1>4. e \in ToSet(l)
    BY <1>3, OrderedIs
  <1>5. b \in 0 .. n - 1 /\ h.tbl.buckets[b].count \in Nat \ {0}
    <2> DEFINE m == ToSet(l)
    <2>1. Holds(h, c, m) /\ e \in m
      BY <1>2, <1>4
    <2> HIDE DEF m
    <2>2. QED
      BY <2>1, CountsElement
  <1>6. IsTable(h) /\ AreBuckets(h)
    BY <1>2 DEF Holds
  <1>7. /\ IsTable(g) /\ SameChains(h, g)
        /\ g.tbl.num_items = h.tbl.num_items - 1
        /\ g.tbl.noexpand = h.tbl.noexpand
    BY <1>6 DEF IsTable, SameChains
  <1> HIDE DEF g, b
  <1>8. /\ AreBuckets(g) /\ g.tbl.num_buckets = n
        /\ b \in 0 .. g.tbl.num_buckets - 1
        /\ g.tbl.buckets[b].count \in Nat \ {0}
    BY <1>5, <1>6, <1>7 DEF SameChains, AreBuckets
  <1>9. /\ CountsOf(g) = CountsOf(h) /\ MultsOf(g) = MultsOf(h) /\ Counted(g) = Counted(h)
        /\ HasNumbers(h) => HasNumbers(g)
    BY <1>7, CountsSame
  <1>10. ASSUME HasNumbers(h)
         PROVE  /\ HasNumbers(f) /\ Counted(h) = Counted(f) + 1
                /\ f.tbl.num_buckets = n /\ f.tbl.noexpand = h.tbl.noexpand
                /\ MultsOf(f) = MultsOf(h)
                /\ \A k \in 0 .. n - 1 : CountsOf(f)[k] <= CountsOf(h)[k]
                /\ f.tbl.num_items = h.tbl.num_items - 1
    <2>1. HasNumbers(g)
      BY <1>9, <1>10
    <2>2. Loses(g, f)
      BY <1>7, <1>8, <2>1, DelLoses
    <2> HIDE DEF f, n
    <2>3. /\ HasNumbers(f) /\ Counted(g) = Counted(f) + 1
          /\ f.tbl.num_buckets = g.tbl.num_buckets /\ f.tbl.noexpand = g.tbl.noexpand
          /\ MultsOf(f) = MultsOf(g)
          /\ \A k \in 0 .. g.tbl.num_buckets - 1 : CountsOf(f)[k] <= CountsOf(g)[k]
          /\ f.tbl.num_items = g.tbl.num_items
      BY <2>2, LosesKeeps
    <2>4. QED
      BY <1>7, <1>8, <1>9, <2>3
  <1> HIDE DEF f
  <1>11. ASSUME HasRoom(h) PROVE HasRoom(f)
    <2>1. HasNumbers(h) /\ Counted(h) = h.tbl.num_items
      BY <1>11 DEF HasRoom
    <2>2. /\ HasNumbers(f) /\ Counted(h) = Counted(f) + 1
          /\ f.tbl.num_buckets = n /\ f.tbl.noexpand = h.tbl.noexpand
          /\ MultsOf(f) = MultsOf(h)
          /\ \A k \in 0 .. n - 1 : CountsOf(f)[k] <= CountsOf(h)[k]
          /\ f.tbl.num_items = h.tbl.num_items - 1
      BY <1>10, <2>1
    <2>3. Counted(f) \in Nat /\ CountsOf(f) \in [Nat -> Nat]
      BY <2>2, CountsAre
    <2>4. n \in Nat /\ CountsOf(h) \in [Nat -> Nat] /\ MultsOf(h) \in [Nat -> Nat]
      BY <2>1, CountsAre DEF HasNumbers
    <2>5. Counted(f) = f.tbl.num_items
      <3> DEFINE u == Counted(f)
      <3>1. u \in Nat /\ f.tbl.num_items = (u + 1) - 1
        BY <2>1, <2>2, <2>3
      <3> HIDE DEF u
      <3>2. f.tbl.num_items = u
        BY <3>1
      <3>3. QED
        BY <3>2 DEF u
    <2>6. ASSUME ~ f.tbl.noexpand PROVE Roomy(CountsOf(f), MultsOf(f), f.tbl.num_buckets, thresh)
      <3>1. Roomy(CountsOf(h), MultsOf(h), n, thresh)
        BY <1>11, <2>2, <2>6 DEF HasRoom
      <3>2. Roomy(CountsOf(f), MultsOf(h), n, thresh)
        <4> HIDE DEF n
        <4>1. QED
          BY <2>2, <2>3, <2>4, <3>1, RoomyFewer
      <3>3. QED
        BY <2>2, <3>2
    <2>7. QED
      BY <2>2, <2>5, <2>6 DEF HasRoom
  <1>12. ASSUME Fits(h) PROVE Fits(f)
    <2>1. HasNumbers(h)
      BY <1>12 DEF Fits
    <2>2. /\ HasNumbers(f)
          /\ f.tbl.num_buckets = n /\ f.tbl.noexpand = h.tbl.noexpand
          /\ MultsOf(f) = MultsOf(h)
          /\ \A k \in 0 .. n - 1 : CountsOf(f)[k] <= CountsOf(h)[k]
      BY <1>10, <2>1
    <2>3. /\ n \in Nat /\ CountsOf(h) \in [Nat -> Nat] /\ MultsOf(h) \in [Nat -> Nat]
          /\ CountsOf(f) \in [Nat -> Nat]
      BY <2>1, <2>2, CountsAre DEF HasNumbers
    <2>4. ASSUME ~ f.tbl.noexpand, NEW k \in 0 .. n - 1
          PROVE  CountsOf(f)[k] <= thresh * MultsOf(f)[k] + thresh
      <3> DEFINE cap == thresh * MultsOf(h)[k] + thresh
      <3>1. k \in Nat
        BY <2>3
      <3>2. MultsOf(h)[k] \in Nat /\ CountsOf(f)[k] \in Nat /\ CountsOf(h)[k] \in Nat
        BY <2>3, <3>1
      <3>3. cap \in Nat
        BY <3>2
      <3>4. CountsOf(h)[k] <= cap
        BY <1>12, <2>2, <2>4 DEF Fits
      <3>5. CountsOf(f)[k] <= CountsOf(h)[k]
        BY <2>2, <2>4
      <3> HIDE DEF cap
      <3>6. CountsOf(f)[k] <= cap
        BY <3>2, <3>3, <3>4, <3>5
      <3>7. QED
        BY <2>2, <3>6 DEF cap
    <2>5. QED
      BY <2>2, <2>4 DEF Fits
  <1>13. KeepsRoom(h, f)
    BY <1>11, <1>12 DEF KeepsRoom
  <1>14. QED
    BY <1>1, <1>13

\* A change of the application order leaves the room.
LEMMA RoomSame ==
  ASSUME NEW h, NEW g, SameBuckets(h, g)
  PROVE  /\ g.tbl.num_items = h.tbl.num_items => KeepsRoom(h, g)
         /\ HasLateRoom(h) => HasLateRoom(g)
         /\ Counted(g) = Counted(h)
  <1>1. SameChains(h, g) /\ g.tbl.noexpand = h.tbl.noexpand /\ g.tbl.num_buckets = h.tbl.num_buckets
    BY DEF SameBuckets, SameChains
  <1>2. /\ CountsOf(g) = CountsOf(h) /\ MultsOf(g) = MultsOf(h) /\ Counted(g) = Counted(h)
        /\ HasNumbers(h) => HasNumbers(g)
    BY <1>1, CountsSame
  <1>3. ASSUME g.tbl.num_items = h.tbl.num_items PROVE KeepsRoom(h, g)
    <2>1. HasRoom(h) => HasRoom(g)
      BY <1>1, <1>2, <1>3 DEF HasRoom
    <2>2. Fits(h) => Fits(g)
      BY <1>1, <1>2 DEF Fits
    <2>3. QED
      BY <2>1, <2>2 DEF KeepsRoom
  <1>4. HasLateRoom(h) => HasLateRoom(g)
    BY <1>1, <1>2 DEF HasLateRoom
  <1>5. QED
    BY <1>2, <1>3, <1>4

\* So HASH_SRT does.
LEMMA SortRoom ==
  ASSUME NEW h, NEW l, Keeps(h, l), NEW rank \in [Elements -> Int]
  PROVE  KeepsRoom(h, Hash_srt(h, rank))
  <1>1. l \in Seq(Elements) /\ Distinct(l) /\ AppOrder(h) = l /\ (h.head = NULL <=> l = <<>>)
        /\ (l # <<>> => IsFull(h, l))
    BY KeepsIs
  <1>2. CASE l = <<>>
    <2>1. Hash_srt(h, rank) = h
      BY <1>1, <1>2 DEF Hash_srt
    <2>2. QED
      BY <2>1 DEF KeepsRoom
  <1>3. CASE l # <<>>
    <2> DEFINE s == Sorted(rank, l)
               g == Linked(h, s)
    <2>1. Hash_srt(h, rank) = g
      BY <1>1, <1>3 DEF Hash_srt
    <2>2. s \in Seq(Elements) /\ Distinct(s) /\ IsStableSort(rank, l, s)
      BY <1>1, <1>3, SortIsStable
    <2> HIDE DEF s
    <2>3. s # <<>>
      <3>1. Len(s) = Len(l) /\ Len(l) \in Nat \ {0}
        BY <1>1, <1>3, <2>2 DEF IsStableSort
      <3>2. QED
        BY <3>1
    <2>4. IsTable(h) /\ Ordered(h, l)
      BY <1>1, <1>3 DEF IsFull, Holds
    <2>5. ToSet(s) = ToSet(l)
      BY <2>2 DEF IsStableSort, ToSet
    <2>6. /\ SameChains(h, g) /\ g.tbl.num_items = h.tbl.num_items
          /\ g.tbl.noexpand = h.tbl.noexpand
      BY <2>2, <2>3, <2>4, <2>5, LinkedIs
    <2> HIDE DEF g
    <2>7. KeepsRoom(h, g)
      BY <2>6, RoomSame DEF SameBuckets
    <2>8. QED
      BY <2>1, <2>7
  <1>4. QED
    BY <1>2, <1>3

\* A threshold that HASH_SELECT, which counts late, can keep.
Enough == thresh \in Nat /\ thresh > 1 /\ thresh <= 2 * InitialBuckets

\* The table of HASH_SELECT has counted its elements, and is not too full.
SelectRoom(h) == h.head # NULL => HasLateRoom(h) /\ h.tbl.num_items = Counted(h)

\* So after each of its steps.
LEMMA SelectedRoom ==
  ASSUME hashv \in [Elements -> Nat], Enough, NEW g, NEW l, Fills(g, l), SelectRoom(g.table),
         NEW e \in Elements, ~ In(e, l), NEW chosen
  PROVE  SelectRoom(Selected(g, e, chosen).table)
  <1>1. CASE e \notin chosen
    BY <1>1 DEF Selected
  <1>2. CASE e \in chosen
    <2> DEFINE h == g.table
               last == g.last
               linked == Followed(h, last, e)
               added == Add_to_bkt(linked, e)
               f == [added EXCEPT !.tbl.num_items = added.tbl.num_items + 1]
    <2>1. Selected(g, e, chosen).table = f
      BY <1>2 DEF Selected, Followed
    <2>2. Keeps(h, l) /\ IF l = <<>> THEN last = NULL ELSE last = l[Len(l)]
      BY DEF Fills
    <2> HIDE DEF h, last
    <2>3. PICK c : Holds(linked, c, ToSet(l))
      BY <2>2, FollowedIs
    <2>4. l \in Seq(Elements) /\ (h.head = NULL <=> l = <<>>) /\ (l # <<>> => IsFull(h, l))
      BY <2>2, KeepsIs
    <2>5. e \in Elements \ ToSet(l)
      BY <2>4, ToSetIn
    <2>6. HasLateRoom(linked) /\ linked.tbl.num_items = Counted(linked)
      <3>1. CASE l = <<>>
        <4>1. h = Empty /\ last = NULL
          BY <2>2, <3>1 DEF Keeps, IsFull, Ordered
        <4>2. NewBuckets(linked) /\ linked.tbl.num_items = 0
          BY <4>1, FollowedCounts
        <4>3. thresh \in Nat
          BY DEF Enough
        <4> HIDE DEF linked
        <4>4. Counted(linked) = 0 /\ HasLateRoom(linked)
          BY <4>2, <4>3, NewHasRoom
        <4>5. QED
          BY <4>2, <4>4
      <3>2. CASE l # <<>>
        <4>1. h.head # NULL /\ IsFull(h, l)
          BY <2>4, <3>2
        <4>2. IsTable(h)
          BY <4>1 DEF IsFull, Holds
        <4>3. last # NULL
          <5>1. Len(l) \in 1 .. Len(l) /\ last = l[Len(l)]
            BY <2>2, <2>4, <3>2
          <5>2. QED
            BY <2>4, <5>1
        <4>4. SameBuckets(h, linked) /\ linked.tbl.num_items = h.tbl.num_items
          BY <4>2, <4>3, FollowedCounts
        <4>5. HasLateRoom(h) /\ h.tbl.num_items = Counted(h)
          BY <4>1 DEF SelectRoom, h
        <4> HIDE DEF linked
        <4>6. HasLateRoom(linked) /\ Counted(linked) = Counted(h)
          BY <4>4, <4>5, RoomSame
        <4>7. QED
          BY <4>4, <4>5, <4>6
      <3>3. QED
        BY <3>1, <3>2
    <2> HIDE DEF linked
    <2> DEFINE m == ToSet(l)
    <2>7. Holds(linked, c, m) /\ e \in Elements \ m
      BY <2>3, <2>5
    <2> HIDE DEF m
    <2>8. HasLateRoom(added) /\ Counted(added) = Counted(linked) + 1
      BY <2>6, <2>7, AddToBktLate DEF Enough
    <2>9. IsTable(added) /\ added.tbl.num_items = linked.tbl.num_items
      <3>1. (\E d : Holds(added, d, m \cup {e})) /\ SameOrder(linked, added)
        BY <2>7, AddToBktIs
      <3> HIDE DEF added
      <3>2. QED
        BY <3>1 DEF Holds, SameOrder
    <2> HIDE DEF added
    <2>10. SameBuckets(added, f) /\ f.tbl.num_items = added.tbl.num_items + 1
      BY <2>9 DEF SameBuckets, SameChains, IsTable
    <2> HIDE DEF f
    <2>11. HasLateRoom(f) /\ Counted(f) = Counted(added)
      BY <2>8, <2>10, RoomSame
    <2>12. f.tbl.num_items = Counted(f)
      BY <2>6, <2>8, <2>9, <2>10, <2>11
    <2>13. QED
      BY <2>1, <2>11, <2>12 DEF SelectRoom
  <1>3. QED
    BY <1>1, <1>2

\* A table of HASH_SELECT is not too full.
LEMMA LateFits ==
  ASSUME NEW h, HasLateRoom(h)
  PROVE  Fits(h)
  BY DEF HasLateRoom, Late, Fits

\* The table of HASH_SELECT after each element.
SelectOrder(h) == IF h.head = NULL THEN <<>> ELSE InBucketOrder(h)

SelectionSteps(h, chosen, after) ==
  /\ Hash_select(h, chosen) = after[Len(SelectOrder(h))].table
  /\ after[0] = [table |-> Empty, last |-> NULL]
  /\ \A j \in 1 .. Len(SelectOrder(h)) :
       after[j] = Selected(after[j - 1], SelectOrder(h)[j], chosen)

LEMMA SelectSteps ==
  ASSUME NEW h, NEW chosen, SelectOrder(h) \in Seq(Elements)
  PROVE  \E after : SelectionSteps(h, chosen, after)
  <1> DEFINE all == SelectOrder(h)
             n == Len(all)
             start == [table |-> Empty, last |-> NULL]
             Is(k, f) == f = [j \in 0 .. k |-> IF j = 0 THEN start
                                               ELSE Selected(f[j - 1], all[j], chosen)]
             U == {k \in 0 .. n : \E f : Is(k, f)}
             after == CHOOSE f : Is(n, f)
  <1>1. Hash_select(h, chosen) = after[n].table
    BY DEF Hash_select, SelectOrder
  <1>2. all \in Seq(Elements)
    OBVIOUS
  <1> HIDE DEF all
  <1>3. n \in Nat
    BY <1>2
  <1> HIDE DEF n, start, after
  <1>4. 0 \in U
    <2> DEFINE f == [j \in 0 .. 0 |-> start]
    <2>1. Is(0, f)
      OBVIOUS
    <2> HIDE DEF Is
    <2>2. QED
      BY <1>3, <2>1
  <1>5. ASSUME NEW k \in 0 .. n - 1, k \in U PROVE k + 1 \in U
    <2>1. PICK f : Is(k, f)
      BY <1>5
    <2>2. k \in Nat /\ k + 1 \in 0 .. n
      BY <1>3, <1>5
    <2> DEFINE Step(j, u) == Selected(u, all[j], chosen)
               g == [j \in 0 .. k + 1 |-> IF j = k + 1 THEN Step(k + 1, f[k]) ELSE f[j]]
    <2>3. /\ f[0] = start
          /\ \A j \in 1 .. k : f[j] = Step(j, f[j - 1])
      <3> HIDE DEF Step
      <3>1. f = [j \in 0 .. k |-> IF j = 0 THEN start ELSE Step(j, f[j - 1])]
        BY <2>1 DEF Step
      <3> HIDE DEF Is
      <3>2. 0 \in 0 .. k /\ \A j \in 1 .. k : j \in 0 .. k /\ j # 0
        BY <2>2
      <3>3. QED
        BY <3>1, <3>2
    <2> HIDE DEF Step, Is
    <2>4. ASSUME NEW j \in 0 .. k + 1
          PROVE  g[j] = IF j = 0 THEN start ELSE Step(j, g[j - 1])
      <3>1. CASE j = 0
        BY <2>2, <2>3, <3>1
      <3>2. CASE j # 0
        <4>1. j - 1 \in 0 .. k + 1 /\ j - 1 # k + 1
          BY <2>2, <3>2
        <4>2. g[j - 1] = f[j - 1]
          BY <4>1
        <4>3. CASE j = k + 1
          <5>1. j - 1 = k
            BY <2>2, <4>3
          <5>2. g[j] = Step(k + 1, f[k])
            BY <4>3
          <5>3. QED
            BY <3>2, <4>2, <4>3, <5>1, <5>2
        <4>4. CASE j # k + 1
          <5>1. j \in 1 .. k /\ g[j] = f[j]
            BY <2>2, <3>2, <4>4
          <5>2. QED
            BY <2>3, <3>2, <4>2, <5>1
        <4>5. QED
          BY <4>3, <4>4
      <3>3. QED
        BY <3>1, <3>2
    <2>5. g = [j \in 0 .. k + 1 |-> g[j]]
      OBVIOUS
    <2> HIDE DEF g
    <2>6. Is(k + 1, g)
      BY <2>4, <2>5 DEF Is, Step
    <2>7. QED
      BY <2>2, <2>6
  <1> HIDE DEF U
  <1>6. 0 .. n \subseteq U
    BY <1>3, <1>4, <1>5, AllUpto
  <1>7. Is(n, after)
    <2>1. \E f : Is(n, f)
      <3>1. n \in U
        BY <1>3, <1>6
      <3>2. QED
        BY <3>1 DEF U
    <2> HIDE DEF Is
    <2>2. QED
      BY <2>1 DEF after
  <1>8. /\ after[0] = start
        /\ \A j \in 1 .. n : after[j] = Selected(after[j - 1], all[j], chosen)
    <2> DEFINE Step(j, u) == Selected(u, all[j], chosen)
    <2>1. after = [j \in 0 .. n |-> IF j = 0 THEN start ELSE Step(j, after[j - 1])]
      BY <1>7
    <2>2. 0 \in 0 .. n /\ \A j \in 1 .. n : j \in 0 .. n /\ j # 0
      BY <1>3
    <2> HIDE DEF Step, Is
    <2>3. after[0] = start /\ \A j \in 1 .. n : after[j] = Step(j, after[j - 1])
      BY <2>1, <2>2
    <2>4. QED
      BY <2>3 DEF Step
  <1>9. QED
    BY <1>1, <1>8 DEF start, n, all, SelectionSteps

\* HASH_SELECT makes a table of the elements of the chosen set, that is not
\* too full.
LEMMA SelectIs ==
  ASSUME hashv \in [Elements -> Nat], NEW h, NEW l, Keeps(h, l), NEW chosen
  PROVE  /\ \E s : Keeps(Hash_select(h, chosen), s)
         /\ Enough => SelectRoom(Hash_select(h, chosen))
  <1> DEFINE all == SelectOrder(h)
             n == Len(all)
             start == [table |-> Empty, last |-> NULL]
  <1>1. all \in Seq(Elements) /\ Distinct(all)
    <2>1. CASE h.head = NULL
      <3>1. <<>> \in Seq(Elements) /\ Distinct(<<>>)
        BY DEF Distinct
      <3>2. QED
        BY <2>1, <3>1 DEF SelectOrder
    <2>2. CASE h.head # NULL
      <3>1. IsFull(h, l)
        BY <2>2, KeepsIs
      <3>2. PICK c : Holds(h, c, ToSet(l))
        BY <3>1 DEF IsFull
      <3>3. InBucketOrder(h) \in Seq(Elements) /\ Distinct(InBucketOrder(h))
        BY <3>2, InBucketOrderIs
      <3>4. QED
        BY <2>2, <3>3 DEF SelectOrder
    <2>3. QED
      BY <2>1, <2>2
  <1>2. PICK after : SelectionSteps(h, chosen, after)
    BY <1>1, SelectSteps
  <1>3. /\ Hash_select(h, chosen) = after[n].table
        /\ after[0] = start
        /\ \A j \in 1 .. n : after[j] = Selected(after[j - 1], all[j], chosen)
    BY <1>2 DEF SelectionSteps
  <1> HIDE DEF all
  <1>4. n \in Nat
    BY <1>1
  <1> HIDE DEF n, start
  <1> DEFINE Good(k) == \E s : /\ Fills(after[k], s)
                               /\ Enough => SelectRoom(after[k].table)
                               /\ \A x : In(x, s) => \E j \in 1 .. k : all[j] = x
             T == {k \in 0 .. n : Good(k)}
  <1>5. 0 \in T
    <2>1. Fills(start, <<>>) /\ \A x : ~ In(x, <<>>)
      BY DEF Fills, Keeps, start, In
    <2>2. SelectRoom(start.table)
      BY EmptyIs DEF start, SelectRoom
    <2>3. Good(0)
      BY <1>3, <2>1, <2>2
    <2> HIDE DEF Good
    <2>4. QED
      BY <1>4, <2>3
  <1>6. ASSUME NEW k \in 0 .. n - 1, k \in T PROVE k + 1 \in T
    <2> DEFINE g == after[k]
               e == all[k + 1]
               f == Selected(g, e, chosen)
    <2>1. k \in Nat /\ k + 1 \in 0 .. n /\ k + 1 \in 1 .. n /\ (k + 1) - 1 = k
      BY <1>4, <1>6
    <2>2. PICK s : /\ Fills(g, s)
                   /\ Enough => SelectRoom(g.table)
                   /\ \A x : In(x, s) => \E j \in 1 .. k : all[j] = x
      BY <1>6
    <2>3. e \in Elements
      BY <1>1, <2>1 DEF n
    <2>4. ~ In(e, s)
      <3>1. SUFFICES ASSUME NEW j \in 1 .. k, all[j] = e PROVE FALSE
        BY <2>2
      <3>2. j \in 1 .. n /\ j # k + 1
        BY <1>4, <2>1
      <3>3. QED
        BY <1>1, <2>1, <3>1, <3>2 DEF Distinct, n
    <2>5. after[k + 1] = f
      BY <1>3, <2>1
    <2> HIDE DEF g, e
    <2>6. PICK t : Fills(f, t) /\ \A x : In(x, t) => x = e \/ In(x, s)
      BY <2>2, <2>3, <2>4, SelectedIs
    <2>7. Enough => SelectRoom(f.table)
      BY <2>2, <2>3, <2>4, SelectedRoom
    <2> HIDE DEF f
    <2>8. \A x : In(x, t) => \E j \in 1 .. k + 1 : all[j] = x
      <3>1. \A j \in 1 .. k : j \in 1 .. k + 1
        BY <2>1
      <3>2. k + 1 \in 1 .. k + 1
        BY <2>1
      <3>3. QED
        BY <2>2, <2>6, <3>1, <3>2 DEF e
    <2>9. Good(k + 1)
      BY <2>5, <2>6, <2>7, <2>8
    <2> HIDE DEF Good
    <2>10. QED
      BY <2>1, <2>9
  <1> HIDE DEF T
  <1>7. 0 .. n \subseteq T
    BY <1>4, <1>5, <1>6, AllUpto
  <1>8. Good(n)
    <2>1. n \in T
      BY <1>4, <1>7
    <2> HIDE DEF Good
    <2>2. QED
      BY <2>1 DEF T
  <1>9. QED
    BY <1>3, <1>8 DEF Fills

-----------------------------------------------------------------------------
(* The integrity check.                                                    *)

\* HASH_FSCK finds nothing wrong with a table.
LEMMA FsckIs ==
  ASSUME hashv \in [Elements -> Nat], NEW h, NEW l, Keeps(h, l)
  PROVE  /\ h.head \in Elements \cup {NULL}
         /\ {h.next, h.prev, h.hh_next, h.hh_prev} \subseteq HandlePointers
         /\ h.head # NULL => DOMAIN h.tbl.buckets = 0 .. h.tbl.num_buckets - 1
         /\ Fsck(h)
  <1>1. CASE l = <<>>
    <2>1. h = Empty
      BY <1>1 DEF Keeps, IsFull, Ordered
    <2>2. QED
      BY <2>1, EmptyIs DEF Fsck
  <1>2. CASE l # <<>>
    <2> DEFINE n == h.tbl.num_buckets
               WellLinked(s, prv) ==
                 \A k \in DOMAIN s : prv[s[k]] = IF k = 1 THEN NULL ELSE s[k - 1]
    <2>1. IsFull(h, l)
      BY <1>2, KeepsIs
    <2>2. PICK c : Holds(h, c, ToSet(l))
      BY <2>1 DEF IsFull
    <2>3. Ordered(h, l) /\ h.tbl.num_items = Len(l)
      BY <2>1 DEF IsFull
    <2>4. l \in Seq(Elements) /\ Distinct(l) /\ AppOrder(h) = l /\ h.head \in Elements
      BY <2>3, OrderedIs
    <2>5. {h.next, h.prev, h.hh_next, h.hh_prev} \subseteq HandlePointers
      BY <2>2, <2>3 DEF Holds, Ordered
    <2>6. n \in Nat \ {0} /\ DOMAIN h.tbl.buckets = 0 .. n - 1
      BY <2>2 DEF Holds, AreBuckets
    <2>7. ASSUME NEW s \in Seq(Elements), NEW nxt, NEW prv, NEW head,
                 Links(Elements, nxt, prv, head, s)
          PROVE  WellLinked(s, prv)
      <3>1. SUFFICES ASSUME NEW k \in 1 .. Len(s)
                     PROVE  prv[s[k]] = IF k = 1 THEN NULL ELSE s[k - 1]
        OBVIOUS
      <3>2. prv[s[k]] = At(s, k - 1)
        BY <2>7 DEF Links
      <3>3. k - 1 \in 1 .. Len(s) <=> k # 1
        OBVIOUS
      <3>4. QED
        BY <3>2, <3>3 DEF At
    <2> HIDE DEF WellLinked
    <2>8. WellLinked(AppOrder(h), h.prev)
      BY <2>3, <2>4, <2>7 DEF Ordered
    <2>9. ASSUME NEW b \in 0 .. n - 1
          PROVE  /\ WellLinked(Chain(h, b), h.hh_prev)
                 /\ h.tbl.buckets[b].count = Len(Chain(h, b))
                 /\ Chain(h, b) = c[b] /\ c[b] \in Seq(Elements)
      <3>1. Chain(h, b) = c[b] /\ c[b] \in Seq(Elements)
        BY <2>2, ChainIs
      <3>2. /\ Links(Elements, h.hh_next, h.hh_prev, h.tbl.buckets[b].hh_head, c[b])
            /\ h.tbl.buckets[b].count = Len(c[b])
        BY <2>2 DEF Holds
      <3>3. WellLinked(c[b], h.hh_prev)
        BY <2>7, <3>1, <3>2
      <3>4. QED
        BY <3>1, <3>2, <3>3
    <2>10. UNION {ToSet(Chain(h, b)) : b \in DOMAIN h.tbl.buckets} = ToSet(l)
      <3> DEFINE m == ToSet(l)
                 C(b) == ToSet(Chain(h, b))
      <3>1. m \subseteq Elements
        BY <2>4 DEF ToSet
      <3>2. ASSUME NEW b \in 0 .. n - 1
            PROVE  \A x : x \in C(b) <=> x \in m /\ To_bkt(x, n) = b
        <4> DEFINE s == c[b]
        <4>1. s \in Seq(Elements) /\ C(b) = ToSet(s)
          BY <2>9
        <4>2. \A x : In(x, s) <=> x \in m /\ To_bkt(x, n) = b
          BY <2>2 DEF Holds
        <4> HIDE DEF s, C, m
        <4>3. \A x : x \in ToSet(s) <=> In(x, s)
          BY <4>1, ToSetIn
        <4>4. QED
          BY <4>1, <4>2, <4>3
      <3>3. \A x \in m : To_bkt(x, n) \in 0 .. n - 1
        BY <2>6, <3>1, ToBktIs
      <3> HIDE DEF C, m, n
      <3>4. \A x : x \in UNION {C(b) : b \in 0 .. n - 1} <=> x \in m
        <4>1. ASSUME NEW x, x \in UNION {C(b) : b \in 0 .. n - 1} PROVE x \in m
          BY <3>2, <4>1
        <4>2. ASSUME NEW x \in m PROVE x \in UNION {C(b) : b \in 0 .. n - 1}
          BY <3>2, <3>3, <4>2
        <4>3. QED
          BY <4>1, <4>2
      <3> DEFINE all == UNION {C(b) : b \in 0 .. n - 1}
      <3>5. all = m
        <4> HIDE DEF all
        <4>1. \A x : x \in all <=> x \in m
          BY <3>4 DEF all
        <4>2. QED
          BY <4>1
      <3>6. QED
        BY <2>6, <3>5 DEF C, m
    <2>11. Cardinality(ToSet(l)) = h.tbl.num_items
      BY <2>3, <2>4, DistinctCount
    <2>12. Fsck(h)
      BY <2>3, <2>4, <2>6, <2>8, <2>9, <2>10, <2>11 DEF Fsck, WellLinked
    <2>13. QED
      BY <2>4, <2>5, <2>6, <2>12
  <1>3. QED
    BY <1>1, <1>2

-----------------------------------------------------------------------------
(* The table under use.                                                    *)

\* A loop of HASH_ITER over the order l: el is at place p, tmp at the next,
\* and what is still to be visited is the rest of l.
LoopAt(l, p, todo, el, tmp) ==
  /\ p \in 1 .. Len(l) + 1 /\ el = At(l, p) /\ tmp = At(l, p + 1)
  /\ todo \in Seq(Elements) /\ Len(todo) = (Len(l) - p) + 1
  /\ \A k \in 1 .. Len(todo) : todo[k] = l[(p + k) - 1]

\* The rest of a list.
LEMMA TailSays ==
  ASSUME NEW S, NEW s \in Seq(S), Len(s) # 0
  PROVE  /\ Tail(s) \in Seq(S) /\ Len(Tail(s)) = Len(s) - 1
         /\ \A k \in 1 .. Len(s) - 1 : Tail(s)[k] = s[k + 1]
  OBVIOUS

\* What the rest of the loop says of the element, of the next and of the end.
LEMMA LoopSays ==
  ASSUME NEW l \in Seq(Elements), NEW p, NEW todo, NEW el, NEW tmp, LoopAt(l, p, todo, el, tmp)
  PROVE  /\ el \in Elements \cup {NULL} /\ tmp \in Elements \cup {NULL}
         /\ el = NULL <=> todo = <<>>
         /\ el # NULL => el = Head(todo) /\ p \in 1 .. Len(l)
  <1>1. /\ p \in 1 .. Len(l) + 1 /\ el = At(l, p) /\ tmp = At(l, p + 1)
        /\ todo \in Seq(Elements) /\ Len(todo) = (Len(l) - p) + 1 /\ Len(l) \in Nat
    BY DEF LoopAt
  <1>2. el \in Elements \cup {NULL} /\ tmp \in Elements \cup {NULL}
    BY <1>1 DEF At
  <1>3. CASE p = Len(l) + 1
    <2>1. el = NULL /\ todo = <<>>
      BY <1>1, <1>3 DEF At
    <2>2. QED
      BY <1>2, <2>1
  <1>4. CASE p # Len(l) + 1
    <2>1. p \in 1 .. Len(l) /\ Len(todo) # 0 /\ 1 \in 1 .. Len(todo)
      BY <1>1, <1>4
    <2>2. el = l[p] /\ el \in Elements
      BY <1>1, <2>1 DEF At
    <2>3. todo[1] = l[p]
      <3>1. todo[1] = l[(p + 1) - 1]
        BY <2>1 DEF LoopAt
      <3>2. (p + 1) - 1 = p
        BY <2>1
      <3>3. QED
        BY <3>1, <3>2
    <2>4. todo # <<>> /\ Head(todo) = todo[1]
      BY <1>1, <2>1
    <2>5. QED
      BY <1>2, <2>1, <2>2, <2>3, <2>4
  <1>5. QED
    BY <1>3, <1>4

\* The loop goes on.
LEMMA LoopGoes ==
  ASSUME NEW l \in Seq(Elements), NEW p, NEW todo, NEW el, NEW tmp,
         LoopAt(l, p, todo, el, tmp), el # NULL
  PROVE  LoopAt(l, p + 1, Tail(todo), tmp, At(l, p + 2))
  <1>1. /\ p \in 1 .. Len(l) /\ tmp = At(l, p + 1) /\ Len(l) \in Nat
        /\ todo \in Seq(Elements) /\ Len(todo) = (Len(l) - p) + 1
    BY LoopSays DEF LoopAt
  <1>2. Tail(todo) \in Seq(Elements) /\ Len(Tail(todo)) = Len(l) - p
    BY <1>1, TailSays
  <1>3. ASSUME NEW k \in 1 .. Len(l) - p PROVE Tail(todo)[k] = l[p + k]
    <2>1. k + 1 \in 1 .. Len(todo) /\ k \in 1 .. Len(todo) - 1 /\ (p + (k + 1)) - 1 = p + k
      BY <1>1
    <2>2. Tail(todo)[k] = todo[k + 1]
      BY <1>1, <2>1, TailSays
    <2>3. todo[k + 1] = l[(p + (k + 1)) - 1]
      BY <2>1 DEF LoopAt
    <2>4. QED
      BY <2>1, <2>2, <2>3
  <1>4. /\ p + 1 \in 1 .. Len(l) + 1 /\ (p + 1) + 1 = p + 2 /\ Len(l) - p = (Len(l) - (p + 1)) + 1
        /\ \A k \in 1 .. Len(l) - p : ((p + 1) + k) - 1 = p + k
    BY <1>1
  <1>5. QED
    BY <1>1, <1>2, <1>3, <1>4 DEF LoopAt

\* What Without leaves of a list.
LEMMA WithoutIs ==
  ASSUME NEW s \in Seq(Elements), Distinct(s), NEW x
  PROVE  /\ ~ In(x, s) => Without(s, x) = s
         /\ \A k \in 1 .. Len(s) : s[k] = x => Without(s, x) = RemoveAt(s, k)
  <1>1. In(x, s) <=> x \in ToSet(s)
    BY ToSetIn
  <1>2. ~ In(x, s) => Without(s, x) = s
    BY <1>1 DEF Without
  <1>3. ASSUME NEW k \in 1 .. Len(s), s[k] = x PROVE Without(s, x) = RemoveAt(s, k)
    <2>1. PlaceIn(s, x) = k
      BY <1>3, PlaceInIs
    <2>2. x \in ToSet(s)
      BY <1>1, <1>3 DEF In
    <2>3. QED
      BY <2>1, <2>2 DEF Without, PlaceIn
  <1>4. QED
    BY <1>2, <1>3

\* The loop goes on after the element at place q, which is not the next, was
\* deleted.  The next element is then at place r.
LEMMA LoopDrops ==
  ASSUME NEW l \in Seq(Elements), Distinct(l), NEW p, NEW todo, NEW el, NEW tmp,
         LoopAt(l, p, todo, el, tmp), el # NULL, NEW q \in 1 .. Len(l), l[q] # tmp
  PROVE  LET s == RemoveAt(l, q)
             r == IF q <= p THEN p ELSE p + 1
         IN  LoopAt(s, r, Without(Tail(todo), l[q]), tmp, At(s, r + 1))
  <1> DEFINE s == RemoveAt(l, q)
             t == Tail(todo)
             x == l[q]
             n == Len(l)
  <1>1. /\ p \in 1 .. n /\ tmp = At(l, p + 1) /\ n \in Nat
        /\ todo \in Seq(Elements) /\ Len(todo) = (n - p) + 1
    <2>1. p \in 1 .. n
      BY LoopSays
    <2>2. QED
      BY <2>1 DEF LoopAt
  <1>2. LoopAt(l, p + 1, t, tmp, At(l, p + 2))
    BY LoopGoes
  <1>3. /\ t \in Seq(Elements) /\ Len(t) = n - p
        /\ \A k \in 1 .. n - p : t[k] = l[p + k]
    <2>1. t \in Seq(Elements) /\ Len(t) = (n - (p + 1)) + 1
      BY <1>2 DEF LoopAt
    <2>2. (n - (p + 1)) + 1 = n - p /\ \A k \in 1 .. n - p : ((p + 1) + k) - 1 = p + k
      BY <1>1
    <2>3. \A k \in 1 .. Len(t) : t[k] = l[((p + 1) + k) - 1]
      BY <1>2 DEF LoopAt
    <2>4. QED
      BY <2>1, <2>2, <2>3
  <1>4. /\ s \in Seq(Elements) /\ Len(s) = n - 1
        /\ \A k \in 1 .. n - 1 : s[k] = IF k < q THEN l[k] ELSE l[k + 1]
    BY RemoveAtIs
  <1>5. Distinct(t)
    <2>1. SUFFICES ASSUME NEW j \in 1 .. n - p, NEW k \in 1 .. n - p, t[j] = t[k] PROVE j = k
      BY <1>3 DEF Distinct
    <2>2. l[p + j] = l[p + k]
      BY <1>3, <2>1
    <2>3. p + j \in 1 .. n /\ p + k \in 1 .. n
      BY <1>1
    <2>4. p + j = p + k
      BY <2>2, <2>3 DEF Distinct
    <2>5. QED
      BY <1>1, <2>4
  <1>6. q # p + 1
    <2>1. ASSUME q = p + 1 PROVE FALSE
      <3>1. tmp = l[q]
        BY <1>1, <2>1 DEF At
      <3>2. QED
        BY <3>1
    <2>2. QED
      BY <2>1
  <1> HIDE DEF s, t
  <1>7. CASE q <= p
    <2>1. tmp = At(s, p)
      <3>1. CASE p = n
        BY <1>1, <1>4, <3>1 DEF At
      <3>2. CASE p # n
        <4>1. p \in 1 .. n - 1 /\ p + 1 \in 1 .. n /\ ~ (p < q)
          BY <1>1, <1>7, <3>2
        <4>2. s[p] = l[p + 1]
          BY <1>4, <4>1
        <4>3. QED
          BY <1>1, <1>4, <4>1, <4>2 DEF At
      <3>3. QED
        BY <3>1, <3>2
    <2>2. ~ In(x, t)
      <3>1. SUFFICES ASSUME NEW k \in 1 .. n - p, t[k] = x PROVE FALSE
        BY <1>3 DEF In
      <3>2. l[p + k] = l[q] /\ p + k \in 1 .. n /\ p + k # q
        BY <1>1, <1>3, <1>7, <3>1
      <3>3. QED
        BY <3>2 DEF Distinct
    <2>3. Without(t, x) = t
      BY <1>3, <1>5, <2>2, WithoutIs
    <2>4. ASSUME NEW k \in 1 .. n - p PROVE t[k] = s[(p + k) - 1]
      <3>1. (p + k) - 1 \in 1 .. n - 1 /\ ~ ((p + k) - 1 < q) /\ ((p + k) - 1) + 1 = p + k
        BY <1>1, <1>7
      <3>2. s[(p + k) - 1] = l[p + k]
        BY <1>4, <3>1
      <3>3. QED
        BY <1>3, <3>2
    <2>5. p \in 1 .. (n - 1) + 1 /\ n - p = ((n - 1) - p) + 1
      BY <1>1
    <2>6. LoopAt(s, p, t, tmp, At(s, p + 1))
      BY <1>3, <1>4, <2>1, <2>4, <2>5 DEF LoopAt
    <2>7. QED
      BY <1>7, <2>3, <2>6 DEF s, t
  <1>8. CASE ~ (q <= p)
    <2>1. q \in (p + 2) .. n /\ p + 1 \in 1 .. n - 1 /\ p + 1 < q
      BY <1>1, <1>6, <1>8
    <2>2. tmp = At(s, p + 1)
      <3>1. s[p + 1] = l[p + 1] /\ p + 1 \in 1 .. n
        <4>1. s[p + 1] = IF p + 1 < q THEN l[p + 1] ELSE l[(p + 1) + 1]
          BY <1>4, <2>1
        <4>2. p + 1 \in 1 .. n
          BY <1>1, <2>1
        <4>3. QED
          BY <2>1, <4>1, <4>2
      <3>2. QED
        BY <1>1, <1>4, <2>1, <3>1 DEF At
    <2> DEFINE j == q - p
               u == Without(t, x)
    <2>3. j \in 1 .. n - p /\ t[j] = x /\ p + j = q
      <3>1. j \in 1 .. n - p /\ p + j = q
        BY <1>1, <2>1
      <3>2. QED
        BY <1>3, <3>1
    <2> HIDE DEF j
    <2>4. u = RemoveAt(t, j)
      BY <1>3, <1>5, <2>3, WithoutIs
    <2> HIDE DEF u
    <2>5. /\ u \in Seq(Elements) /\ Len(u) = (n - p) - 1
          /\ \A k \in 1 .. (n - p) - 1 : u[k] = IF k < j THEN t[k] ELSE t[k + 1]
      <3>1. j \in 1 .. Len(t) /\ Len(t) = n - p /\ t \in Seq(Elements)
        BY <1>3, <2>3
      <3>2. /\ RemoveAt(t, j) \in Seq(Elements) /\ Len(RemoveAt(t, j)) = Len(t) - 1
            /\ \A k \in 1 .. Len(t) - 1 : RemoveAt(t, j)[k] = IF k < j THEN t[k] ELSE t[k + 1]
        BY <3>1, RemoveAtIs
      <3>3. QED
        BY <2>4, <3>1, <3>2
    <2>6. ASSUME NEW k \in 1 .. (n - p) - 1 PROVE u[k] = s[((p + 1) + k) - 1]
      <3>1. /\ ((p + 1) + k) - 1 = p + k /\ p + k \in 1 .. n - 1 /\ p + (k + 1) = (p + k) + 1
            /\ k \in 1 .. n - p /\ k + 1 \in 1 .. n - p /\ (k < j <=> p + k < q)
        <4>1. p \in Int /\ n \in Int /\ j \in Int /\ k \in Int /\ p >= 1 /\ k >= 1 /\ k <= (n - p) - 1
          BY <1>1, <2>3
        <4> HIDE DEF n
        <4>2. p + j = q
          BY <2>3
        <4>3. QED
          BY <4>1, <4>2
      <3>2. u[k] = IF k < j THEN t[k] ELSE t[k + 1]
        BY <2>5
      <3>3. t[k] = l[p + k] /\ t[k + 1] = l[p + (k + 1)]
        BY <1>3, <3>1
      <3>4. s[p + k] = IF p + k < q THEN l[p + k] ELSE l[(p + k) + 1]
        BY <1>4, <3>1
      <3>5. QED
        BY <3>1, <3>2, <3>3, <3>4
    <2>7. p + 1 \in 1 .. (n - 1) + 1 /\ (n - p) - 1 = ((n - 1) - (p + 1)) + 1
      BY <1>1, <2>1
    <2>8. LoopAt(s, p + 1, u, tmp, At(s, (p + 1) + 1))
      BY <1>4, <2>2, <2>5, <2>6, <2>7 DEF LoopAt
    <2>9. QED
      BY <1>8, <2>8 DEF s, t, u
  <1>9. QED
    BY <1>7, <1>8

\* The pointer to the next element is read from a table in order.
LEMMA NextReads ==
  ASSUME NEW h, NEW l, Keeps(h, l), NEW r \in 1 .. Len(l) + 1
  PROVE  (IF At(l, r) = NULL THEN NULL ELSE h.next[At(l, r)]) = At(l, r + 1)
  <1>1. l \in Seq(Elements) /\ Len(l) \in Nat
    BY KeepsIs
  <1>2. CASE r = Len(l) + 1
    BY <1>1, <1>2 DEF At
  <1>3. CASE r # Len(l) + 1
    <2>1. r \in 1 .. Len(l) /\ l # <<>>
      BY <1>1, <1>3
    <2>2. Ordered(h, l)
      BY <2>1, KeepsIs DEF IsFull
    <2>3. h.next[l[r]] = At(l, r + 1) /\ l[r] \in Elements
      BY <2>1, <2>2, BesideIs
    <2>4. QED
      BY <2>1, <2>3 DEF At
  <1>4. QED
    BY <1>2, <1>3

\* The invariant: the table has an order, which its handles, its chains, its
\* tail and a loop over it agree on; so has the table of HASH_SELECT, but for
\* the tail, which the macro leaves at the first element.
OnLoop(l) ==
  \/ iter = NoLoop
  \/ iter.on = TRUE /\ \E p : LoopAt(l, p, iter.todo, iter.el, iter.tmp)

TableIs(l) == Keeps(ht, l) /\ TailIs(ht, l) /\ OnLoop(l)

HashInv ==
  /\ hashv \in [Elements -> Nat]
  /\ \E l : TableIs(l)
  /\ \E l : Keeps(dst, l)

\* The hash function stays.
LEMMA KeepsNext ==
  ASSUME hashv' = hashv, NEW l
  PROVE  /\ Keeps(ht', l) => Keeps(ht, l)'
         /\ Keeps(dst', l) => Keeps(dst, l)'
  <1>1. ASSUME NEW c, NEW m
        PROVE  /\ Holds(ht', c, m) => Holds(ht, c, m)'
               /\ Holds(dst', c, m) => Holds(dst, c, m)'
    BY DEF Holds, To_bkt
  <1>2. ASSUME IsFull(ht', l) PROVE IsFull(ht, l)'
    <2>1. PICK c : Holds(ht', c, ToSet(l))
      BY <1>2 DEF IsFull
    <2>2. Holds(ht, c, ToSet(l))'
      BY <1>1, <2>1
    <2>3. QED
      BY <1>2, <2>2 DEF IsFull
  <1>3. ASSUME IsFull(dst', l) PROVE IsFull(dst, l)'
    <2>1. PICK c : Holds(dst', c, ToSet(l))
      BY <1>3 DEF IsFull
    <2>2. Holds(dst, c, ToSet(l))'
      BY <1>1, <2>1
    <2>3. QED
      BY <1>3, <2>2 DEF IsFull
  <1>4. QED
    BY <1>2, <1>3 DEF Keeps

\* A step that leaves the loop alone while none is under way.
LEMMA IdleStep ==
  ASSUME HashInv, Idle, hashv' = hashv, iter' = iter, NEW l, Keeps(ht', l), TailIs(ht', l),
         NEW d, Keeps(dst', d)
  PROVE  HashInv'
  <1>1. iter = NoLoop
    BY DEF HashInv, TableIs, OnLoop, Idle
  <1>2. OnLoop(l)'
    BY <1>1 DEF OnLoop, NoLoop
  <1>3. Keeps(ht, l)' /\ Keeps(dst, d)'
    BY KeepsNext
  <1>4. TailIs(ht, l)'
    BY DEF TailIs
  <1>5. hashv' \in [Elements -> Nat]
    BY DEF HashInv
  <1>6. QED
    BY <1>2, <1>3, <1>4, <1>5 DEF HashInv, TableIs

\* A program begins with empty tables.
LEMMA HashInitInv == HashInit => HashInv
  <1> SUFFICES ASSUME HashInit PROVE HashInv
    OBVIOUS
  <1>1. hashv \in [Elements -> Nat] /\ ht = Empty /\ dst = Empty /\ iter = NoLoop
    BY DEF HashInit
  <1>2. TableIs(<<>>) /\ Keeps(dst, <<>>)
    BY <1>1 DEF TableIs, Keeps, TailIs, OnLoop
  <1>3. QED
    BY <1>1, <1>2 DEF HashInv

\* What a step does to the application order: what the ordered set allows.
Goes ==
  \/ OrderOf!AddLast \/ OrderOf!RemoveOne \/ OrderOf!RemoveAll \/ OrderOf!Reorder
  \/ AppOrder(ht)' = AppOrder(ht)

\* The order before and after a step.
LEMMA OrderGoes ==
  ASSUME NEW l, Keeps(ht, l), NEW s, Keeps(ht', s)
  PROVE  /\ AppOrder(ht) = l /\ AppOrder(ht)' = s
         /\ l = s => Goes
         /\ s = <<>> => Goes
         /\ \A e \in Elements : ~ In(e, l) /\ s = Append(l, e) => Goes
         /\ \A p \in 1 .. Len(l) : s = RemoveAt(l, p) => Goes
         /\ \A rank \in Ranks : IsStableSort(rank, l, s) => Goes
  <1>1. AppOrder(ht) = l /\ l \in Seq(Elements)
    BY KeepsIs
  <1>2. AppOrder(ht') = s
    BY KeepsIs
  <1>3. AppOrder(ht)' = s
    BY <1>2 DEF AppOrder
  <1>4. l = s => Goes
    BY <1>1, <1>3 DEF Goes
  <1>5. s = <<>> => Goes
    BY <1>3 DEF Goes, OrderOf!RemoveAll
  <1>6. ASSUME NEW e \in Elements, ~ In(e, l), s = Append(l, e) PROVE Goes
    <2>1. e \in Elements \ {l[k] : k \in DOMAIN l}
      BY <1>1, <1>6 DEF In
    <2>2. OrderOf!AddLast
      BY <1>1, <1>3, <1>6, <2>1 DEF OrderOf!AddLast
    <2>3. QED
      BY <2>2 DEF Goes
  <1>7. ASSUME NEW p \in 1 .. Len(l), s = RemoveAt(l, p) PROVE Goes
    <2>1. p \in DOMAIN l
      BY <1>1
    <2>2. OrderOf!RemoveOne
      BY <1>1, <1>3, <1>7, <2>1 DEF OrderOf!RemoveOne, OrderOf!RemoveAt, RemoveAt
    <2>3. QED
      BY <2>2 DEF Goes
  <1>8. ASSUME NEW rank \in Ranks, IsStableSort(rank, l, s) PROVE Goes
    <2>1. OrderOf!IsStableSort(rank, l, s)
      BY <1>8 DEF OrderOf!IsStableSort, IsStableSort
    <2>2. OrderOf!Reorder
      BY <1>1, <1>3, <2>1 DEF OrderOf!Reorder
    <2>3. QED
      BY <2>2 DEF Goes
  <1>9. QED
    BY <1>1, <1>3, <1>4, <1>5, <1>6, <1>7, <1>8

\* HASH_ADD.
LEMMA AddStep == ASSUME HashInv, NEW e \in Elements, Add(e) PROVE HashInv' /\ Goes
  <1>1. PICK l : TableIs(l)
    BY DEF HashInv
  <1>2. PICK d : Keeps(dst, d)
    BY DEF HashInv
  <1>3. /\ Idle /\ Hash_find(ht, e) = NULL /\ ht' = Hash_add(ht, e)
        /\ hashv' = hashv /\ dst' = dst /\ iter' = iter /\ hashv \in [Elements -> Nat]
    BY DEF Add, HashInv
  <1>4. Keeps(ht, l) /\ TailIs(ht, l)
    BY <1>1 DEF TableIs
  <1>5. ~ In(e, l)
    BY <1>3, <1>4, FindIs
  <1>6. Keeps(ht', Append(l, e)) /\ TailIs(ht', Append(l, e))
    BY <1>3, <1>4, <1>5, AddIs
  <1>7. Keeps(dst', d)
    BY <1>2, <1>3
  <1>8. HashInv'
    BY <1>3, <1>6, <1>7, IdleStep
  <1>9. Goes
    BY <1>4, <1>5, <1>6, OrderGoes
  <1>10. QED
    BY <1>8, <1>9

\* An element that is taken out of a table that has it.
LEMMA TakeOut ==
  ASSUME hashv \in [Elements -> Nat], NEW h, NEW l, Keeps(h, l), NEW e, In(e, l)
  PROVE  \E p \in 1 .. Len(l) :
           /\ l[p] = e /\ Keeps(Hash_delete(h, e), RemoveAt(l, p))
           /\ TailIs(h, l) => TailIs(Hash_delete(h, e), RemoveAt(l, p))
  <1>1. PICK p \in 1 .. Len(l) : l[p] = e
    BY DEF In
  <1>2. l # <<>>
    BY <1>1
  <1>3. IsFull(h, l)
    BY <1>2, KeepsIs
  <1>4. QED
    BY <1>1, <1>3, DeleteIs

\* HASH_DELETE, of the other table too.
LEMMA DeleteStep == ASSUME HashInv, NEW e \in Elements, Delete(e) PROVE HashInv' /\ Goes
  <1>1. PICK l : TableIs(l)
    BY DEF HashInv
  <1>2. PICK d : Keeps(dst, d)
    BY DEF HashInv
  <1>3. /\ Idle /\ Hash_find(ht, e) = e /\ ht' = Hash_delete(ht, e)
        /\ dst' = IF Hash_find(dst, e) = e THEN Hash_delete(dst, e) ELSE dst
        /\ hashv' = hashv /\ iter' = iter /\ hashv \in [Elements -> Nat] /\ e # NULL
    BY DEF Delete, HashInv
  <1>4. Keeps(ht, l) /\ TailIs(ht, l)
    BY <1>1 DEF TableIs
  <1>5. In(e, l)
    BY <1>3, <1>4, FindIs
  <1>6. PICK p \in 1 .. Len(l) : Keeps(ht', RemoveAt(l, p)) /\ TailIs(ht', RemoveAt(l, p))
    BY <1>3, <1>4, <1>5, TakeOut
  <1>7. PICK s : Keeps(dst', s)
    <2>1. CASE In(e, d)
      <3>1. Hash_find(dst, e) = e
        BY <1>2, <1>3, <2>1, FindIs
      <3>2. \E q : Keeps(Hash_delete(dst, e), RemoveAt(d, q))
        BY <1>2, <1>3, <2>1, TakeOut
      <3>3. QED
        BY <1>3, <3>1, <3>2
    <2>2. CASE ~ In(e, d)
      <3>1. Hash_find(dst, e) # e
        BY <1>2, <1>3, <2>2, FindIs
      <3>2. QED
        BY <1>2, <1>3, <3>1
    <2>3. QED
      BY <2>1, <2>2
  <1>8. HashInv'
    BY <1>3, <1>6, <1>7, IdleStep
  <1>9. Goes
    BY <1>4, <1>6, OrderGoes
  <1>10. QED
    BY <1>8, <1>9

\* HASH_SRT.
LEMMA SortStep == ASSUME HashInv, NEW rank \in Ranks, Sort(rank) PROVE HashInv' /\ Goes
  <1>1. PICK l : TableIs(l)
    BY DEF HashInv
  <1>2. PICK d : Keeps(dst, d)
    BY DEF HashInv
  <1>3. /\ Idle /\ ht' = Hash_srt(ht, rank) /\ rank \in [Elements -> Int]
        /\ hashv' = hashv /\ dst' = dst /\ iter' = iter
    BY DEF Sort
  <1>4. Keeps(ht, l) /\ TailIs(ht, l)
    BY <1>1 DEF TableIs
  <1>5. PICK s : /\ Keeps(ht', s) /\ TailIs(ht', s)
                 /\ (l = <<>> /\ s = <<>>) \/ IsStableSort(rank, l, s)
    BY <1>3, <1>4, SrtIs
  <1>6. Keeps(dst', d)
    BY <1>2, <1>3
  <1>7. HashInv'
    BY <1>3, <1>5, <1>6, IdleStep
  <1>8. Goes
    BY <1>4, <1>5, OrderGoes
  <1>9. QED
    BY <1>7, <1>8

\* HASH_CLEAR.
LEMMA ClearStep == ASSUME HashInv, Clear PROVE HashInv' /\ Goes
  <1>1. PICK l : TableIs(l)
    BY DEF HashInv
  <1>2. Idle /\ ht' = Empty /\ dst' = Empty /\ hashv' = hashv /\ iter' = iter
    BY DEF Clear
  <1>3. Keeps(ht', <<>>) /\ TailIs(ht', <<>>) /\ Keeps(dst', <<>>)
    BY <1>2 DEF Keeps, TailIs
  <1>4. HashInv'
    BY <1>2, <1>3, IdleStep
  <1>5. Keeps(ht, l)
    BY <1>1 DEF TableIs
  <1>6. Goes
    BY <1>3, <1>5, OrderGoes
  <1>7. QED
    BY <1>4, <1>6

\* HASH_SELECT fills the other table.
LEMMA SelectStep ==
  ASSUME HashInv, NEW chosen \in SUBSET Elements, Select(chosen)
  PROVE  HashInv' /\ Goes
  <1>1. PICK l : TableIs(l)
    BY DEF HashInv
  <1>2. /\ Idle /\ dst' = Hash_select(ht, chosen)
        /\ hashv' = hashv /\ ht' = ht /\ iter' = iter /\ hashv \in [Elements -> Nat]
    BY DEF Select, HashInv
  <1>3. Keeps(ht, l) /\ TailIs(ht, l)
    BY <1>1 DEF TableIs
  <1>4. PICK d : Keeps(dst', d)
    BY <1>2, <1>3, SelectIs
  <1>5. Keeps(ht', l) /\ TailIs(ht', l)
    BY <1>2, <1>3
  <1>6. HashInv'
    BY <1>2, <1>4, <1>5, IdleStep
  <1>7. Goes
    BY <1>3, <1>5, OrderGoes
  <1>8. QED
    BY <1>6, <1>7

\* HASH_ITER starts at the head.
LEMMA BeginStep == ASSUME HashInv, Begin_iter PROVE HashInv' /\ Goes
  <1>1. PICK l : TableIs(l)
    BY DEF HashInv
  <1>2. PICK d : Keeps(dst, d)
    BY DEF HashInv
  <1>3. /\ hashv' = hashv /\ ht' = ht /\ dst' = dst /\ hashv \in [Elements -> Nat]
        /\ iter'.on = TRUE /\ iter'.el = ht.head /\ iter'.todo = AppOrder(ht)
        /\ iter'.tmp = IF ht.head = NULL THEN NULL ELSE ht.next[ht.head]
    BY DEF Begin_iter, HashInv
  <1>4. Keeps(ht, l) /\ TailIs(ht, l)
    BY <1>1 DEF TableIs
  <1>5. l \in Seq(Elements) /\ Len(l) \in Nat /\ AppOrder(ht) = l /\ (ht.head = NULL <=> l = <<>>)
    BY <1>4, KeepsIs
  <1>6. ht.head = At(l, 1)
    <2>1. CASE l = <<>>
      BY <1>5, <2>1 DEF At
    <2>2. CASE l # <<>>
      <3>1. ht.head = l[1]
        BY <1>4, <2>2, KeepsIs, OrderedIs DEF IsFull
      <3>2. 1 \in 1 .. Len(l)
        BY <1>5, <2>2
      <3>3. QED
        BY <3>1, <3>2 DEF At
    <2>3. QED
      BY <2>1, <2>2
  <1>7. 1 \in 1 .. Len(l) + 1 /\ Len(l) = (Len(l) - 1) + 1 /\ \A k \in 1 .. Len(l) : (1 + k) - 1 = k
    BY <1>5
  <1>8. iter'.tmp = At(l, 1 + 1)
    BY <1>3, <1>4, <1>6, <1>7, NextReads
  <1>9. LoopAt(l, 1, iter'.todo, iter'.el, iter'.tmp)
    BY <1>3, <1>5, <1>6, <1>7, <1>8 DEF LoopAt
  <1>10. OnLoop(l)'
    <2>1. LoopAt(l, 1, iter.todo, iter.el, iter.tmp)'
      BY <1>9 DEF LoopAt
    <2>2. QED
      BY <1>3, <2>1 DEF OnLoop
  <1>11. Keeps(ht', l) /\ Keeps(dst', d)
    BY <1>2, <1>3, <1>4
  <1>12. Keeps(ht, l)' /\ Keeps(dst, d)'
    BY <1>3, <1>11, KeepsNext
  <1>13. TailIs(ht, l)'
    BY <1>3, <1>4 DEF TailIs
  <1>14. HashInv'
    BY <1>3, <1>10, <1>12, <1>13 DEF HashInv, TableIs
  <1>15. Goes
    BY <1>4, <1>11, OrderGoes
  <1>16. QED
    BY <1>14, <1>15

\* HASH_ITER ends.
LEMMA EndStep == ASSUME HashInv, End_iter PROVE HashInv' /\ Goes
  <1>1. PICK l : TableIs(l)
    BY DEF HashInv
  <1>2. PICK d : Keeps(dst, d)
    BY DEF HashInv
  <1>3. hashv' = hashv /\ ht' = ht /\ dst' = dst /\ iter' = NoLoop
    BY DEF End_iter
  <1>4. Keeps(ht', l) /\ Keeps(dst', d) /\ Keeps(ht, l)
    BY <1>1, <1>2, <1>3 DEF TableIs
  <1>5. Keeps(ht, l)' /\ Keeps(dst, d)'
    BY <1>3, <1>4, KeepsNext
  <1>6. TailIs(ht, l)' /\ OnLoop(l)'
    BY <1>1, <1>3 DEF TableIs, TailIs, OnLoop, NoLoop
  <1>7. HashInv'
    BY <1>3, <1>5, <1>6 DEF HashInv, TableIs
  <1>8. Goes
    BY <1>4, OrderGoes
  <1>9. QED
    BY <1>7, <1>8

\* The element and the next one, read from the table after the deletion.
LEMMA IterateStep ==
  ASSUME HashInv, NEW gone \in Elements \cup {NULL}, Iterate(gone)
  PROVE  HashInv' /\ Goes
  <1>1. PICK l : TableIs(l)
    BY DEF HashInv
  <1>2. PICK d : Keeps(dst, d)
    BY DEF HashInv
  <1> DEFINE el == iter.el
             tmp == iter.tmp
             todo == iter.todo
             h == IF gone = NULL THEN ht ELSE Hash_delete(ht, gone)
             t == Without(Tail(todo), gone)
  <1>3. /\ iter.on = TRUE \/ iter = NoLoop
        /\ iter.on /\ el # NULL /\ gone \in (Items(ht) \ {tmp}) \cup {NULL}
        /\ hashv' = hashv /\ hashv \in [Elements -> Nat] /\ ht' = h
        /\ iter' = [on |-> TRUE, el |-> Next_el(h).el, tmp |-> Next_el(h).tmp, todo |-> t]
        /\ dst' = IF gone \in Items(dst) THEN Hash_delete(dst, gone) ELSE dst
    BY <1>1 DEF Iterate, HashInv, TableIs, OnLoop
  <1>4. /\ iter'.on = TRUE /\ iter'.el = tmp /\ iter'.todo = t
        /\ iter'.tmp = IF tmp = NULL THEN NULL ELSE h.next[tmp]
    BY <1>3 DEF Next_el
  <1>5. Keeps(ht, l) /\ TailIs(ht, l)
    BY <1>1 DEF TableIs
  <1>6. /\ l \in Seq(Elements) /\ Distinct(l) /\ Len(l) \in Nat
        /\ \A x : In(x, l) <=> x \in Items(ht)
    BY <1>5, KeepsIs
  <1>7. PICK p : LoopAt(l, p, todo, el, tmp)
    BY <1>1, <1>3 DEF TableIs, OnLoop, NoLoop
  <1>8. p \in 1 .. Len(l)
    BY <1>3, <1>6, <1>7, LoopSays
  <1>9. /\ \A x : In(x, d) <=> x \in Items(dst)
    BY <1>2, KeepsIs
  <1>10. PICK e : Keeps(dst', e)
    <2>1. CASE gone \in Items(dst)
      <3>1. \E q : Keeps(Hash_delete(dst, gone), RemoveAt(d, q))
        BY <1>2, <1>3, <1>9, <2>1, TakeOut
      <3>2. QED
        BY <1>3, <2>1, <3>1
    <2>2. CASE gone \notin Items(dst)
      BY <1>2, <1>3, <2>2
    <2>3. QED
      BY <2>1, <2>2
  <1> HIDE DEF h, t, el, tmp, todo
  <1>11. \E s, r : /\ Keeps(h, s) /\ TailIs(h, s) /\ r \in 1 .. Len(s) + 1
                   /\ LoopAt(s, r, t, tmp, At(s, r + 1)) /\ tmp = At(s, r)
                   /\ s = l \/ \E q \in 1 .. Len(l) : s = RemoveAt(l, q)
    <2>1. CASE gone = NULL
      <3>1. h = ht
        BY <2>1 DEF h
      <3>2. LoopAt(l, p + 1, Tail(todo), tmp, At(l, p + 2))
        BY <1>3, <1>6, <1>7, LoopGoes
      <3>3. p + 2 = (p + 1) + 1
        BY <1>8
      <3>4. t = Tail(todo)
        <4>1. Tail(todo) \in Seq(Elements)
          BY <3>2 DEF LoopAt
        <4>2. gone \notin ToSet(Tail(todo))
          <5> DEFINE u == Tail(todo)
          <5> HIDE DEF u
          <5>1. u \in Seq(Elements)
            BY <4>1 DEF u
          <5>2. ToSet(u) \subseteq Elements
            BY <5>1 DEF ToSet
          <5>3. QED
            BY <2>1, <5>2 DEF u
        <4>3. QED
          BY <4>2 DEF t, Without
      <3>5. /\ LoopAt(l, p + 1, t, tmp, At(l, (p + 1) + 1))
        BY <3>2, <3>3, <3>4
      <3>6. p + 1 \in 1 .. Len(l) + 1 /\ tmp = At(l, p + 1)
        BY <3>5 DEF LoopAt
      <3>7. QED
        BY <1>5, <3>1, <3>5, <3>6
    <2>2. CASE gone # NULL
      <3>1. In(gone, l) /\ gone # tmp
        BY <1>3, <1>6, <2>2 DEF tmp
      <3>2. PICK q \in 1 .. Len(l) :
              /\ l[q] = gone /\ Keeps(Hash_delete(ht, gone), RemoveAt(l, q))
              /\ TailIs(ht, l) => TailIs(Hash_delete(ht, gone), RemoveAt(l, q))
        BY <1>3, <1>5, <3>1, TakeOut
      <3>3. h = Hash_delete(ht, gone)
        BY <2>2 DEF h
      <3> DEFINE s == RemoveAt(l, q)
                 r == IF q <= p THEN p ELSE p + 1
      <3>4. LoopAt(s, r, Without(Tail(todo), l[q]), tmp, At(s, r + 1))
        BY <1>3, <1>6, <1>7, <3>1, <3>2, LoopDrops
      <3>5. LoopAt(s, r, t, tmp, At(s, r + 1))
        BY <3>2, <3>4 DEF t
      <3>6. r \in 1 .. Len(s) + 1 /\ tmp = At(s, r)
        BY <3>5 DEF LoopAt
      <3>7. Keeps(h, s) /\ TailIs(h, s)
        BY <1>5, <3>2, <3>3
      <3>8. QED
        BY <3>5, <3>6, <3>7
    <2>3. QED
      BY <2>1, <2>2
  <1>12. PICK s, r : /\ Keeps(h, s) /\ TailIs(h, s) /\ r \in 1 .. Len(s) + 1
                     /\ LoopAt(s, r, t, tmp, At(s, r + 1)) /\ tmp = At(s, r)
                     /\ s = l \/ \E q \in 1 .. Len(l) : s = RemoveAt(l, q)
    BY <1>11
  <1>13. iter'.tmp = At(s, r + 1)
    <2>1. (IF At(s, r) = NULL THEN NULL ELSE h.next[At(s, r)]) = At(s, r + 1)
      BY <1>12, NextReads
    <2>2. QED
      BY <1>4, <1>12, <2>1 DEF tmp, h
  <1>14. ht' = h /\ iter'.on = TRUE /\ iter'.el = tmp /\ iter'.todo = t
    BY <1>3, <1>4 DEF h, t, tmp
  <1>15. OnLoop(s)'
    <2>1. LoopAt(s, r, iter'.todo, iter'.el, iter'.tmp)
      BY <1>12, <1>13, <1>14
    <2>2. LoopAt(s, r, iter.todo, iter.el, iter.tmp)'
      BY <2>1 DEF LoopAt
    <2>3. QED
      BY <1>14, <2>2 DEF OnLoop
  <1>16. Keeps(ht', s) /\ TailIs(ht', s)
    BY <1>12, <1>14
  <1>17. Keeps(ht, s)' /\ Keeps(dst, e)'
    BY <1>3, <1>10, <1>16, KeepsNext
  <1>18. TailIs(ht, s)'
    BY <1>16 DEF TailIs
  <1>19. HashInv'
    BY <1>3, <1>15, <1>17, <1>18 DEF HashInv, TableIs
  <1>20. Goes
    BY <1>5, <1>12, <1>16, OrderGoes
  <1>21. QED
    BY <1>19, <1>20

\* Every operation keeps the invariant, and does to the order what the
\* ordered set allows.
LEMMA HashStep == HashInv /\ [HashNext]_hashVars => HashInv' /\ [Goes]_(AppOrder(ht))
  <1> SUFFICES ASSUME HashInv, [HashNext]_hashVars PROVE HashInv' /\ Goes
    BY DEF Goes
  <1>1. ASSUME NEW e \in Elements, Add(e) PROVE HashInv' /\ Goes
    BY <1>1, AddStep
  <1>2. ASSUME NEW e \in Elements, Delete(e) PROVE HashInv' /\ Goes
    BY <1>2, DeleteStep
  <1>3. ASSUME NEW rank \in Ranks, Sort(rank) PROVE HashInv' /\ Goes
    BY <1>3, SortStep
  <1>4. ASSUME NEW chosen \in SUBSET Elements, Select(chosen) PROVE HashInv' /\ Goes
    BY <1>4, SelectStep
  <1>5. ASSUME NEW gone \in Elements \cup {NULL}, Iterate(gone) PROVE HashInv' /\ Goes
    BY <1>5, IterateStep
  <1>6. CASE Clear
    BY <1>6, ClearStep
  <1>7. CASE Begin_iter
    BY <1>7, BeginStep
  <1>8. CASE End_iter
    BY <1>8, EndStep
  <1>9. CASE UNCHANGED hashVars
    <2>1. hashv' = hashv /\ ht' = ht /\ dst' = dst /\ iter' = iter
      BY <1>9 DEF hashVars
    <2>2. PICK l, d : TableIs(l) /\ Keeps(dst, d) /\ hashv \in [Elements -> Nat]
      BY DEF HashInv
    <2>3. Keeps(ht', l) /\ Keeps(dst', d) /\ Keeps(ht, l)
      BY <2>1, <2>2 DEF TableIs
    <2>4. Keeps(ht, l)' /\ Keeps(dst, d)'
      BY <2>1, <2>3, KeepsNext
    <2>5. TailIs(ht, l)' /\ OnLoop(l)'
      <3>1. TailIs(ht, l)'
        BY <2>1, <2>2 DEF TableIs, TailIs
      <3>2. OnLoop(l)'
        BY <2>1, <2>2 DEF TableIs, OnLoop, LoopAt, NoLoop
      <3>3. QED
        BY <3>1, <3>2
    <2>6. HashInv'
      BY <2>1, <2>2, <2>4, <2>5 DEF HashInv, TableIs
    <2>7. Goes
      BY <2>3, OrderGoes
    <2>8. QED
      BY <2>6, <2>7
  <1>10. QED
    BY <1>1, <1>2, <1>3, <1>4, <1>5, <1>6, <1>7, <1>8, <1>9 DEF HashNext

\* The invariant holds always.
LEMMA HashInvHolds == HashSpec => []HashInv
  BY HashInitInv, HashStep, PTL DEF HashSpec

\* What the invariant says of the properties.
LEMMA HashInvShows == HashInv => HashTypeOK /\ FindIsExact /\ IterationIsExact
  <1> SUFFICES ASSUME HashInv PROVE HashTypeOK /\ FindIsExact /\ IterationIsExact
    OBVIOUS
  <1>1. PICK l, d : TableIs(l) /\ Keeps(dst, d) /\ hashv \in [Elements -> Nat]
    BY DEF HashInv
  <1>2. Keeps(ht, l) /\ Keeps(dst, d) /\ OnLoop(l)
    BY <1>1 DEF TableIs
  <1>3. l \in Seq(Elements)
    BY <1>2, KeepsIs
  <1>4. iter = NoLoop \/ \E p : LoopAt(l, p, iter.todo, iter.el, iter.tmp)
    BY <1>2 DEF OnLoop
  <1>5. HashTypeOK
    <2>1. iter.el \in Elements \cup {NULL} /\ iter.tmp \in Elements \cup {NULL}
      <3>1. CASE iter = NoLoop
        BY <3>1 DEF NoLoop
      <3>2. CASE \E p : LoopAt(l, p, iter.todo, iter.el, iter.tmp)
        BY <1>3, <3>2, LoopSays
      <3>3. QED
        BY <1>4, <3>1, <3>2
    <2>2. ASSUME NEW h \in {ht, dst}
          PROVE  /\ h.head \in Elements \cup {NULL}
                 /\ {h.next, h.prev, h.hh_next, h.hh_prev} \subseteq HandlePointers
                 /\ h.head # NULL => DOMAIN h.tbl.buckets = 0 .. h.tbl.num_buckets - 1
                 /\ Fsck(h)
      <3>1. PICK s : Keeps(h, s)
        BY <1>2, <2>2
      <3>2. QED
        BY <1>1, <3>1, FsckIs
    <2>3. QED
      BY <2>1, <2>2 DEF HashTypeOK
  <1>6. FindIsExact
    <2>1. SUFFICES ASSUME NEW h \in {ht, dst}, NEW e \in Elements
                   PROVE  Hash_find(h, e) = IF e \in Items(h) THEN e ELSE NULL
      BY DEF FindIsExact
    <2>2. PICK s : Keeps(h, s)
      BY <1>2, <2>1
    <2>3. Hash_find(h, e) = IF In(e, s) THEN e ELSE NULL
      BY <1>1, <2>2, FindIs
    <2>4. In(e, s) <=> e \in Items(h)
      BY <2>2, KeepsIs
    <2>5. QED
      BY <2>3, <2>4
  <1>7. IterationIsExact
    <2>1. CASE iter = NoLoop
      BY <2>1 DEF IterationIsExact, NoLoop
    <2>2. CASE \E p : LoopAt(l, p, iter.todo, iter.el, iter.tmp)
      BY <1>3, <2>2, LoopSays DEF IterationIsExact
    <2>3. QED
      BY <1>4, <2>1, <2>2
  <1>8. QED
    BY <1>5, <1>6, <1>7

\* HASH_FSCK finds nothing wrong with the table or with the one that
\* HASH_SELECT filled: the two lists through every element are well linked, and
\* the counts are right, after any additions, deletions, doublings, sorts and
\* selections, for every hash function and number of buckets.
THEOREM HashIsSound == HashSpec => []HashTypeOK
  BY HashInvHolds, HashInvShows, PTL

\* HASH_FIND finds an element if and only if it is in the table, for every
\* hash function and however often the buckets were doubled.
THEOREM FindFindsAll == HashSpec => []FindIsExact
  BY HashInvHolds, HashInvShows, PTL

\* HASH_ITER visits every element that was there when the loop began and was
\* not deleted first, in order, though the body may delete the element it is
\* at, as rt_dtask_dispose does, or any other but the next.
THEOREM IterationVisitsAll == HashSpec => []IterationIsExact
  BY HashInvHolds, HashInvShows, PTL

\* The hash table implements a set that remembers its order: HASH_ADD appends,
\* HASH_DELETE removes one element, HASH_SRT sorts stably, HASH_CLEAR removes
\* all, and doubling the buckets cannot be seen.
THEOREM HashIsOrderedSet == HashSpec => KeepsOrder
  <1>1. HashInit => AppOrder(ht) = <<>>
    BY EmptyIs DEF HashInit
  <1>2. [Goes]_(AppOrder(ht)) <=>
          [OrderOf!AddLast \/ OrderOf!RemoveOne \/ OrderOf!RemoveAll \/ OrderOf!Reorder]_(AppOrder(ht))
    BY DEF Goes
  <1>3. QED
    BY <1>1, <1>2, HashInvHolds, HashStep, PTL DEF HashSpec, KeepsOrder, OrderOf!Spec

-----------------------------------------------------------------------------
(* The bound on the chains.                                                *)

\* The table under use has room, and the one of HASH_SELECT is not too full.
RoomInv ==
  /\ thresh \in Thresholds
  /\ ht.head # NULL => HasRoom(ht)
  /\ dst.head # NULL => Fits(dst)

\* The threshold stays.
LEMMA RoomNext ==
  ASSUME RoomInv, thresh' = thresh, ht'.head # NULL => HasRoom(ht'),
         dst'.head # NULL => Fits(dst')
  PROVE  RoomInv'
  <1>1. HasRoom(ht') => HasRoom(ht)'
    BY DEF HasRoom, HasNumbers, Counted, CountsOf, MultsOf, Roomy, Total
  <1>2. Fits(dst') => Fits(dst)'
    BY DEF Fits, HasNumbers, CountsOf, MultsOf
  <1>3. QED
    BY <1>1, <1>2 DEF RoomInv

LEMMA DeletedRoom ==
  ASSUME hashv \in [Elements -> Nat], thresh \in Nat, NEW h, NEW l, Keeps(h, l), NEW e, In(e, l)
  PROVE  /\ Hash_delete(h, e).head # NULL => KeepsRoom(h, Hash_delete(h, e))
         /\ h.head # NULL
  <1>1. l # <<>>
    BY DEF In
  <1>2. IsFull(h, l) /\ h.head # NULL
    BY <1>1, KeepsIs
  <1>3. Hash_delete(h, e) = Empty \/ KeepsRoom(h, Hash_delete(h, e))
    BY <1>2, DeleteRoom
  <1>4. QED
    BY <1>2, <1>3, EmptyIs

LEMMA RoomAdd ==
  ASSUME HashInv, RoomInv, NEW e \in Elements, Add(e)
  PROVE  RoomInv'
  <1>1. PICK l : Keeps(ht, l) /\ TailIs(ht, l)
    BY DEF HashInv, TableIs
  <1>2. /\ Hash_find(ht, e) = NULL /\ ht' = Hash_add(ht, e)
        /\ dst' = dst /\ thresh' = thresh /\ hashv \in [Elements -> Nat]
        /\ thresh \in Nat \ {0}
    BY DEF Add, HashInv, RoomInv
  <1>3. ~ In(e, l)
    BY <1>1, <1>2, FindIs
  <1>4. l # <<>> => HasRoom(ht)
    BY <1>1, KeepsIs DEF RoomInv
  <1>5. HasRoom(ht')
    BY <1>1, <1>2, <1>3, <1>4, AddRoom
  <1>6. QED
    BY <1>2, <1>5, RoomNext DEF RoomInv

LEMMA RoomDelete ==
  ASSUME HashInv, RoomInv, NEW e \in Elements, Delete(e)
  PROVE  RoomInv'
  <1>1. PICK l : Keeps(ht, l)
    BY DEF HashInv, TableIs
  <1>2. PICK d : Keeps(dst, d)
    BY DEF HashInv
  <1>3. /\ Hash_find(ht, e) = e /\ ht' = Hash_delete(ht, e)
        /\ dst' = IF Hash_find(dst, e) = e THEN Hash_delete(dst, e) ELSE dst
        /\ thresh' = thresh /\ hashv \in [Elements -> Nat] /\ thresh \in Nat /\ e # NULL
    BY DEF Delete, HashInv, RoomInv
  <1>4. In(e, l)
    BY <1>1, <1>3, FindIs
  <1>5. ASSUME ht'.head # NULL PROVE HasRoom(ht')
    <2>1. KeepsRoom(ht, ht') /\ ht.head # NULL
      BY <1>1, <1>3, <1>4, <1>5, DeletedRoom
    <2>2. QED
      BY <2>1 DEF KeepsRoom, RoomInv
  <1>6. ASSUME dst'.head # NULL PROVE Fits(dst')
    <2>1. CASE Hash_find(dst, e) = e
      <3>1. In(e, d)
        BY <1>2, <1>3, <2>1, FindIs
      <3>2. dst' = Hash_delete(dst, e)
        BY <1>3, <2>1
      <3>3. KeepsRoom(dst, dst') /\ dst.head # NULL
        BY <1>2, <1>3, <1>6, <3>1, <3>2, DeletedRoom
      <3>4. QED
        BY <3>3 DEF KeepsRoom, RoomInv
    <2>2. CASE Hash_find(dst, e) # e
      BY <1>3, <1>6, <2>2 DEF RoomInv
    <2>3. QED
      BY <2>1, <2>2
  <1>7. QED
    BY <1>3, <1>5, <1>6, RoomNext

LEMMA RoomSort ==
  ASSUME HashInv, RoomInv, NEW rank \in Ranks, Sort(rank)
  PROVE  RoomInv'
  <1>1. PICK l : Keeps(ht, l) /\ TailIs(ht, l)
    BY DEF HashInv, TableIs
  <1>2. /\ ht' = Hash_srt(ht, rank) /\ rank \in [Elements -> Int]
        /\ dst' = dst /\ thresh' = thresh
    BY DEF Sort
  <1>3. KeepsRoom(ht, ht')
    BY <1>1, <1>2, SortRoom
  <1>4. ASSUME ht'.head # NULL PROVE HasRoom(ht')
    <2>1. ht.head # NULL
      <3>1. ht.head = NULL => ht' = ht
        BY <1>2 DEF Hash_srt
      <3>2. QED
        BY <1>4, <3>1
    <2>2. QED
      BY <1>3, <2>1 DEF KeepsRoom, RoomInv
  <1>5. QED
    BY <1>2, <1>4, RoomNext DEF RoomInv

LEMMA RoomSelect ==
  ASSUME \A t \in Thresholds : t <= 2 * InitialBuckets,
         HashInv, RoomInv, NEW chosen \in SUBSET Elements, Select(chosen)
  PROVE  RoomInv'
  <1>1. PICK l : Keeps(ht, l)
    BY DEF HashInv, TableIs
  <1>2. /\ dst' = Hash_select(ht, chosen) /\ ht' = ht /\ thresh' = thresh
        /\ hashv \in [Elements -> Nat] /\ thresh > 1 /\ thresh \in Nat
    BY DEF Select, HashInv, RoomInv
  <1>3. Enough
    BY <1>2 DEF RoomInv, Enough
  <1>4. SelectRoom(dst')
    BY <1>1, <1>2, <1>3, SelectIs
  <1>5. ASSUME dst'.head # NULL PROVE Fits(dst')
    BY <1>4, <1>5, LateFits DEF SelectRoom
  <1>6. QED
    BY <1>2, <1>5, RoomNext DEF RoomInv

LEMMA RoomIterate ==
  ASSUME HashInv, RoomInv, NEW gone \in Elements \cup {NULL}, Iterate(gone)
  PROVE  RoomInv'
  <1>1. PICK l : Keeps(ht, l)
    BY DEF HashInv, TableIs
  <1>2. PICK d : Keeps(dst, d)
    BY DEF HashInv
  <1>3. /\ gone \in Items(ht) \cup {NULL}
        /\ ht' = IF gone = NULL THEN ht ELSE Hash_delete(ht, gone)
        /\ dst' = IF gone \in Items(dst) THEN Hash_delete(dst, gone) ELSE dst
        /\ thresh' = thresh /\ hashv \in [Elements -> Nat] /\ thresh \in Nat
    BY DEF Iterate, HashInv, RoomInv
  <1>4. ASSUME ht'.head # NULL PROVE HasRoom(ht')
    <2>1. CASE gone = NULL
      BY <1>3, <1>4, <2>1 DEF RoomInv
    <2>2. CASE gone # NULL
      <3>1. In(gone, l)
        BY <1>1, <1>3, <2>2, KeepsIs
      <3>2. ht' = Hash_delete(ht, gone)
        BY <1>3, <2>2
      <3>3. KeepsRoom(ht, ht') /\ ht.head # NULL
        BY <1>1, <1>3, <1>4, <3>1, <3>2, DeletedRoom
      <3>4. QED
        BY <3>3 DEF KeepsRoom, RoomInv
    <2>3. QED
      BY <2>1, <2>2
  <1>5. ASSUME dst'.head # NULL PROVE Fits(dst')
    <2>1. CASE gone \in Items(dst)
      <3>1. In(gone, d)
        BY <1>2, <2>1, KeepsIs
      <3>2. dst' = Hash_delete(dst, gone)
        BY <1>3, <2>1
      <3>3. KeepsRoom(dst, dst') /\ dst.head # NULL
        BY <1>2, <1>3, <1>5, <3>1, <3>2, DeletedRoom
      <3>4. QED
        BY <3>3 DEF KeepsRoom, RoomInv
    <2>2. CASE gone \notin Items(dst)
      BY <1>3, <1>5, <2>2 DEF RoomInv
    <2>3. QED
      BY <2>1, <2>2
  <1>6. QED
    BY <1>3, <1>4, <1>5, RoomNext

LEMMA RoomStep ==
  ASSUME \A t \in Thresholds : t <= 2 * InitialBuckets,
         HashInv, RoomInv, [HashNext]_hashVars
  PROVE  RoomInv'
  <1>1. ASSUME NEW e \in Elements, Add(e) PROVE RoomInv'
    BY <1>1, RoomAdd
  <1>2. ASSUME NEW e \in Elements, Delete(e) PROVE RoomInv'
    BY <1>2, RoomDelete
  <1>3. ASSUME NEW rank \in Ranks, Sort(rank) PROVE RoomInv'
    BY <1>3, RoomSort
  <1>4. ASSUME NEW chosen \in SUBSET Elements, Select(chosen) PROVE RoomInv'
    BY <1>4, RoomSelect
  <1>5. ASSUME NEW gone \in Elements \cup {NULL}, Iterate(gone) PROVE RoomInv'
    BY <1>5, RoomIterate
  <1>6. CASE Clear
    <2>1. ht' = Empty /\ dst' = Empty /\ thresh' = thresh
      BY <1>6 DEF Clear
    <2>2. QED
      BY <2>1, EmptyIs, RoomNext
  <1>7. CASE Begin_iter \/ End_iter \/ UNCHANGED hashVars
    <2>1. ht' = ht /\ dst' = dst /\ thresh' = thresh
      BY <1>7 DEF Begin_iter, End_iter, hashVars
    <2>2. QED
      BY <2>1, RoomNext DEF RoomInv
  <1>8. QED
    BY <1>1, <1>2, <1>3, <1>4, <1>5, <1>6, <1>7 DEF HashNext

\* What the room says of a chain.
LEMMA FitsBounds ==
  ASSUME thresh \in Nat, NEW h, Fits(h), ~ h.tbl.noexpand,
         NEW b \in 0 .. h.tbl.num_buckets - 1
  PROVE  h.tbl.buckets[b].count <= (h.tbl.buckets[b].expand_mult + 1) * thresh
  <1> DEFINE count == h.tbl.buckets[b].count
             mult == h.tbl.buckets[b].expand_mult
  <1>1. HasNumbers(h) /\ CountsOf(h)[b] <= thresh * MultsOf(h)[b] + thresh
    BY DEF Fits
  <1>2. CountsOf(h)[b] = count /\ MultsOf(h)[b] = mult /\ mult \in Nat
    BY <1>1, CountsAre DEF HasNumbers
  <1>3. count <= thresh * mult + thresh
    BY <1>1, <1>2
  <1> HIDE DEF count, mult
  <1>4. (mult + 1) * thresh = thresh * mult + thresh
    BY <1>2
  <1>5. QED
    BY <1>3, <1>4 DEF count, mult

LEMMA RoomBounds == HashInv /\ RoomInv => ChainsBounded
  <1>1. SUFFICES ASSUME HashInv, RoomInv, NEW h \in {ht, dst}, h.head # NULL, ~ h.tbl.noexpand,
                        NEW b \in DOMAIN h.tbl.buckets
                 PROVE  h.tbl.buckets[b].count <= (h.tbl.buckets[b].expand_mult + 1) * thresh
    BY DEF ChainsBounded
  <1>2. thresh \in Nat
    BY <1>1 DEF RoomInv
  <1>3. Fits(h)
    <2>1. ASSUME HasRoom(h) PROVE Fits(h)
      BY <2>1 DEF HasRoom, Roomy, Fits
    <2>2. QED
      BY <1>1, <2>1 DEF RoomInv
  <1>4. DOMAIN h.tbl.buckets = 0 .. h.tbl.num_buckets - 1
    BY <1>1, HashInvShows DEF HashTypeOK
  <1>5. QED
    BY <1>1, <1>2, <1>3, <1>4, FitsBounds

\* A chain never exceeds expand_mult + 1 times the threshold while the table
\* may expand: HASH_EXPAND_BUCKETS shares the allowance out so that the buckets
\* together can still take twice their number times the threshold, and what an
\* addition finds at the bound it expands.  HASH_SELECT expands before it counts
\* the element, and stays within the bound because the threshold is at most twice
\* the initial number of buckets (10 and 32 in uthash).
THEOREM ChainsStayBounded ==
  ASSUME \A t \in Thresholds : t <= 2 * InitialBuckets
  PROVE  HashSpec => []ChainsBounded
  <1>1. HashInit => RoomInv
    BY EmptyIs DEF HashInit, RoomInv
  <1>2. HashInv /\ RoomInv /\ [HashNext]_hashVars => RoomInv'
    BY RoomStep
  <1>3. QED
    BY <1>1, <1>2, RoomBounds, HashInvHolds, PTL DEF HashSpec
=============================================================================
