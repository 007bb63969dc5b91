------------------------- MODULE EdfPriorityProofs -------------------------
(***************************************************************************)
(* What _calculate_prio returns, for every word size and priority range.   *)
(***************************************************************************)
EXTENDS EdfPriority, TLAPS

Levels == MAXPRIO - MINPRIO

(***************************************************************************)
(* The quotient and remainder of natural numbers, in the form the lemmas   *)
(* below use them.                                                         *)
(***************************************************************************)
LEMMA Quotient ==
  ASSUME NEW a \in Nat, NEW b \in Nat \ {0}
  PROVE  /\ a \div b \in Nat
         /\ b * (a \div b) <= a
         /\ a < b * (a \div b) + b
  BY SMT

LEMMA QuotientBound ==
  ASSUME NEW a \in Nat, NEW b \in Nat \ {0}, NEW k \in Nat, a < b * (k + 1)
  PROVE  a \div b <= k
  BY SMT

LEMMA QuotientBelow ==
  ASSUME NEW a \in Nat, NEW b \in Nat \ {0}, NEW k \in Nat \ {0}, a < b * k
  PROVE  a \div b < k
  <1>1. k - 1 \in Nat /\ (k - 1) + 1 = k
    OBVIOUS
  <1>2. a < b * ((k - 1) + 1)
    BY <1>1
  <1>3. a \div b <= k - 1
    BY <1>1, <1>2, QuotientBound
  <1>4. a \div b \in Nat
    BY Quotient
  <1>5. QED
    BY <1>3, <1>4

LEMMA QuotientMonotone ==
  ASSUME NEW a \in Nat, NEW c \in Nat, a <= c, NEW b \in Nat \ {0}
  PROVE  a \div b <= c \div b
  BY SMT

LEMMA Remainder ==
  ASSUME NEW a \in Nat, NEW b \in Nat \ {0}
  PROVE  a % b \in Nat /\ a % b < b /\ a % b <= a /\ (a < b => a % b = a)
  BY SMT

LEMMA Distribute ==
  ASSUME NEW a \in Nat, NEW k \in Nat
  PROVE  a * (k + 1) = a * k + a
  BY SMT

LEMMA ProductMonotone ==
  ASSUME NEW a \in Nat, NEW c \in Nat, a <= c, NEW k \in Nat
  PROVE  a * k \in Nat /\ c * k \in Nat /\ a * k <= c * k
  BY SMT

LEMMA Cancel ==
  ASSUME NEW k \in Nat \ {0}, NEW x \in Nat, NEW y \in Nat, k * x < k * y
  PROVE  x < y
  <1>1. SUFFICES ASSUME y <= x PROVE FALSE
    OBVIOUS
  <1>2. k * y <= k * x
    BY <1>1, SMT
  <1>3. QED
    BY <1>2

(***************************************************************************)
(* The divisor do_div() gets: a divisor shifted by fls(high) fits 32 bits, *)
(* so that its truncation to d loses nothing, and d keeps its top bit.     *)
(***************************************************************************)
LEMMA ShiftedDivisor ==
  ASSUME NEW divisor \in 1 .. Word - 1,
         NEW high, high = divisor \div Half,
         NEW p, p = IF high = 0 THEN 1 ELSE Shift(high),
         NEW d, d = (divisor \div p) % Half
  PROVE  /\ p \in Nat \ {0}
         /\ d = divisor \div p
         /\ d \in Nat \ {0}
         /\ p = 1 \/ Levels <= d
  <1> USE PriorityAssumption
  <1>1. high \in 0 .. Half - 1
    <2>1. divisor < Half * Half
      OBVIOUS
    <2>2. high \in Nat /\ Half * high <= divisor
      BY Quotient
    <2>3. QED
      BY <2>1, <2>2, QuotientBound
  <1>2. CASE high = 0
    <2>1. p = 1 /\ divisor \div p = divisor
      BY <1>2
    <2>2. divisor < Half
      BY <1>2, Quotient
    <2>3. QED
      BY <2>1, <2>2, Remainder
  <1>3. CASE high # 0
    <2>1. p \in PowersOfTwo /\ high < p /\ p <= 2 * high
      BY <1>1, <1>3 DEF Shift
    <2>2. p \in Nat \ {0}
      BY <2>1
    <2>3. Half * high <= divisor /\ divisor < Half * high + Half
      BY Quotient
    <2>4. divisor \div p < Half
      <3>1. divisor < Half * (high + 1)
        BY <1>1, <2>3
      <3>2. Half * (high + 1) <= Half * p
        BY <1>1, <2>1, <2>2
      <3>3. divisor \in Nat /\ Half \in Nat \ {0}
        OBVIOUS
      <3>4. divisor < p * Half
        BY <3>1, <3>2, <3>3, <2>2, <1>1
      <3>5. QED
        BY <3>3, <3>4, <2>2, QuotientBelow
    <2>5. 2 * (divisor \div p) + 2 > Half
      <3> DEFINE q == divisor \div p
      <3>1. q \in Nat /\ divisor < p * q + p
        BY <2>2, Quotient
      <3>2. Half * high < p * (q + 1)
        BY <2>3, <3>1, <2>2, <1>1
      <3>3. p * (q + 1) <= (2 * high) * (q + 1)
        BY <2>1, <2>2, <3>1, <1>1
      <3>4. high * Half < high * (2 * (q + 1))
        BY <3>1, <3>2, <3>3, <2>2, <1>1
      <3>5. Half < 2 * (q + 1)
        <4>1. high \in Nat \ {0} /\ 2 * (q + 1) \in Nat /\ Half \in Nat
          BY <1>1, <1>3, <3>1
        <4>2. QED
          BY <4>1, <3>4, Cancel
      <3>6. QED
        BY <3>1, <3>5
    <2>6. divisor \div p \in Nat /\ d = divisor \div p
      BY <2>2, <2>4, Quotient, Remainder
    <2>7. Levels <= d /\ d # 0
      BY <2>5, <2>6 DEF Levels
    <2>8. QED
      BY <2>2, <2>6, <2>7
  <1>4. QED
    BY <1>2, <1>3

(***************************************************************************)
(* What div64_64 does to a dividend that is at most k times the divisor:   *)
(* its quotient stays within k when the divisor needs no shift, and also   *)
(* when k is small next to the shifted divisor.                            *)
(***************************************************************************)
LEMMA DivisionBound ==
  ASSUME NEW divisor \in 1 .. Word - 1, NEW dividend \in Nat,
         dividend <= divisor * Levels
  PROVE  div64_64(dividend, divisor) \in 0 .. Levels
  <1> USE PriorityAssumption
  <1> DEFINE high == divisor \div Half
             p    == IF high = 0 THEN 1 ELSE Shift(high)
             d    == (divisor \div p) % Half
             c    == dividend \div p
  <1>1. /\ p \in Nat \ {0} /\ d = divisor \div p /\ d \in Nat \ {0}
        /\ p = 1 \/ Levels <= d
    BY ShiftedDivisor
  <1>2. Levels \in Nat
    BY DEF Levels
  <1>3. div64_64(dividend, divisor) = c \div d
    BY DEF div64_64
  <1> HIDE DEF high, p, d
  <1>4. divisor \in Nat /\ divisor < p * d + p
    BY <1>1, Quotient
  <1>5. c \in Nat /\ c \div d \in Nat
    BY <1>1, Quotient
  <1>6. c < d * (Levels + 1)
    <2>1. CASE p = 1
      <3>1. c = dividend /\ d = divisor
        BY <2>1, <1>1, SMT
      <3>2. d * (Levels + 1) = d * Levels + d
        BY <1>1, <1>2, Distribute
      <3>3. QED
        BY <3>1, <3>2, <1>1, <1>2
    <2>2. CASE Levels <= d
      <3>1. CASE Levels = 0
        <4>1. dividend = 0
          BY <3>1
        <4>2. QED
          BY <4>1, <3>1, <1>1, SMT
      <3>2. CASE Levels > 0
        <4>1. divisor * Levels < (p * d + p) * Levels
          BY <1>1, <1>2, <1>4, <3>2
        <4>2. (p * d + p) * Levels = p * (d * Levels + Levels)
          BY <1>1, <1>2
        <4>3. d * Levels + Levels <= d * (Levels + 1)
          BY <1>1, <1>2, <2>2
        <4>4. p * (d * Levels + Levels) <= p * (d * (Levels + 1))
          BY <4>3, <1>1, <1>2
        <4>5. p * c <= dividend
          BY <1>1, Quotient
        <4>6. p * c < p * (d * (Levels + 1))
          BY <4>1, <4>2, <4>4, <4>5, <1>1, <1>2, <1>4, <1>5
        <4>7. d * (Levels + 1) \in Nat
          BY <1>1, <1>2
        <4>8. QED
          BY <4>6, <4>7, <1>1, <1>5, Cancel
      <3>3. QED
        BY <3>1, <3>2, <1>2
    <2>3. QED
      BY <1>1, <2>1, <2>2
  <1>7. c \div d <= Levels
    BY <1>1, <1>2, <1>5, <1>6, QuotientBound
  <1>8. QED
    BY <1>2, <1>3, <1>5, <1>7

LEMMA DivisionNat ==
  ASSUME NEW divisor \in 1 .. Word - 1, NEW x \in Nat
  PROVE  div64_64(x, divisor) \in Nat
  <1> DEFINE high == divisor \div Half
             p    == IF high = 0 THEN 1 ELSE Shift(high)
             d    == (divisor \div p) % Half
  <1>1. p \in Nat \ {0} /\ d \in Nat \ {0}
    BY ShiftedDivisor
  <1>2. div64_64(x, divisor) = (x \div p) \div d
    BY DEF div64_64
  <1> HIDE DEF high, p, d
  <1>3. QED
    BY <1>1, <1>2, Quotient

(***************************************************************************)
(* div64_64 keeps the order of its dividends.                              *)
(***************************************************************************)
LEMMA DivisionMonotone ==
  ASSUME NEW divisor \in 1 .. Word - 1, NEW x \in Nat, NEW y \in Nat, x <= y
  PROVE  div64_64(x, divisor) <= div64_64(y, divisor)
  <1> DEFINE high == divisor \div Half
             p    == IF high = 0 THEN 1 ELSE Shift(high)
             d    == (divisor \div p) % Half
  <1>1. p \in Nat \ {0} /\ d \in Nat \ {0}
    BY ShiftedDivisor
  <1>2. /\ div64_64(x, divisor) = (x \div p) \div d
        /\ div64_64(y, divisor) = (y \div p) \div d
    BY DEF div64_64
  <1> HIDE DEF high, p, d
  <1>3. x \div p \in Nat /\ y \div p \in Nat /\ x \div p <= y \div p
    BY <1>1, Quotient, QuotientMonotone
  <1>4. QED
    BY <1>1, <1>2, <1>3, QuotientMonotone

(***************************************************************************)
(* _calculate_prio returns a priority between MINPRIO and MAXPRIO for      *)
(* every remaining time between the smallest and the largest of the table, *)
(* even when the product in it overflows 64 bits.                          *)
(***************************************************************************)
THEOREM PrioRange ==
  ASSUME NEW mn \in Nat, NEW mx \in Nat, mx < Word,
         NEW r \in Nat, mn <= r, r <= mx
  PROVE  calculate_prio(r, mn, mx) \in MINPRIO .. MAXPRIO
  <1> USE PriorityAssumption
  <1> DEFINE product == (r - mn) * (MAXPRIO - MINPRIO)
             a       == product % Word
             b       == IF mx - mn # 0 THEN mx - mn ELSE IF r # 0 THEN r ELSE 1
  <1>1. calculate_prio(r, mn, mx) = MAXPRIO - div64_64(a, b)
    BY DEF calculate_prio
  <1>2. Word \in Nat \ {0} /\ Word > 1
    BY Half * Half > 1
  <1>3. b \in 1 .. Word - 1
    BY <1>2
  <1>4. product \in Nat /\ product <= b * Levels
    <2>1. r - mn \in Nat /\ r - mn <= b /\ b \in Nat
      BY <1>3
    <2>2. Levels \in Nat /\ product = (r - mn) * Levels
      BY DEF Levels
    <2>3. (r - mn) * Levels <= b * Levels
      BY <2>1, <2>2
    <2>4. (r - mn) * Levels \in Nat
      BY <2>1, <2>2
    <2>5. QED
      BY <2>2, <2>3, <2>4
  <1>5. a \in Nat /\ a <= product
    BY <1>2, <1>4, Remainder
  <1> HIDE DEF a, b
  <1>6. a <= b * Levels
    <2>1. b * Levels \in Nat
      BY <1>3 DEF Levels
    <2>2. QED
      BY <1>4, <1>5, <2>1
  <1>7. div64_64(a, b) \in 0 .. Levels
    BY <1>3, <1>5, <1>6, DivisionBound
  <1>8. QED
    BY <1>1, <1>7 DEF Levels

(***************************************************************************)
(* The task with the smallest remaining time gets MAXPRIO.                 *)
(***************************************************************************)
THEOREM PrioTop ==
  ASSUME NEW mn \in Nat, NEW mx \in Nat, mx < Word, mn <= mx
  PROVE  calculate_prio(mn, mn, mx) = MAXPRIO
  <1> USE PriorityAssumption
  <1> DEFINE b == IF mx - mn # 0 THEN mx - mn ELSE IF mn # 0 THEN mn ELSE 1
  <1>1. Word \in Nat \ {0} /\ Word > 1
    BY Half * Half > 1
  <1>2. b \in 1 .. Word - 1
    BY <1>1
  <1>3. ((mn - mn) * (MAXPRIO - MINPRIO)) % Word = 0
    BY <1>1, Remainder
  <1>4. calculate_prio(mn, mn, mx) = MAXPRIO - div64_64(0, b)
    BY <1>3 DEF calculate_prio
  <1> HIDE DEF b
  <1>5. div64_64(0, b) = 0
    <2> DEFINE high == b \div Half
               p    == IF high = 0 THEN 1 ELSE Shift(high)
               d    == (b \div p) % Half
    <2>1. p \in Nat \ {0} /\ d \in Nat \ {0}
      BY <1>2, ShiftedDivisor
    <2>2. div64_64(0, b) = (0 \div p) \div d
      BY DEF div64_64
    <2> HIDE DEF high, p, d
    <2>3. 0 \div p = 0 /\ 0 \div d = 0
      BY <2>1
    <2>4. QED
      BY <2>2, <2>3
  <1>6. QED
    BY <1>4, <1>5

(***************************************************************************)
(* Of two tasks of one table, the one with less time left never gets the   *)
(* lower priority, as long as the product in _calculate_prio fits 64 bits. *)
(***************************************************************************)
THEOREM PrioOrder ==
  ASSUME NEW mn \in Nat, NEW mx \in Nat, mx < Word,
         (mx - mn) * (MAXPRIO - MINPRIO) < Word,
         NEW r \in Nat, NEW s \in Nat, mn <= r, r <= s, s <= mx
  PROVE  calculate_prio(r, mn, mx) >= calculate_prio(s, mn, mx)
  <1> USE PriorityAssumption
  <1> DEFINE product(x) == (x - mn) * (MAXPRIO - MINPRIO)
             b == mx - mn
  <1>1. CASE r = s
    <2>1. calculate_prio(r, mn, mx) \in Int
      BY PrioRange
    <2>2. QED
      BY <1>1, <2>1
  <1>2. CASE r < s
    <2>1. Word \in Nat \ {0}
      BY Half * Half > 1
    <2>2. b \in 1 .. Word - 1
      BY <1>2, <2>1
    <2>3. /\ product(r) \in Nat /\ product(s) \in Nat
          /\ product(r) <= product(s) /\ product(s) <= product(mx)
      <3> DEFINE L == MAXPRIO - MINPRIO
      <3>1. L \in Nat
        OBVIOUS
      <3>2. /\ r - mn \in Nat /\ s - mn \in Nat /\ mx - mn \in Nat
            /\ r - mn <= s - mn /\ s - mn <= mx - mn
        OBVIOUS
      <3> HIDE DEF L
      <3>3. /\ (r - mn) * L \in Nat /\ (s - mn) * L \in Nat
            /\ (r - mn) * L <= (s - mn) * L /\ (s - mn) * L <= (mx - mn) * L
        BY <3>1, <3>2, ProductMonotone
      <3>4. QED
        BY <3>3 DEF L
    <2>4. product(s) < Word
      BY <2>1, <2>3
    <2>5. product(r) < Word
      BY <2>1, <2>3, <2>4
    <2>6. product(r) % Word = product(r) /\ product(s) % Word = product(s)
      BY <2>1, <2>3, <2>4, <2>5, Remainder
    <2>7. b # 0
      BY <2>2
    <2>8. /\ calculate_prio(r, mn, mx) = MAXPRIO - div64_64(product(r), b)
          /\ calculate_prio(s, mn, mx) = MAXPRIO - div64_64(product(s), b)
      BY <2>6, <2>7 DEF calculate_prio
    <2> HIDE DEF product, b
    <2>9. div64_64(product(r), b) <= div64_64(product(s), b)
      BY <2>2, <2>3, DivisionMonotone
    <2>10. /\ calculate_prio(r, mn, mx) \in Int
           /\ calculate_prio(s, mn, mx) \in Int
      BY PrioRange
    <2>11. div64_64(product(r), b) \in Int /\ div64_64(product(s), b) \in Int
      BY <2>2, <2>3, DivisionNat
    <2>12. QED
      BY <2>8, <2>9, <2>11
  <1>3. QED
    BY <1>1, <1>2
=============================================================================
