-------------------------- MODULE MCPriorityProofs --------------------------
(***************************************************************************)
(* The properties of the priority run, for every word size and priority    *)
(* range.  DivisionNear relates div64_64 to the exact quotient: the        *)
(* truncated divisor makes it at most one too large.                       *)
(***************************************************************************)
EXTENDS MCPriority, EdfPriorityProofs

USE PriorityAssumption

(***************************************************************************)
(* Dividing by p and then by the truncated divisor d loses nothing of the  *)
(* exact quotient e, and adds at most one to it.                           *)
(***************************************************************************)
LEMMA QuotientKept ==
  ASSUME NEW p \in Nat \ {0}, NEW d \in Nat \ {0}, NEW b \in Nat, p * d <= b,
         NEW a \in Nat, NEW e \in Nat, b * e <= a
  PROVE  e <= (a \div p) \div d
  <1> DEFINE c == a \div p
             q == c \div d
  <1>1. c \in Nat /\ a < p * c + p
    BY Quotient
  <1> HIDE DEF c
  <1>2. q \in Nat /\ c < d * q + d
    BY <1>1, Quotient
  <1> HIDE DEF q
  <1>3. (p * d) * e <= b * e
    BY SMT
  <1>4. p * (d * e) < p * (c + 1)
    <2>1. p * (d * e) = (p * d) * e /\ p * (c + 1) = p * c + p
      BY <1>1
    <2>2. p * (d * e) \in Nat /\ b * e \in Nat /\ p * c \in Nat
      BY <1>1
    <2>3. QED
      BY <1>1, <1>3, <2>1, <2>2
  <1>5. d * e < c + 1
    BY <1>1, <1>4, Cancel
  <1>6. d * e < d * (q + 1)
    <2>1. d * (q + 1) = d * q + d /\ d * e \in Nat /\ d * q \in Nat
      BY <1>2
    <2>2. QED
      BY <1>1, <1>2, <1>5, <2>1
  <1>7. e < q + 1
    BY <1>2, <1>6, Cancel
  <1>8. QED
    BY <1>2, <1>7 DEF q, c

LEMMA QuotientNear ==
  ASSUME NEW p \in Nat \ {0}, NEW d \in Nat \ {0}, NEW b \in Nat, b < p * d + p,
         NEW a \in Nat, NEW e \in Nat, a < b * (e + 1), e + 1 <= d
  PROVE  (a \div p) \div d <= e + 1
  <1> DEFINE c == a \div p
  <1>1. c \in Nat /\ p * c <= a
    BY Quotient
  <1> HIDE DEF c
  <1>2. b * (e + 1) <= (p * d + p) * (e + 1)
    BY SMT
  <1>3. (p * d + p) * (e + 1) = p * (d * (e + 1) + (e + 1))
    BY SMT
  <1>4. p * c < p * (d * (e + 1) + (e + 1))
    <2>1. /\ p * c \in Nat /\ b * (e + 1) \in Nat
          /\ p * (d * (e + 1) + (e + 1)) \in Nat
      BY <1>1
    <2>2. QED
      BY <1>1, <1>2, <1>3, <2>1
  <1>5. d * (e + 1) \in Nat /\ d * (e + 1) + (e + 1) \in Nat
    OBVIOUS
  <1>6. c < d * (e + 1) + (e + 1)
    BY <1>1, <1>4, <1>5, Cancel
  <1>7. d * ((e + 1) + 1) = d * (e + 1) + d
    BY Distribute
  <1>8. c < d * ((e + 1) + 1)
    BY <1>1, <1>5, <1>6, <1>7
  <1>9. e + 1 \in Nat
    OBVIOUS
  <1>10. c \div d <= e + 1
    BY <1>1, <1>8, <1>9, QuotientBound
  <1>11. QED
    BY <1>10 DEF c

LEMMA DivisionNear ==
  ASSUME NEW divisor \in 1 .. Word - 1, NEW dividend \in Nat,
         dividend <= divisor * Levels,
         NEW e, e = dividend \div divisor
  PROVE  e <= Levels /\ div64_64(dividend, divisor) \in {e, e + 1}
  <1> DEFINE high == divisor \div Half
             p    == IF high = 0 THEN 1 ELSE Shift(high)
             d    == (divisor \div p) % Half
             q    == div64_64(dividend, divisor)
  <1>1. /\ p \in Nat \ {0} /\ d = divisor \div p /\ d \in Nat \ {0}
        /\ p = 1 \/ Levels <= d
    BY ShiftedDivisor
  <1>2. Levels \in Nat /\ q \in 0 .. Levels
    BY DivisionBound DEF Levels
  <1>3. q = (dividend \div p) \div d
    BY DEF div64_64
  <1> HIDE DEF high, p, d, q
  <1>4. divisor \in Nat \ {0} /\ p * d <= divisor /\ divisor < p * d + p
    BY <1>1, Quotient
  <1>5. /\ e \in Nat /\ divisor * e <= dividend /\ dividend < divisor * e + divisor
        /\ dividend < divisor * (e + 1)
    <2>1. e \in Nat /\ divisor * e <= dividend /\ dividend < divisor * e + divisor
      BY <1>4, Quotient
    <2>2. QED
      BY <1>4, <2>1, Distribute
  <1>6. e <= Levels
    <2>1. divisor * e < divisor * (Levels + 1)
      <3>1. divisor * (Levels + 1) = divisor * Levels + divisor
        BY <1>2, <1>4, Distribute
      <3>2. divisor * e \in Nat /\ divisor * Levels \in Nat
        BY <1>2, <1>4, <1>5
      <3>3. QED
        BY <1>4, <1>5, <3>1, <3>2
    <2>2. e < Levels + 1
      BY <1>2, <1>4, <1>5, <2>1, Cancel
    <2>3. QED
      BY <1>2, <1>5, <2>2
  <1>7. e <= q
    BY <1>1, <1>3, <1>4, <1>5, QuotientKept
  <1>8. q <= e + 1
    <2>1. CASE p = 1
      <3>1. q = e
        BY <1>1, <1>3, <1>4, <1>5, <2>1
      <3>2. QED
        BY <1>5, <3>1
    <2>2. CASE Levels <= e
      BY <1>2, <1>5, <2>2
    <2>3. CASE e < Levels /\ Levels <= d
      <3>1. e + 1 <= d
        BY <1>1, <1>2, <1>5, <2>3
      <3>2. QED
        BY <1>1, <1>3, <1>4, <1>5, <3>1, QuotientNear
    <2>4. QED
      BY <1>1, <1>2, <1>5, <2>1, <2>2, <2>3
  <1>9. QED
    BY <1>2, <1>5, <1>6, <1>7, <1>8 DEF q

-----------------------------------------------------------------------------
\* The remaining times a run can reach.
Bounds ==
  /\ remain \in Nat /\ min_remain \in Nat /\ max_remain \in Nat
  /\ min_remain <= remain /\ remain <= max_remain /\ max_remain < Word
  /\ (max_remain - min_remain) * (MAXPRIO - MINPRIO) < Word

LEMMA BoundsInvariant == Spec => []Bounds
  <1>1. Init => Bounds
    BY DEF Init, Bounds
  <1>2. Bounds /\ [Next]_vars => Bounds'
    BY DEF Bounds, Next, Elapse, vars
  <1>3. QED
    BY <1>1, <1>2, PTL DEF Spec

\* The share of the priority range _calculate_prio divides.
LEMMA Shares ==
  ASSUME Bounds, min_remain < max_remain,
         NEW share, share = (remain - min_remain) * (MAXPRIO - MINPRIO),
         NEW spread, spread = max_remain - min_remain
  PROVE  /\ spread \in 1 .. Word - 1
         /\ share \in Nat /\ share <= spread * Levels
         /\ newprio = MAXPRIO - div64_64(share, spread)
  <1>1. /\ remain - min_remain \in Nat /\ spread \in Nat \ {0}
        /\ remain - min_remain <= spread /\ spread < Word /\ Word \in Nat \ {0}
        /\ Levels \in Nat
    BY DEF Bounds, Levels
  <1>2. share \in Nat /\ spread * Levels \in Nat /\ share <= spread * Levels
    BY <1>1, ProductMonotone DEF Levels
  <1>3. share % Word = share
    BY <1>1, <1>2, Remainder DEF Bounds, Levels
  <1>4. QED
    BY <1>1, <1>2, <1>3 DEF newprio, calculate_prio

(***************************************************************************)
(* _calculate_prio returns a priority of the range.                        *)
(***************************************************************************)
THEOREM PrioAlwaysInRange == Spec => []PrioInRange
  <1>1. Bounds => PrioInRange
    BY PrioRange DEF Bounds, PrioInRange, newprio
  <1>2. QED
    BY BoundsInvariant, <1>1, PTL

(***************************************************************************)
(* The nearest task gets MAXPRIO and the farthest MINPRIO.                 *)
(***************************************************************************)
THEOREM RangeAlwaysUsed == Spec => []RangeIsUsed
  <1>1. ASSUME Bounds, remain = min_remain
        PROVE  newprio = MAXPRIO
    BY <1>1, PrioTop DEF Bounds, newprio
  <1>2. ASSUME Bounds, remain = max_remain, min_remain < max_remain
        PROVE  newprio = MINPRIO
    <2> DEFINE spread == max_remain - min_remain
               share  == spread * (MAXPRIO - MINPRIO)
    <2>1. /\ spread \in 1 .. Word - 1 /\ share \in Nat /\ share <= spread * Levels
          /\ newprio = MAXPRIO - div64_64(share, spread)
      BY <1>2, Shares
    <2>2. share = spread * Levels /\ Levels \in Nat
      BY DEF Levels
    <2> HIDE DEF spread, share
    <2>3. share \div spread = Levels
      <3>1. share \div spread <= Levels
        BY <2>1, DivisionNear
      <3>2. Levels <= (share \div 1) \div spread
        <4>1. spread \in Nat \ {0} /\ 1 * spread <= spread /\ spread * Levels <= share
          BY <2>1, <2>2
        <4>2. QED
          BY <2>1, <2>2, <4>1, QuotientKept
      <3>3. share \div 1 = share /\ share \div spread \in Nat
        BY <2>1, Quotient
      <3>4. QED
        BY <2>2, <3>1, <3>2, <3>3
    <2>4. div64_64(share, spread) \in {Levels, Levels + 1} /\ div64_64(share, spread) \in 0 .. Levels
      BY <2>1, <2>3, DivisionNear, DivisionBound
    <2>5. div64_64(share, spread) = Levels
      BY <2>2, <2>4
    <2>6. QED
      BY <2>1, <2>5 DEF Levels
  <1>3. Bounds => RangeIsUsed
    BY <1>1, <1>2 DEF RangeIsUsed
  <1>4. QED
    BY BoundsInvariant, <1>3, PTL

(***************************************************************************)
(* The shift costs at most one level against the exact quotient.           *)
(***************************************************************************)
THEOREM OneLevelAtMost == Spec => []OneLevelOfExact
  <1>1. ASSUME Bounds, min_remain < max_remain
        PROVE  LET share == (remain - min_remain) * (MAXPRIO - MINPRIO)
                   exact == MAXPRIO - share \div (max_remain - min_remain)
               IN  newprio \in {exact, exact - 1}
    <2> DEFINE spread == max_remain - min_remain
               share  == (remain - min_remain) * (MAXPRIO - MINPRIO)
               e      == share \div spread
    <2>1. /\ spread \in 1 .. Word - 1 /\ share \in Nat /\ share <= spread * Levels
          /\ newprio = MAXPRIO - div64_64(share, spread)
      BY <1>1, Shares
    <2> HIDE DEF spread, share
    <2>2. e \in Nat /\ div64_64(share, spread) \in {e, e + 1}
      BY <2>1, DivisionNear, Quotient
    <2> HIDE DEF e
    <2>3. newprio \in {MAXPRIO - e, (MAXPRIO - e) - 1}
      BY <2>1, <2>2
    <2>4. QED
      BY <2>3 DEF e, share, spread
  <1>2. Bounds => OneLevelOfExact
    BY <1>1 DEF OneLevelOfExact
  <1>3. QED
    BY BoundsInvariant, <1>2, PTL

(***************************************************************************)
(* A task whose remaining time shrinks never loses priority.               *)
(***************************************************************************)
THEOREM PrioNeverDrops == Spec => PrioAntitone
  <1>1. Bounds /\ [Next]_vars => [remain' <= remain => newprio' >= newprio]_vars
    <2>1. SUFFICES ASSUME Bounds, Next PROVE newprio' >= newprio
      OBVIOUS
    <2>2. /\ remain' \in Nat /\ min_remain <= remain' /\ remain' <= remain
          /\ min_remain' = min_remain /\ max_remain' = max_remain
      BY <2>1 DEF Bounds, Next, Elapse
    <2>3. /\ newprio = calculate_prio(remain, min_remain, max_remain)
          /\ newprio' = calculate_prio(remain', min_remain, max_remain)
      BY <2>2 DEF newprio
    <2>4. QED
      BY <2>1, <2>2, <2>3, PrioOrder DEF Bounds
  <1>2. QED
    BY BoundsInvariant, <1>1, PTL DEF Spec, PrioAntitone
=============================================================================
