---------------------------- MODULE EdfPriority ----------------------------
(***************************************************************************)
(* The arithmetic that turns a remaining time into a Xenomai priority:     *)
(* div64_64 and _calculate_prio of edfomai-drv-data.c.  The 64 bit words   *)
(* of the code are integers below Word, its 32 bit words integers below    *)
(* Half, so that the same definitions are evaluated on a small word and    *)
(* proved for every word size.                                             *)
(***************************************************************************)
EXTENDS Integers

CONSTANTS
  MAXPRIO,      \* the priority of the task nearest to its deadline (50)
  MINPRIO,      \* the priority of the task farthest from it (0)
  Half,         \* 2^32: the number of uint32_t values
  Word,         \* 2^64: the number of uint64_t values
  PowersOfTwo   \* the values of (1 << shift) for shift \in 0..32

(***************************************************************************)
(* A high word lies below exactly one power of two that is at most twice   *)
(* it: the one fls() finds.  The priority range is small next to a 32 bit  *)
(* word (50 next to 2^32), which is what keeps the approximate division    *)
(* below in range.                                                         *)
(***************************************************************************)
ASSUME PriorityAssumption ==
  /\ MINPRIO \in Nat /\ MAXPRIO \in Nat /\ MINPRIO <= MAXPRIO
  /\ Half \in Nat /\ Half > 1 /\ Word = Half * Half
  /\ 2 * (MAXPRIO - MINPRIO) <= Half
  /\ PowersOfTwo \subseteq Nat \ {0}
  /\ \A high \in 1 .. Half - 1 : \E p \in PowersOfTwo : high < p /\ p <= 2 * high

\* 1 << fls(high): the divisor of a right shift by fls(high), for high # 0.
Shift(high) == CHOOSE p \in PowersOfTwo : high < p /\ p <= 2 * high

\* Mutated form of div64_64: the dividend is not shifted with the divisor.
div64_divisor_only(dividend, divisor) ==
  LET high == divisor \div Half
      p    == IF high = 0 THEN 1 ELSE Shift(high)
      d    == (divisor \div p) % Half
  IN  dividend \div d

(***************************************************************************)
(* A divisor that does not fit 32 bits is shifted until it does, and the   *)
(* dividend with it; do_div() then divides by the truncated 32 bit d.      *)
(***************************************************************************)
div64_64(dividend, divisor) ==
  LET high == divisor \div Half
      p    == IF high = 0 THEN 1 ELSE Shift(high)
      d    == (divisor \div p) % Half
  IN  (dividend \div p) \div d

\* Mutated forms of calculate_prio: the smallest remaining time is not
\* subtracted; one level is missing; the farthest task comes first.
prio_without_min(remain, min_remain, max_remain) ==
  MAXPRIO - div64_64((remain * (MAXPRIO - MINPRIO)) % Word,
                     IF max_remain # min_remain THEN max_remain - min_remain ELSE 1)

prio_one_level_short(remain, min_remain, max_remain) ==
  MAXPRIO - div64_64(((remain - min_remain) * (MAXPRIO - MINPRIO - 1)) % Word,
                     IF max_remain # min_remain THEN max_remain - min_remain ELSE 1)

prio_farthest_first(remain, min_remain, max_remain) ==
  MINPRIO + div64_64(((remain - min_remain) * (MAXPRIO - MINPRIO)) % Word,
                     IF max_remain # min_remain THEN max_remain - min_remain ELSE 1)

(***************************************************************************)
(* The task's distance from the smallest remaining time, as a share of     *)
(* the spread of all remaining times, in priority levels below MAXPRIO.    *)
(***************************************************************************)
calculate_prio(remain, min_remain, max_remain) ==
  LET spread == max_remain - min_remain
      a == ((remain - min_remain) * (MAXPRIO - MINPRIO)) % Word
      b == IF spread # 0 THEN spread ELSE IF remain # 0 THEN remain ELSE 1
  IN  MAXPRIO - div64_64(a, b)
=============================================================================
