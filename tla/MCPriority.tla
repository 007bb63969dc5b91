----------------------------- MODULE MCPriority -----------------------------
(***************************************************************************)
(* Every call _calculate_prio can receive on a small word: a task whose    *)
(* remaining time shrinks, one unit at a time, from the largest of the     *)
(* table to the smallest.  The product of _calculate_prio fits the word.   *)
(***************************************************************************)
EXTENDS EdfPriority

VARIABLES remain, min_remain, max_remain

vars == <<remain, min_remain, max_remain>>

newprio == calculate_prio(remain, min_remain, max_remain)

Init ==
  /\ min_remain \in 0 .. Word - 1
  /\ max_remain \in min_remain .. Word - 1
  /\ remain = max_remain
  /\ (max_remain - min_remain) * (MAXPRIO - MINPRIO) < Word

Elapse ==
  /\ remain > min_remain
  /\ remain' = remain - 1
  /\ UNCHANGED <<min_remain, max_remain>>

Next == Elapse

Spec == Init /\ [][Next]_vars

(***************************************************************************)
(* Whatever the three remaining times are, _calculate_prio returns a       *)
(* priority between MINPRIO and MAXPRIO: neither the shift of div64_64     *)
(* nor its truncated divisor pushes the quotient past the priority range.  *)
(***************************************************************************)
PrioInRange == newprio \in MINPRIO .. MAXPRIO

(***************************************************************************)
(* The task nearest to its deadline gets MAXPRIO and, when the remaining   *)
(* times differ, the farthest one gets MINPRIO: the range is used fully    *)
(* although div64_64 only approximates the quotient.                       *)
(***************************************************************************)
RangeIsUsed ==
  /\ remain = min_remain => newprio = MAXPRIO
  /\ remain = max_remain /\ min_remain < max_remain => newprio = MINPRIO

(***************************************************************************)
(* The shift in div64_64 costs at most one priority level against the      *)
(* exact quotient, always towards the lower priority.                      *)
(***************************************************************************)
OneLevelOfExact ==
  min_remain < max_remain =>
    LET share == (remain - min_remain) * (MAXPRIO - MINPRIO)
        exact == MAXPRIO - share \div (max_remain - min_remain)
    IN  newprio \in {exact, exact - 1}

(***************************************************************************)
(* Earlier deadline first ("EDF scheduling policy over RMPO scheduler",    *)
(* README.md:35): as the remaining time of a task shrinks its priority     *)
(* never drops.                                                            *)
(***************************************************************************)
PrioAntitone ==
  [][remain' <= remain => newprio' >= newprio]_vars

=============================================================================
