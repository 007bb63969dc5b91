------------------------------ MODULE Pointers ------------------------------
(* What the containers of datastructures/ have in common.                  *)
EXTENDS Integers, Sequences

CONSTANTS
  NULL,
  JUNK      \* what memory holds before a program sets it

\* Where a loop that follows nxt from start on is after k steps.
Follow(nxt, x) == IF x = NULL THEN NULL ELSE nxt[x]
Walk(nxt, start) == LET at[k \in Nat] == IF k = 0 THEN start ELSE Follow(nxt, at[k - 1]) IN at

\* The elements that nxt links from start on, n at most.
Path(nxt, start, n) ==
  LET length == CHOOSE m \in 0 .. n :
        /\ m = n \/ Walk(nxt, start)[m] = NULL
        /\ \A k \in 0 .. m - 1 : Walk(nxt, start)[k] # NULL
  IN  [k \in 1 .. length |-> Walk(nxt, start)[k - 1]]
=============================================================================
