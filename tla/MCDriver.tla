------------------------------ MODULE MCDriver ------------------------------
(***************************************************************************)
(* The driver with a few tasks and writers and a short clock.              *)
(***************************************************************************)
EXTENDS EdfDriver

\* Every thread on a processor of its own.
Apart == [w \in Writer |-> {}]

\* Two writers share the processor of the service, one is elsewhere.
Stacked ==
  LET low == CHOOSE w \in Writer : TRUE
      high == CHOOSE w \in Writer \ {low} : TRUE
  IN  [w \in Writer |-> CASE w = low  -> {high, Service}
                          [] w = high -> {Service}
                          [] OTHER    -> {}]

Symmetry == Permutations(Task) \cup Permutations(Writer)
=============================================================================
