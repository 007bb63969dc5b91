------------------------------ MODULE MCClient ------------------------------
(***************************************************************************)
(* The test programs with a few tasks, periods and descriptors.            *)
(***************************************************************************)
EXTENDS EdfClient
=============================================================================
