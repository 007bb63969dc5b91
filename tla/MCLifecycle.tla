---------------------------- MODULE MCLifecycle -----------------------------
(***************************************************************************)
(* The life of the module with a few tasks, processes and blocks.          *)
(***************************************************************************)
EXTENDS EdfLifecycle
=============================================================================
