-------------------------- MODULE MCDatastructures --------------------------
(***************************************************************************)
(* The containers of datastructures/, checked side by side: a run works on *)
(* one of them, the others keep their initial value.                       *)
(***************************************************************************)
EXTENDS UtHash, UtList, UtArray, UtStringFind

VARIABLE part     \* the container in use

MCHashFunctions == {[e \in Elements |-> 0], [e \in Elements |-> 2 * (e % 2)]}
MCRanks == {[e \in Elements |-> e % 2]}
MCNodeRanks == {[e \in Nodes |-> e], [e \in Nodes |-> e % 2]}

MCInit ==
  /\ part \in {"hash", "list", "array", "string"}
  /\ HashInit /\ ListInit /\ ArrayInit /\ StringInit
  /\ part # "hash" => /\ hashv = CHOOSE f \in HashFunctions : TRUE
                      /\ thresh = CHOOSE n \in Thresholds : TRUE
  /\ part # "list" => kind = "LL"

MCNext ==
  /\ UNCHANGED part
  /\ \/ part = "hash" /\ HashNext /\ UNCHANGED <<listVars, arrayVars, stringVars>>
     \/ part = "list" /\ ListNext /\ UNCHANGED <<hashVars, arrayVars, stringVars>>
     \/ part = "array" /\ ArrayNext /\ UNCHANGED <<hashVars, listVars, stringVars>>
     \/ part = "string" /\ StringNext /\ UNCHANGED <<hashVars, listVars, arrayVars>>

MCSpec == MCInit /\ [][MCNext]_<<part, hashVars, listVars, arrayVars, stringVars>>
=============================================================================
