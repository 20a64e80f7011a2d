------------------------- MODULE MCSessionDeletion -------------------------
(* Instances of SessionDeletion for TLC. *)
EXTENDS SessionDeletion

CONSTANTS p1, p2, root, kid
=============================================================================
