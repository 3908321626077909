----------------------------- MODULE MCAttrPool -----------------------------
(* A small instance of AttrPool: lists of up to two attributes per segment. *)
EXTENDS AttrPool

CONSTANTS a1, a2

MCAttr == {a1, a2}
MCInitLists == {<<>>, <<a1>>, <<a1, a2>>}

=============================================================================
