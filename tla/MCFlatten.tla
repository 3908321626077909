----------------------------- MODULE MCFlatten -----------------------------
(* Every arena of five nodes with two names.                               *)
EXTENDS Flatten
=============================================================================
