----------------------------- MODULE MCInherit -----------------------------
(***************************************************************************)
(* Every parent function on four grammars, with an unknown parent.         *)
(***************************************************************************)
EXTENDS Inherit

MCGrammar == {"a", "b", "c", "d"}
MCName == MCGrammar \cup {"unknown"}
Few == {"a", "b"}
=============================================================================
