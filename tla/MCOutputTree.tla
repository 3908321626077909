---------------------------- MODULE MCOutputTree ----------------------------
(* A small instance of OutputTree: the index appears with the second child. *)
EXTENDS OutputTree

CONSTANTS a, x

MCInitLists == {<<>>, <<x>>}
Plain(t) == [tag |-> t, attribs |-> <<>>]
Extended == [tag |-> a, attribs |-> <<x>>]
MCPaths == {<<Plain(a)>>, <<Extended>>, <<Plain(Dot)>>, <<Plain(a), Plain(a)>>,
            <<Plain(Dot), Extended>>}
MCShort == {<<Plain(a)>>, <<Extended>>, <<Plain(Dot)>>}
=============================================================================
