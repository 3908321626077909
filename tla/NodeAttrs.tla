----------------------------- MODULE NodeAttrs ------------------------------
(***************************************************************************)
(* What the output tree promises about attributes, as its readers          *)
(* (node_attrs, FlatTree::attrs_of, find_child_idx) see it: every node     *)
(* owns a list of attributes, given when the node is created and extended  *)
(* one pair at a time.  No operation on one node is visible on another.    *)
(***************************************************************************)
EXTENDS Sequences

CONSTANTS Node,       \* node identities
          Attr,       \* attribute pairs (key, value)
          InitLists   \* attribute lists a path segment can carry

VARIABLES attrs,      \* attrs[n]: the attribute list of node n
          live        \* nodes allocated so far

vars == <<attrs, live>>

Init == /\ attrs = [n \in Node |-> <<>>]
        /\ live = {}

\* A node is allocated with the attributes of its path segment.
Create(n, raw) ==
    /\ n \notin live
    /\ live' = live \cup {n}
    /\ attrs' = [attrs EXCEPT ![n] = raw]

\* One attribute is added at the end of the node's list.
Push(n, a) ==
    /\ n \in live
    /\ attrs' = [attrs EXCEPT ![n] = Append(@, a)]
    /\ UNCHANGED live

Next == \E n \in Node :
          \/ \E raw \in InitLists : Create(n, raw)
          \/ \E a \in Attr : Push(n, a)

Spec == Init /\ [][Next]_vars
=============================================================================
