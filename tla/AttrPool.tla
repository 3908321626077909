------------------------------ MODULE AttrPool ------------------------------
(***************************************************************************)
(* The attribute pool of the output tree (src/exec/out.rs).  All attribute *)
(* pairs of all nodes live in one vector, attr_pool; a node holds only the *)
(* range (attr_start, attr_len).  Giving a fresh node its attributes       *)
(* appends to the pool; adding one attribute appends in place when the     *)
(* node's range ends where the pool ends, and otherwise moves the range to *)
(* the end first, leaving dead entries behind.                             *)
(*                                                                         *)
(* A pool index i of the code is position i + 1 of the sequence here;      *)
(* attr_start keeps its 0-based value.                                     *)
(***************************************************************************)
EXTENDS Naturals, Sequences

CONSTANTS Node, Attr, InitLists,
          Dead,       \* the default pair mem::take leaves behind
          MaxPool     \* bound on the pool, for model checking

ASSUME InitListsAssumption == InitLists \subseteq Seq(Attr)
ASSUME DeadAssumption == Dead \notin Attr
ASSUME MaxPoolAssumption == MaxPool \in Nat

VARIABLES attr_pool, attr_start, attr_len,
          live        \* nodes allocated so far

vars == <<attr_pool, attr_start, attr_len, live>>

\* The pool positions of node n's attributes.
Slots(n) == attr_start[n] + 1 .. attr_start[n] + attr_len[n]

\* node_attrs: the slice every reader takes.
Slice(n) == [i \in 1 .. attr_len[n] |-> attr_pool[attr_start[n] + i]]

Init == /\ attr_pool = <<>>
        /\ attr_start = [n \in Node |-> 0]
        /\ attr_len = [n \in Node |-> 0]
        /\ live = {}

\* Mutant: the start is taken after the first entry was pushed and stepped
\* back once too often.
SetNodeAttrsRawOffByOne(n, raw) ==
    /\ n \notin live
    /\ Len(attr_pool) + Len(raw) <= MaxPool
    /\ live' = live \cup {n}
    /\ attr_start' = [attr_start EXCEPT ![n] = Len(attr_pool) - 1]
    /\ attr_pool' = attr_pool \o raw
    /\ attr_len' = [attr_len EXCEPT ![n] = Len(raw)]

\* alloc, then set_node_attrs_raw on the fresh node.
SetNodeAttrsRaw(n, raw) ==
    /\ n \notin live
    /\ Len(attr_pool) + Len(raw) <= MaxPool
    /\ live' = live \cup {n}
    /\ attr_start' = [attr_start EXCEPT ![n] = Len(attr_pool)]
    /\ attr_pool' = attr_pool \o raw
    /\ attr_len' = [attr_len EXCEPT ![n] = Len(raw)]

\* Mutant: the tail test compares with the wrong end and takes a range that
\* ends inside the pool for one that ends at it.
AtTailAlways(n) == attr_start[n] + attr_len[n] <= Len(attr_pool)

AtTail(n) == attr_start[n] + attr_len[n] = Len(attr_pool)

\* Mutant: the entries are popped from the range's end and so reversed.
RelocatedReversed(n) ==
    [i \in 1 .. Len(attr_pool) |-> IF i \in Slots(n) THEN Dead ELSE attr_pool[i]]
      \o [i \in 1 .. attr_len[n] |-> Slice(n)[attr_len[n] + 1 - i]]

\* The pool after node n's entries were taken out of their places and
\* pushed at the end.
Relocated(n) ==
    [i \in 1 .. Len(attr_pool) |-> IF i \in Slots(n) THEN Dead ELSE attr_pool[i]]
      \o Slice(n)

\* Mutant: the relocation forgets to store the new start.
PushNodeAttrKeepStart(n, a) ==
    /\ n \in live
    /\ Len(attr_pool) + attr_len[n] + 1 <= MaxPool
    /\ attr_pool' = Append(IF AtTail(n) THEN attr_pool ELSE Relocated(n), a)
    /\ attr_len' = [attr_len EXCEPT ![n] = @ + 1]
    /\ UNCHANGED <<attr_start, live>>

\* push_node_attr.
PushNodeAttr(n, a) ==
    /\ n \in live
    /\ Len(attr_pool) + attr_len[n] + 1 <= MaxPool
    /\ IF AtTail(n)
         THEN /\ attr_pool' = Append(attr_pool, a)
              /\ UNCHANGED attr_start
         ELSE /\ attr_pool' = Append(Relocated(n), a)
              /\ attr_start' = [attr_start EXCEPT ![n] = Len(attr_pool)]
    /\ attr_len' = [attr_len EXCEPT ![n] = @ + 1]
    /\ UNCHANGED live

Next == \E n \in Node :
          \/ \E raw \in InitLists : SetNodeAttrsRaw(n, raw)
          \/ \E a \in Attr : PushNodeAttr(n, a)

Spec == Init /\ [][Next]_vars
-----------------------------------------------------------------------------
(* Properties                                                              *)

\* Types of the four variables.
TypeOK == /\ attr_pool \in Seq(Attr \cup {Dead})
          /\ attr_start \in [Node -> Nat]
          /\ attr_len \in [Node -> Nat]
          /\ live \subseteq Node

\* No slice is out of the pool's bounds (reading one would panic) and none
\* holds an entry that a relocation of another node took away.
RangesInPool == \A n \in Node : /\ attr_start[n] + attr_len[n] <= Len(attr_pool)
                                /\ \A i \in Slots(n) : attr_pool[i] \in Attr

\* No pool entry belongs to two nodes, so that taking one node's entries
\* for a relocation cannot disturb another node.
RangesDisjoint == \A m, n \in Node : m # n => Slots(m) \cap Slots(n) = {}

\* The pool implements private attribute lists: every step is a step of
\* NodeAttrs on the slices.
Private == INSTANCE NodeAttrs WITH attrs <- [n \in Node |-> Slice(n)]
ImplementsNodeAttrs == Private!Spec
=============================================================================
