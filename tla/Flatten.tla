------------------------------ MODULE Flatten ------------------------------
(***************************************************************************)
(* Compaction of the finished output tree (compact_and_flatten of          *)
(* src/exec/out.rs): every node's children are brought into groups of one  *)
(* name, bottom up, and the nodes are then moved, breadth first, out of    *)
(* the arena into one sequence, in which the children of a node are a      *)
(* range.                                                                  *)
(*                                                                         *)
(* The arena is any that OutputTree can build: a child has one parent and  *)
(* is younger than it, and a node that replace dropped stays behind        *)
(* without a parent.  compact_node's recursion is the stack calls, its two *)
(* loops over the children of a node are GroupChild and PushGroup, and     *)
(* from_arena's loop is Take.                                              *)
(*                                                                         *)
(* Abstractions.  NodeId i of the code is node i + 1.  Of the pushes of    *)
(* from_arena's queue the whole sequence is kept (order); the queue is     *)
(* what follows the nodes already moved.  A flat node is the node it came  *)
(* from and its range; the name, text and attributes move along.  The code *)
(* skips the reordering when it would change nothing.  The width of        *)
(* next_child_start is left out.                                           *)
(***************************************************************************)
EXTENDS Naturals, Sequences

CONSTANTS Size,     \* nodes in the arena
          Names     \* names of nodes

ASSUME SizeAssumption == Size \in Nat \ {0}

Node == 1 .. Size
Root == 1

VARIABLES born,      \* the children each node was built with, oldest first
          name,      \* the name of each node
          children,  \* the children of each node, in their present order
          calls,     \* compact_node's recursion, outermost call first
          groups,    \* the groups of the node being compacted
          pushed,    \* its new children
          phase,     \* "visit", "group", "push" in compact_node, "flat"
          order,     \* every node pushed to the queue, in order
          nodes,     \* the flat tree
          next       \* next_child_start

vars == <<born, name, children, calls, groups, pushed, phase, order, nodes, next>>

Image(s) == {s[i] : i \in DOMAIN s}

\* Lists of children, oldest first.
Lists == {s \in UNION {[1 .. k -> Node \ {Root}] : k \in 0 .. Size - 1} :
            \A i, j \in DOMAIN s : i < j => s[i] < s[j]}

\* A child is younger than its parent and has no other.
Arena == \A n \in Node : \A c \in Image(born[n]) :
            n < c /\ \A m \in Node : c \in Image(born[m]) => m = n

\* Mutant: children are counted from 0.
CallFromZero(n) == [node |-> n, at |-> 0]

Call(n) == [node |-> n, at |-> 1]
Top == calls[Len(calls)]
Below == SubSeq(calls, 1, Len(calls) - 1)

Init == /\ born \in [Node -> Lists] /\ Arena
        /\ name \in [Node -> Names]
        /\ children = born
        /\ calls = <<Call(Root)>> /\ phase = "visit"
        /\ groups = <<>> /\ pushed = <<>>
        /\ order = <<Root>> /\ nodes = <<>> /\ next = 1

-----------------------------------------------------------------------------
(* compact_node                                                            *)

\* Mutant: the loop over the children does not advance.
VisitAgain ==
    /\ phase = "visit" /\ calls # <<>>
    /\ Top.at <= Len(children[Top.node])
    /\ calls' = Append(calls, Call(children[Top.node][Top.at]))
    /\ UNCHANGED <<born, name, children, groups, pushed, phase, order, nodes, next>>

\* The next child is compacted first.
Visit ==
    /\ phase = "visit" /\ calls # <<>>
    /\ Top.at <= Len(children[Top.node])
    /\ calls' = Append(Append(Below, [Top EXCEPT !.at = @ + 1]),
                       Call(children[Top.node][Top.at]))
    /\ UNCHANGED <<born, name, children, groups, pushed, phase, order, nodes, next>>

\* All children are compacted: they are grouped.
Visited ==
    /\ phase = "visit" /\ calls # <<>>
    /\ Top.at > Len(children[Top.node])
    /\ calls' = Append(Below, [Top EXCEPT !.at = 1])
    /\ phase' = "group"
    /\ UNCHANGED <<born, name, children, groups, pushed, order, nodes, next>>

\* Mutant: a new group whenever the name is not the one before.
GroupOfLast(c) == {g \in DOMAIN groups : g = Len(groups) /\ name[groups[g][1]] = name[c]}

\* group_map: the group of the name of c, none at its first child.
GroupOf(c) == {g \in DOMAIN groups : name[groups[g][1]] = name[c]}

\* The child goes to the group of its name, or starts one.
GroupChild ==
    /\ phase = "group" /\ Top.at <= Len(children[Top.node])
    /\ LET c == children[Top.node][Top.at] IN
         groups' = IF GroupOf(c) = {} THEN Append(groups, <<c>>)
                   ELSE [g \in DOMAIN groups |->
                           IF g \in GroupOf(c) THEN Append(groups[g], c) ELSE groups[g]]
    /\ calls' = Append(Below, [Top EXCEPT !.at = @ + 1])
    /\ UNCHANGED <<born, name, children, pushed, phase, order, nodes, next>>

Grouped ==
    /\ phase = "group" /\ Top.at > Len(children[Top.node])
    /\ phase' = "push"
    /\ UNCHANGED <<born, name, children, calls, groups, pushed, order, nodes, next>>

\* Mutant: the first child of a group is pushed, the rest forgotten.
PushFirst ==
    /\ phase = "push" /\ groups # <<>>
    /\ pushed' = Append(pushed, groups[1][1])
    /\ groups' = Tail(groups)
    /\ UNCHANGED <<born, name, children, calls, phase, order, nodes, next>>

\* The groups one after the other are the new children.
PushGroup ==
    /\ phase = "push" /\ groups # <<>>
    /\ pushed' = pushed \o Head(groups)
    /\ groups' = Tail(groups)
    /\ UNCHANGED <<born, name, children, calls, phase, order, nodes, next>>

\* The call returns.
Pushed ==
    /\ phase = "push" /\ groups = <<>>
    /\ children' = [children EXCEPT ![Top.node] = pushed]
    /\ pushed' = <<>>
    /\ calls' = Below
    /\ phase' = IF Below = <<>> THEN "flat" ELSE "visit"
    /\ UNCHANGED <<born, name, groups, order, nodes, next>>

-----------------------------------------------------------------------------
(* from_arena                                                              *)

\* Mutant: the loop ends with a node left in the queue.
QueueShort == SubSeq(order, Len(nodes) + 1, Len(order) - 1)

Queue == SubSeq(order, Len(nodes) + 1, Len(order))

\* Mutant: the start does not advance.
TakeInPlace ==
    /\ phase = "flat" /\ Queue # <<>>
    /\ LET n == Head(Queue)
           k == Len(children[n])
       IN  /\ order' = order \o children[n]
           /\ nodes' = Append(nodes, [from |-> n, start |-> IF k > 0 THEN next ELSE 0, len |-> k])
           /\ next' = k + 1
    /\ UNCHANGED <<born, name, children, calls, groups, pushed, phase>>

\* The next node moves; its children join the queue, and their range is known.
Take ==
    /\ phase = "flat" /\ Queue # <<>>
    /\ LET n == Head(Queue)
           k == Len(children[n])
       IN  /\ order' = order \o children[n]
           /\ nodes' = Append(nodes, [from |-> n, start |-> IF k > 0 THEN next ELSE 0, len |-> k])
           /\ next' = next + k
    /\ UNCHANGED <<born, name, children, calls, groups, pushed, phase>>

Next == Visit \/ Visited \/ GroupChild \/ Grouped \/ PushGroup \/ Pushed \/ Take
Spec == Init /\ [][Next]_vars

\* One thread that runs until it returns.
FairSpec == Spec /\ WF_vars(Next)

-----------------------------------------------------------------------------
(* Properties                                                              *)

Phases == {"visit", "group", "push", "flat"}
FlatNode == [from : Node, start : Nat, len : Nat]

TypeOK == /\ born \in [Node -> Lists] /\ name \in [Node -> Names]
          /\ children \in [Node -> Seq(Node)]
          /\ calls \in Seq([node : Node, at : Nat \ {0}])
          /\ groups \in Seq(Seq(Node)) /\ pushed \in Seq(Node) /\ phase \in Phases
          /\ order \in Seq(Node) /\ nodes \in Seq(FlatNode) /\ next \in Nat

\* children_of answers, for every flat node, the flat nodes of its children:
\* the range recorded before they were moved is where they then arrive, none
\* is lost, and no node is moved twice (it would be an empty node then).
\* start counts from 0.
RangesExact ==
    /\ \A i \in DOMAIN nodes :
         /\ nodes[i].len = Len(children[nodes[i].from])
         /\ \A j \in 1 .. nodes[i].len :
              LET at == nodes[i].start + j IN
              at \in DOMAIN nodes => nodes[at].from = children[nodes[i].from][j]
    /\ \A i, j \in DOMAIN nodes : nodes[i].from = nodes[j].from => i = j

Done == phase = "flat" /\ Queue = <<>>

\* When from_arena returns, every range lies in the sequence and every node of
\* the output tree, and no detached one, is there.
Reachable == {n \in Node : \A S \in SUBSET Node :
                 Root \in S /\ (\A m \in S : Image(born[m]) \subseteq S) => n \in S}
NothingLost ==
    Done => /\ {nodes[i].from : i \in DOMAIN nodes} = Reachable
            /\ \A i \in DOMAIN nodes : nodes[i].start + nodes[i].len <= Len(nodes)

\* Reordering permutes: a node has the children it was built with.
ChildrenKept ==
    \A n \in Node : /\ Image(children[n]) = Image(born[n])
                    /\ \A i, j \in DOMAIN children[n] :
                          children[n][i] = children[n][j] => i = j

\* iter_child_groups yields one group per name: children of one name stand
\* together and keep their order, and the groups stand in the order in which
\* their names first appeared.
OldestOf(n, c) == \A d \in Image(children[n]) : name[d] = name[c] => c <= d
GroupsContiguous ==
    \A i \in DOMAIN nodes :
      LET ch == children[nodes[i].from] IN
      \A a, b \in DOMAIN ch : a < b =>
        /\ name[ch[a]] = name[ch[b]] =>
             ch[a] < ch[b] /\ \A k \in a .. b : name[ch[k]] = name[ch[a]]
        /\ OldestOf(nodes[i].from, ch[a]) /\ OldestOf(nodes[i].from, ch[b]) => ch[a] < ch[b]

\* The recursion and the queue come to an end.
Terminates == <>Done
=============================================================================
