----------------------------- MODULE OutputTree -----------------------------
(***************************************************************************)
(* The output tree under construction (src/exec/out.rs): an arena of       *)
(* nodes, the cursor stack of open scopes, and the child index a node gets *)
(* when it has INDEX_THRESHOLD children.                                   *)
(*                                                                         *)
(* A path operation (out.create, add, replace, add_attribute, open, enter) *)
(* is a loop over the segments of its path.  Begin starts the operation    *)
(* at the cursor, Step is one iteration of the loop, and the last          *)
(* iteration ends the operation; nothing else runs meanwhile.  Stepping    *)
(* through the loop keeps paths of every length within reach of a proof.   *)
(*                                                                         *)
(* Abstractions.  NodeId i of the code is position i + 1 of arena.  A      *)
(* node's attributes are the list the pool holds for it (module AttrPool). *)
(* The index maps a child key itself, where the code maps the key's 64-bit *)
(* hash: hash collisions are left out.  Of a text only its presence is     *)
(* kept; an operation's value is TRUE when one is given.  A path without   *)
(* segments ends the operation before the loop and changes nothing.        *)
(***************************************************************************)
EXTENDS Naturals, Sequences, FiniteSets

CONSTANTS Tag,         \* node names
          Attr,        \* attribute pairs
          InitLists,   \* attribute lists a path segment can carry
          Paths,       \* paths an operation is called with
          Vals,        \* whether a text is given: a subset of BOOLEAN
          Dot,         \* the tag of the segment "."
          Threshold,   \* INDEX_THRESHOLD
          MaxNodes,    \* bound: nodes allocated
          MaxDepth,    \* bound: cursor stack
          MaxAttrs     \* bound: attributes of one node

Segment == [tag : Tag \cup {Dot}, attribs : InitLists]

ASSUME ThresholdAssumption == Threshold \in Nat \ {0}
ASSUME BoundsAssumption == MaxNodes \in Nat /\ MaxDepth \in Nat /\ MaxAttrs \in Nat
ASSUME ListsAssumption == InitLists \subseteq Seq(Attr)
ASSUME PathsAssumption == Paths \subseteq Seq(Segment) \ {<<>>} /\ Vals \subseteq BOOLEAN
ASSUME DotAssumption == Dot \notin Tag

VARIABLES arena,     \* sequence of nodes
          stack,     \* cursor stack, a sequence of node ids
          op,        \* the running operation, kind "idle" between operations
          touched    \* history: nodes extended by push_node_attr

vars == <<arena, stack, op, touched>>

Root == 1
Cursor == stack[Len(stack)]
Kinds == {"create", "add", "replace", "attr", "open", "enter"}
Idle == [kind |-> "idle", segs |-> <<>>, val |-> FALSE, attr |-> <<>>, cur |-> Root]

Key(a, n) == [tag |-> a[n].name, attribs |-> a[n].attrs]

NewNode(seg, text) ==
    [name |-> seg.tag, attrs |-> seg.attribs, text |-> text,
     children |-> <<>>, indexed |-> FALSE, index |-> {}]

-----------------------------------------------------------------------------
(* Child management                                                        *)

\* Mutant: insert, the last child of a key wins.
InsertLast(ix, k, i) ==
    {e \in ix : e.key # k} \cup {[key |-> k, at |-> i]}

\* HashMap::entry(k).or_insert(i).
OrInsert(ix, k, i) ==
    IF \E e \in ix : e.key = k THEN ix ELSE ix \cup {[key |-> k, at |-> i]}

\* The first position of each key among the children ch.
FirstIndex(a, ch) ==
    LET Firsts == {i \in DOMAIN ch : \A h \in 1 .. i - 1 : Key(a, ch[h]) # Key(a, ch[i])}
    IN  {[key |-> Key(a, ch[i]), at |-> i] : i \in Firsts}

\* push_child: the index is made when the child pushed is number Threshold.
PushChild(a, p, c) ==
    LET ch    == a[p].children
        fresh == Len(ch) = Threshold - 1 /\ ~a[p].indexed
        base  == IF fresh THEN FirstIndex(a, ch) ELSE a[p].index
        on    == fresh \/ a[p].indexed
        ix    == IF on THEN OrInsert(base, Key(a, c), Len(ch) + 1) ELSE base
    IN  [a EXCEPT ![p] = [@ EXCEPT !.children = Append(ch, c),
                                   !.indexed = on,
                                   !.index = ix]]

\* Mutant: alloc answers the id of the node before.
AddNodeOffByOne(a, p, seg, text) ==
    PushChild(Append(a, NewNode(seg, text)), p, Len(a))

\* Node::new, alloc, set_node_attrs_raw and push_child under p.
AddNode(a, p, seg, text) ==
    PushChild(Append(a, NewNode(seg, text)), p, Len(a) + 1)

\* The positions find_child_idx may answer: the index entry when there is an
\* index, else every match of the linear scan, which answers the first.
Matches(a, p, seg) ==
    IF a[p].indexed
      THEN {e.at : e \in {x \in a[p].index : x.key = seg}}
      ELSE {i \in DOMAIN a[p].children : Key(a, a[p].children[i]) = seg}

Found(a, p, seg) == Matches(a, p, seg) # {}

FoundAt(a, p, seg) ==
    CHOOSE i \in Matches(a, p, seg) : \A j \in Matches(a, p, seg) : i <= j

\* Mutant: the index is not dropped below the threshold.
RebuiltAlwaysOn(a, p, ch) ==
    [a EXCEPT ![p] = [@ EXCEPT !.children = ch, !.index = FirstIndex(a, ch)]]

\* Mutant: the children change and the index stays.
NotRebuilt(a, p, ch) ==
    [a EXCEPT ![p] = [@ EXCEPT !.children = ch, !.indexed = Len(ch) >= Threshold]]

\* rebuild_index, after the children of p became ch.
Rebuilt(a, p, ch) ==
    LET on == Len(ch) >= Threshold
    IN  [a EXCEPT ![p] = [@ EXCEPT !.children = ch,
                                   !.indexed = on,
                                   !.index = IF on THEN FirstIndex(a, ch) ELSE {}]]

\* The i-th smallest number of S.
Nth(S, i) == CHOOSE k \in S : Cardinality({h \in S : h <= k}) = i

\* replace_path's filter: the children of p that do not match seg.
Kept(a, p, seg) ==
    LET ch == a[p].children
        at == {i \in DOMAIN ch : Key(a, ch[i]) # seg}
    IN  [i \in 1 .. Cardinality(at) |-> ch[Nth(at, i)]]

-----------------------------------------------------------------------------
(* Operations                                                              *)

Init == /\ arena = <<NewNode([tag |-> Dot, attribs |-> <<>>], FALSE)>>
        /\ stack = <<Root>>
        /\ op = Idle
        /\ touched = {}

Pushes(kind) == kind \in {"open", "enter"}

\* Mutant: the loop starts at the root instead of at the cursor.
BeginAtRoot(kind, path, val, attr) ==
    /\ op.kind = "idle"
    /\ Len(arena) + Len(path) <= MaxNodes
    /\ Pushes(kind) => Len(stack) < MaxDepth
    /\ kind = "attr" => \A n \in DOMAIN arena : Len(arena[n].attrs) < MaxAttrs
    /\ op' = [kind |-> kind, segs |-> path, val |-> val, attr |-> attr, cur |-> Root]
    /\ UNCHANGED <<arena, stack, touched>>

\* exec, up to the loop: the path is parsed and the loop starts at the cursor.
Begin(kind, path, val, attr) ==
    /\ op.kind = "idle"
    /\ Len(arena) + Len(path) <= MaxNodes
    /\ Pushes(kind) => Len(stack) < MaxDepth
    /\ kind = "attr" => \A n \in DOMAIN arena : Len(arena[n].attrs) < MaxAttrs
    /\ op' = [kind |-> kind, segs |-> path, val |-> val, attr |-> attr, cur |-> Cursor]
    /\ UNCHANGED <<arena, stack, touched>>

Seg == Head(op.segs)
IsLeaf == Len(op.segs) = 1
Running == op.kind # "idle"
MakesLeaf == IsLeaf /\ op.kind \in {"create", "open", "replace"}

\* The iteration ends with the loop at node n: on to the next segment, or
\* the end of the operation, where open and enter push the cursor.
Arrive(n) ==
    IF IsLeaf
      THEN /\ op' = Idle
           /\ stack' = IF Pushes(op.kind) THEN Append(stack, n) ELSE stack
      ELSE /\ op' = [op EXCEPT !.segs = Tail(@), !.cur = n]
           /\ UNCHANGED stack

\* What the leaf of a path does to node n of arena a once n is there: add
\* appends its text, add_attribute calls push_node_attr.
AtLeaf(a, n) ==
    CASE IsLeaf /\ op.kind = "add" -> [a EXCEPT ![n].text = @ \/ op.val]
      [] IsLeaf /\ op.kind = "attr" -> [a EXCEPT ![n].attrs = @ \o op.attr]
      [] OTHER -> a

Touch(n) == touched' = IF IsLeaf /\ op.kind = "attr" THEN touched \cup {n} ELSE touched

\* Segment ".": the current node itself; only its text or attributes change.
StepDot ==
    /\ Running /\ Seg.tag = Dot
    /\ arena' = IF IsLeaf /\ op.kind \in {"create", "replace"}
                  THEN [arena EXCEPT ![op.cur] = [@ EXCEPT !.text = op.val]]
                  ELSE AtLeaf(arena, op.cur)
    /\ Touch(op.cur)
    /\ Arrive(op.cur)

\* An intermediate segment, or the leaf of add, add_attribute or enter, that
\* find_child_idx finds.
StepInto ==
    /\ Running /\ Seg.tag # Dot /\ ~MakesLeaf
    /\ Found(arena, op.cur, Seg)
    /\ LET n == arena[op.cur].children[FoundAt(arena, op.cur, Seg)]
       IN  /\ arena' = AtLeaf(arena, n)
           /\ Touch(n)
           /\ Arrive(n)

\* A segment that is not found, or the fresh leaf of create and open.
StepNew ==
    /\ Running /\ Seg.tag # Dot
    /\ IF MakesLeaf THEN op.kind # "replace" ELSE ~Found(arena, op.cur, Seg)
    /\ LET n == Len(arena) + 1
           text == IsLeaf /\ op.kind \in {"create", "add"} /\ op.val
       IN  /\ arena' = AtLeaf(AddNode(arena, op.cur, Seg, text), n)
           /\ Touch(n)
           /\ Arrive(n)

\* The leaf of replace: drop the matching children, rebuild the index, push
\* the fresh leaf.
StepReplace ==
    /\ Running /\ Seg.tag # Dot /\ MakesLeaf /\ op.kind = "replace"
    /\ arena' = AddNode(Rebuilt(arena, op.cur, Kept(arena, op.cur, Seg)),
                        op.cur, Seg, op.val)
    /\ UNCHANGED touched
    /\ Arrive(Len(arena) + 1)

\* set_root_name.
SetRootName(name) ==
    /\ ~Running
    /\ arena' = [arena EXCEPT ![Root] = [@ EXCEPT !.name = name]]
    /\ UNCHANGED <<stack, op, touched>>

\* leave: the root scope stays.
Leave ==
    /\ ~Running
    /\ Len(stack) > 1
    /\ stack' = SubSeq(stack, 1, Len(stack) - 1)
    /\ UNCHANGED <<arena, op, touched>>

Call == \E path \in Paths :
          \/ \E kind \in {"create", "add", "replace"}, val \in Vals :
                Begin(kind, path, val, <<>>)
          \/ \E x \in Attr : Begin("attr", path, FALSE, <<x>>)
          \/ \E kind \in {"open", "enter"} : Begin(kind, path, FALSE, <<>>)

Next == \/ Call \/ StepDot \/ StepInto \/ StepNew \/ StepReplace
        \/ \E name \in Tag : SetRootName(name)
        \/ Leave

Spec == Init /\ [][Next]_vars

-----------------------------------------------------------------------------
(* Properties                                                              *)

Ids == 1 .. Len(arena)

NodeType == [name : Tag \cup {Dot}, attrs : Seq(Attr), text : BOOLEAN,
             children : Seq(Nat \ {0}), indexed : BOOLEAN,
             index : SUBSET [key : [tag : Tag \cup {Dot}, attribs : Seq(Attr)],
                             at : Nat \ {0}]]

TypeOK == /\ arena \in Seq(NodeType)
          /\ arena # <<>>
          /\ stack \in Seq(Ids)
          /\ stack # <<>>
          /\ op \in [kind : Kinds \cup {"idle"}, segs : Seq(Segment), val : BOOLEAN,
                     attr : Seq(Attr), cur : Ids]
          /\ Running => op.segs # <<>>
          /\ touched \subseteq Ids

\* The state is well typed, every child is younger than its parent, children
\* stand in creation order, and no node has two parents.
\* FlatTree::from_arena relies on it: it moves each node out of the arena
\* once and would leave a second parent an empty node.
IsTree == /\ TypeOK
          /\ \A p \in Ids : LET ch == arena[p].children IN
                \A i \in DOMAIN ch : /\ p < ch[i] /\ ch[i] <= Len(arena)
                                     /\ \A j \in 1 .. i - 1 : ch[j] < ch[i]
          /\ \A p, q \in Ids : \A i \in DOMAIN arena[p].children, j \in DOMAIN arena[q].children :
                arena[p].children[i] = arena[q].children[j] => p = q

\* The child index appears exactly with the Threshold-th child, also after a
\* replace that took a node below the threshold and above it again.
IndexIffWide == \A p \in Ids : arena[p].indexed <=> Len(arena[p].children) >= Threshold

IsPrefixOf(s, t) == Len(s) <= Len(t) /\ \A i \in 1 .. Len(s) : s[i] = t[i]

\* An index entry never points outside the children (find_child_idx would
\* make child_node_id panic) and never at a node of another name or of other
\* initial attributes, even when replace shifted the positions or
\* add_attribute changed a child behind the index.
IndexSound == \A p \in Ids : \A e \in arena[p].index :
    /\ e.at \in DOMAIN arena[p].children
    /\ LET c == arena[arena[p].children[e.at]] IN
         c.name = e.key.tag /\ IsPrefixOf(e.key.attribs, c.attrs)

\* Where no child was extended by add_attribute, lookup through the index
\* answers what the linear scan answers: replacing the scan by the index at
\* Threshold children changes no result.
LookupExact == \A p \in Ids :
    LET ch == arena[p].children IN
    (arena[p].indexed /\ \A i \in DOMAIN ch : ch[i] \notin touched)
        => arena[p].index = FirstIndex(arena, ch)

\* n is m or below m: in every set of nodes that has m and, with a node, all
\* its children.
Under(a, m, n) == \A S \in SUBSET (1 .. Len(a)) :
    (m \in S /\ \A p \in S : \A i \in DOMAIN a[p].children : a[p].children[i] \in S) => n \in S

\* Every open scope lies in the scopes opened before it, the root included:
\* no operation, replace above all, detaches a scope that is still open, so
\* what is written there reaches the output.
ScopesNested == \A i, j \in DOMAIN stack : i <= j => Under(arena, stack[i], stack[j])
OpenScopesAttached == stack[1] = Root /\ ScopesNested

\* out.add and out.add_attribute are documented to reuse a node of the same
\* name and attributes.
AddReuses ==
    \A p \in Ids : \A i \in DOMAIN arena[p].children :
        Found(arena, p, Key(arena, arena[p].children[i]))
=============================================================================
