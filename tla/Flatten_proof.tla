--------------------------- MODULE Flatten_proof ---------------------------
(***************************************************************************)
(* Compaction permutes the children of every node into groups, and the     *)
(* ranges of the flat tree are exact, for arenas and names of any number.  *)
(*                                                                         *)
(* While a node is compacted its children are in the new list, in a group  *)
(* or still to be grouped, each once: Held says which, Apart that none is  *)
(* twice; a child joins one group because the groups' names differ         *)
(* (NamesApart).  While nodes are moved the queue holds each node at most  *)
(* once (Once), because all but the root are children of a node that was   *)
(* moved before (Come), and every range points to where the children were  *)
(* queued (Ranges).                                                        *)
(*                                                                         *)
(* That the children end up grouped takes two more invariants.  SortInv    *)
(* says that the new list and the groups are in order, the new list before *)
(* the groups.  TidyInv says that the recursion leaves every node compact: *)
(* the calls form a path, and what is left of it in the tree is done.      *)
(***************************************************************************)
EXTENDS Flatten, TLAPS, SequenceTheorems

Injective(s) == \A i, j \in DOMAIN s : s[i] = s[j] => i = j
Kids(n) == Image(born[n])
Grouping == phase \in {"group", "push"}

\* The children in some group.
InGroups == UNION {Image(groups[g]) : g \in DOMAIN groups}

\* The children looked at so far, or all of them.
FirstOf(s, k) == {s[i] : i \in 1 .. k}
Seen == IF phase = "group" THEN FirstOf(children[Top.node], Top.at - 1)
        ELSE Image(children[Top.node])

Stack == /\ phase # "flat" => calls # <<>>
         /\ ~Grouping => groups = <<>>
         /\ phase # "push" => pushed = <<>>
         /\ phase = "group" => Top.at <= Len(children[Top.node]) + 1
Held == Grouping => Image(pushed) \cup InGroups = Seen
Apart == /\ Injective(pushed)
         /\ Image(pushed) \cap InGroups = {}
         /\ \A g \in DOMAIN groups : groups[g] # <<>> /\ Injective(groups[g])
         /\ \A g, h \in DOMAIN groups : Image(groups[g]) \cap Image(groups[h]) # {} => g = h
NamesApart == \A g, h \in DOMAIN groups : name[groups[g][1]] = name[groups[h][1]] => g = h

NotYet == phase # "flat" => order = <<Root>> /\ nodes = <<>>
Counted == Len(nodes) <= Len(order) /\ order # <<>> /\ order[1] = Root /\ next = Len(order)
Ranges == \A i \in DOMAIN nodes :
            /\ nodes[i].from = order[i] /\ nodes[i].len = Len(children[order[i]])
            /\ nodes[i].start + nodes[i].len <= Len(order)
            /\ \A j \in 1 .. nodes[i].len :
                 order[nodes[i].start + j] = children[order[i]][j]
Once == Injective(order)
Come == \A j \in 2 .. Len(order) : \E i \in 1 .. Len(nodes) : order[j] \in Kids(order[i])
Least == \A S \in SUBSET Node :
            Root \in S /\ (\A m \in S : Kids(m) \subseteq S) => Image(order) \subseteq S

IInv == /\ TypeOK /\ Arena /\ ChildrenKept
        /\ Stack /\ Held /\ Apart /\ NamesApart
        /\ NotYet /\ Counted /\ Ranges /\ Once /\ Come /\ Least

-----------------------------------------------------------------------------
(* Sequences                                                               *)

\* The image of a concatenation.
LEMMA ConcatImage ==
    ASSUME NEW T, NEW s \in Seq(T), NEW t \in Seq(T)
    PROVE  Image(s \o t) = Image(s) \cup Image(t)
<1>1. /\ s \o t \in Seq(T) /\ Len(s \o t) = Len(s) + Len(t)
      /\ Len(s) \in Nat /\ Len(t) \in Nat
      /\ DOMAIN s = 1 .. Len(s) /\ DOMAIN t = 1 .. Len(t)
      /\ DOMAIN (s \o t) = 1 .. Len(s) + Len(t)
  OBVIOUS
<1>2. \A i \in 1 .. Len(s) : (s \o t)[i] = s[i] /\ i \in 1 .. Len(s) + Len(t)
  BY <1>1
<1>3. \A j \in 1 .. Len(t) : (s \o t)[Len(s) + j] = t[j] /\ Len(s) + j \in 1 .. Len(s) + Len(t)
  BY <1>1
<1>4. ASSUME NEW i \in 1 .. Len(s) + Len(t)
      PROVE  (s \o t)[i] \in Image(s) \cup Image(t)
  <2>1. CASE i \in 1 .. Len(s)
    BY <2>1, <1>1, <1>2 DEF Image
  <2>2. CASE i \notin 1 .. Len(s)
    <3>1. i - Len(s) \in 1 .. Len(t) /\ Len(s) + (i - Len(s)) = i
      BY <2>2, <1>1
    <3>2. (s \o t)[i] = t[i - Len(s)]
      BY <3>1, <1>3
    <3> QED BY <3>1, <3>2, <1>1 DEF Image
  <2> QED BY <2>1, <2>2
<1>5. Image(s \o t) \subseteq Image(s) \cup Image(t)
  BY <1>1, <1>4, Zenon DEF Image
<1>6. Image(s) \subseteq Image(s \o t)
  BY <1>1, <1>2 DEF Image
<1>7. Image(t) \subseteq Image(s \o t)
  BY <1>1, <1>3 DEF Image
<1> QED BY <1>5, <1>6, <1>7

\* Two lists without repetition and nothing in common.
LEMMA ConcatInjective ==
    ASSUME NEW T, NEW s \in Seq(T), NEW t \in Seq(T),
           Injective(s), Injective(t), Image(s) \cap Image(t) = {}
    PROVE  Injective(s \o t)
<1> DEFINE u == s \o t
<1>1. /\ Len(s) \in Nat /\ Len(t) \in Nat
      /\ DOMAIN s = 1 .. Len(s) /\ DOMAIN t = 1 .. Len(t)
      /\ DOMAIN u = 1 .. Len(s) + Len(t)
  OBVIOUS
<1>2. \A i \in 1 .. Len(s) : u[i] = s[i] /\ u[i] \in Image(s)
  BY <1>1 DEF Image
<1>3. ASSUME NEW i \in DOMAIN u, i \notin 1 .. Len(s)
      PROVE  i - Len(s) \in 1 .. Len(t) /\ u[i] = t[i - Len(s)] /\ u[i] \in Image(t)
  <2>1. i - Len(s) \in 1 .. Len(t)
    BY <1>1, <1>3
  <2>2. u[i] = t[i - Len(s)]
    BY <1>1, <1>3
  <2> QED BY <2>1, <2>2, <1>1 DEF Image
<1> HIDE DEF u
<1> SUFFICES ASSUME NEW i \in DOMAIN u, NEW j \in DOMAIN u, u[i] = u[j] PROVE i = j
  BY DEF Injective, u
<1>4. CASE i \in 1 .. Len(s) /\ j \in 1 .. Len(s)
  BY <1>1, <1>2, <1>4 DEF Injective
<1>5. CASE i \notin 1 .. Len(s) /\ j \notin 1 .. Len(s)
  <2>1. i - Len(s) = j - Len(s)
    BY <1>1, <1>3, <1>5 DEF Injective
  <2> QED BY <2>1, <1>1
<1>6. CASE i \in 1 .. Len(s) /\ j \notin 1 .. Len(s)
  BY <1>2, <1>3, <1>6
<1>7. CASE i \notin 1 .. Len(s) /\ j \in 1 .. Len(s)
  BY <1>2, <1>3, <1>7
<1> QED BY <1>4, <1>5, <1>6, <1>7

\* Appending is concatenating one element.
LEMMA AppendOne ==
    ASSUME NEW T, NEW s \in Seq(T), NEW x \in T
    PROVE  /\ Image(Append(s, x)) = Image(s) \cup {x}
           /\ (Injective(s) /\ x \notin Image(s)) => Injective(Append(s, x))
<1> DEFINE t == <<x>>
<1>1. t \in Seq(T) /\ Image(t) = {x} /\ Injective(t)
  BY DEF Image, Injective
<1>2. Append(s, x) = s \o t
  OBVIOUS
<1> HIDE DEF t
<1>3. Image(s \o t) = Image(s) \cup {x}
  BY <1>1, ConcatImage
<1>4. ASSUME Injective(s), x \notin Image(s) PROVE Injective(s \o t)
  <2>1. Image(s) \cap Image(t) = {}
    BY <1>1, <1>4
  <2> QED BY <1>1, <1>4, <2>1, ConcatInjective
<1> QED BY <1>2, <1>3, <1>4 DEF t

\* Appending, position by position.
LEMMA AppendFacts ==
    ASSUME NEW T, NEW s \in Seq(T), NEW x \in T
    PROVE  /\ Append(s, x) \in Seq(T) /\ Len(s) \in Nat
           /\ DOMAIN s = 1 .. Len(s) /\ DOMAIN Append(s, x) = 1 .. Len(s) + 1
           /\ Append(s, x)[Len(s) + 1] = x
           /\ \A i \in 1 .. Len(s) : Append(s, x)[i] = s[i]
OBVIOUS

\* What a stack is without its top.
LEMMA Front ==
    ASSUME NEW T, NEW s \in Seq(T), s # <<>>
    PROVE  SubSeq(s, 1, Len(s) - 1) \in Seq(T) /\ s[Len(s)] \in T
<1>1. Len(s) \in Nat \ {0}
  OBVIOUS
<1>2. \A i \in 1 .. Len(s) - 1 : s[i] \in T
  BY <1>1
<1> DEFINE n == Len(s) - 1
<1>3. n \in Int /\ 1 \in Int /\ \A i \in 1 .. n : s[i] \in T
  BY <1>1, <1>2
<1> HIDE DEF n
<1>4. SubSeq(s, 1, n) \in Seq(T)
  BY <1>3, SubSeqProperties
<1> QED BY <1>1, <1>4 DEF n

-----------------------------------------------------------------------------

CallType == [node : Node, at : Nat \ {0}]

LEMMA NodeFacts == Root \in Node /\ Node \subseteq Nat
BY SizeAssumption DEF Root, Node

\* A list of children is a sequence of nodes without repetition.
LEMMA ListOK == ASSUME NEW s \in Lists PROVE s \in Seq(Node) /\ Injective(s)
<1>1. PICK k \in 0 .. Size - 1 : s \in [1 .. k -> Node \ {Root}]
  BY DEF Lists
<1>2. \A i, j \in DOMAIN s : i < j => s[i] < s[j]
  BY DEF Lists
<1>3. s \in Seq(Node)
  BY <1>1
<1>4. ASSUME NEW i \in 1 .. k, NEW j \in 1 .. k, s[i] = s[j] PROVE i = j
  <2>0. s[i] \in Nat
    BY <1>1, NodeFacts
  <2>1. ~(s[i] < s[j]) /\ ~(s[j] < s[i])
    BY <1>4, <2>0
  <2>2. ~(i < j) /\ ~(j < i)
    BY <1>1, <1>2, <2>1
  <2> QED BY <2>2
<1>5. Injective(s)
  BY <1>1, <1>4 DEF Injective
<1> QED BY <1>3, <1>5

\* The children of a node are nodes other than the root.
LEMMA KidsOK ==
    ASSUME TypeOK, Arena, ChildrenKept, NEW n \in Node
    PROVE  /\ children[n] \in Seq(Node) /\ Injective(children[n])
           /\ Image(children[n]) = Kids(n) /\ Kids(n) \subseteq Node \ {Root}
<1>1. children[n] \in Seq(Node) /\ Image(children[n]) \subseteq Node
  BY DEF TypeOK, Image
<1>2. Injective(children[n]) /\ Image(children[n]) = Kids(n)
  BY DEF ChildrenKept, Injective, Kids
<1>3. \A c \in Kids(n) : n < c
  BY DEF Arena, Kids
<1>4. Root \notin Kids(n)
  BY <1>3 DEF Root, Node
<1> QED BY <1>1, <1>2, <1>4

\* The running call and those that wait.
LEMMA CallsOK ==
    ASSUME TypeOK, calls # <<>>
    PROVE  Top \in CallType /\ Top.node \in Node /\ Top.at \in Nat \ {0} /\ Below \in Seq(CallType)
<1>1. calls \in Seq(CallType)
  BY DEF TypeOK, CallType
<1>2. Top \in CallType /\ Below \in Seq(CallType)
  BY <1>1, Front DEF Top, Below
<1> QED BY <1>2 DEF CallType

\* Replacing the top of the stack.
LEMMA Replace ==
    ASSUME NEW s \in Seq(CallType), NEW r \in CallType, calls' = Append(s, r)
    PROVE  calls' \in Seq(CallType) /\ calls' # <<>> /\ Top' = r
<1>1. Len(calls') = Len(s) + 1 /\ calls'[Len(s) + 1] = r /\ Len(s) \in Nat
  OBVIOUS
<1>2. calls' \in Seq(CallType) /\ calls' # <<>>
  BY <1>1
<1> QED BY <1>1, <1>2 DEF Top

LEMMA InitInv == Init => IInv
<1> SUFFICES ASSUME Init PROVE IInv
  OBVIOUS
<1> USE DEF Init
<1>1. \A n \in Node : children[n] \in Seq(Node) /\ Injective(children[n])
  BY ListOK
<1>2. children \in [Node -> Seq(Node)]
  <2>1. children \in [Node -> Lists]
    OBVIOUS
  <2> QED BY <1>1, <2>1
<1>3. Call(Root) \in CallType /\ calls \in Seq(CallType) /\ calls # <<>>
  BY NodeFacts DEF Call, CallType
<1>4. order \in Seq(Node) /\ Len(order) = 1 /\ order[1] = Root /\ Image(order) = {Root}
  BY NodeFacts DEF Image
<1>5. TypeOK
  BY <1>2, <1>3, <1>4 DEF TypeOK, Phases, FlatNode, CallType
<1>6. ChildrenKept
  BY <1>1 DEF ChildrenKept, Injective
<1>7. Stack /\ Held /\ NamesApart
  BY <1>3 DEF Stack, Held, Grouping, NamesApart
<1>8. Apart
  BY DEF Apart, Injective, Image, InGroups
<1>9. NotYet /\ Counted /\ Ranges /\ Once /\ Come
  BY <1>4 DEF NotYet, Counted, Ranges, Once, Injective, Come
<1>10. Least
  BY <1>4 DEF Least
<1> QED BY <1>5, <1>6, <1>7, <1>8, <1>9, <1>10 DEF IInv

\* Until the first node is moved, the queue holds the root alone.
LEMMA BeforeFlat ==
    ASSUME IInv, phase # "flat", UNCHANGED <<born, order, nodes, next>>
    PROVE  (NotYet /\ Counted /\ Ranges /\ Once /\ Come /\ Least)'
<1>1. order' = <<Root>> /\ nodes' = <<>> /\ next' = 1
  BY DEF IInv, NotYet, Counted
<1>2. Least'
  BY DEF IInv, Least, Kids, Image
<1>3. Once'
  BY DEF IInv, Once, Injective
<1>4. NotYet' /\ Counted' /\ Ranges' /\ Come'
  BY <1>1 DEF NotYet, Counted, Ranges, Come
<1> QED BY <1>2, <1>3, <1>4

\* The children of a node that no step of the loop changes.
LEMMA SameArena ==
    ASSUME IInv, UNCHANGED <<born, children>>
    PROVE  Arena' /\ ChildrenKept'
BY DEF IInv, Arena, ChildrenKept, Image

LEMMA SameGroups ==
    ASSUME IInv, UNCHANGED <<name, groups, pushed>>
    PROVE  Apart' /\ NamesApart'
BY DEF IInv, Apart, NamesApart, InGroups, Image, Injective

\* The next child is visited: nothing but the stack changes.
LEMMA VisitInv == IInv /\ Visit => IInv'
<1> SUFFICES ASSUME IInv, Visit PROVE IInv'
  OBVIOUS
<1> DEFINE c == children[Top.node][Top.at]
           r == [Top EXCEPT !.at = @ + 1]
<1>1. /\ phase = "visit" /\ phase' = "visit" /\ calls # <<>> /\ TypeOK
      /\ Top.at <= Len(children[Top.node])
      /\ calls' = Append(Append(Below, r), Call(c))
      /\ UNCHANGED <<born, name, children, groups, pushed, order, nodes, next>>
  BY DEF Visit, IInv
<1>2. Top \in CallType /\ Top.node \in Node /\ Top.at \in Nat \ {0} /\ Below \in Seq(CallType)
  BY <1>1, CallsOK
<1>3. children[Top.node] \in Seq(Node)
  BY <1>1, <1>2 DEF TypeOK
<1>4. c \in Node
  BY <1>1, <1>2, <1>3
<1>5. r \in CallType /\ Call(c) \in CallType
  BY <1>2, <1>4 DEF CallType, Call
<1>6. Append(Below, r) \in Seq(CallType)
  BY <1>2, <1>5
<1> HIDE DEF c, r
<1>7. calls' \in Seq(CallType) /\ calls' # <<>>
  BY <1>1, <1>5, <1>6, Replace
<1>8. TypeOK'
  BY <1>1, <1>7 DEF TypeOK, CallType
<1>9. Stack' /\ Held'
  BY <1>1, <1>7 DEF IInv, Stack, Held, Grouping
<1> QED BY <1>1, <1>8, <1>9, BeforeFlat, SameArena, SameGroups DEF IInv

\* Grouping starts: no child has been looked at.
LEMMA VisitedInv == IInv /\ Visited => IInv'
<1> SUFFICES ASSUME IInv, Visited PROVE IInv'
  OBVIOUS
<1> DEFINE r == [Top EXCEPT !.at = 1]
<1>1. /\ phase = "visit" /\ phase' = "group" /\ calls # <<>> /\ TypeOK
      /\ calls' = Append(Below, r)
      /\ UNCHANGED <<born, name, children, groups, pushed, order, nodes, next>>
  BY DEF Visited, IInv
<1>2. Top \in CallType /\ Top.node \in Node /\ Below \in Seq(CallType)
  BY <1>1, CallsOK
<1>3. r \in CallType /\ r.at = 1 /\ r.node \in Node
  BY <1>2 DEF CallType
<1> HIDE DEF r
<1>4. calls' \in Seq(CallType) /\ calls' # <<>> /\ Top' = r
  BY <1>1, <1>2, <1>3, Replace
<1>5. TypeOK'
  BY <1>1, <1>4 DEF TypeOK, CallType, Phases
<1>6. groups = <<>> /\ pushed = <<>>
  BY <1>1 DEF IInv, Stack, Grouping
<1>7. Len(children[r.node]) \in Nat
  BY <1>1, <1>3 DEF TypeOK
<1>8. Stack'
  BY <1>1, <1>3, <1>4, <1>6, <1>7 DEF Stack, Grouping
<1>9. Held'
  <2>1. Seen' = FirstOf(children'[Top'.node], Top'.at - 1)
    BY <1>1 DEF Seen, FirstOf
  <2>2. 1 .. Top'.at - 1 = {}
    BY <1>3, <1>4
  <2>3. Seen' = {}
    BY <2>1, <2>2 DEF FirstOf
  <2>4. Image(pushed') = {} /\ InGroups' = {}
    BY <1>1, <1>6 DEF Image, InGroups
  <2> QED BY <2>3, <2>4 DEF Held
<1> QED BY <1>1, <1>5, <1>8, <1>9, BeforeFlat, SameArena, SameGroups DEF IInv

\* The loop over the children has ended: all of them are in a group.
LEMMA GroupedInv == IInv /\ Grouped => IInv'
<1> SUFFICES ASSUME IInv, Grouped PROVE IInv'
  OBVIOUS
<1>1. /\ phase = "group" /\ phase' = "push" /\ TypeOK
      /\ Top.at > Len(children[Top.node])
      /\ UNCHANGED <<born, name, children, calls, groups, pushed, order, nodes, next>>
  BY DEF Grouped, IInv
<1>2. calls # <<>> /\ Top.at <= Len(children[Top.node]) + 1
  BY <1>1 DEF IInv, Stack
<1>3. Top.node \in Node /\ Top.at \in Nat \ {0}
  BY <1>1, <1>2, CallsOK
<1>4. Len(children[Top.node]) \in Nat /\ DOMAIN children[Top.node] = 1 .. Len(children[Top.node])
  BY <1>1, <1>3 DEF TypeOK
<1>5. TypeOK'
  BY <1>1 DEF TypeOK, Phases
<1>6. Stack'
  BY <1>1, <1>2 DEF IInv, Stack, Grouping
<1>7. Held'
  <2>1. Top.at - 1 = Len(children[Top.node])
    BY <1>1, <1>2, <1>3, <1>4
  <2>2. FirstOf(children[Top.node], Top.at - 1) = Image(children[Top.node])
    BY <1>4, <2>1 DEF Image, FirstOf
  <2>3. Image(pushed) \cup InGroups = Image(children[Top.node])
    BY <1>1, <2>2 DEF IInv, Held, Grouping, Seen
  <2>4. Image(pushed') \cup InGroups' = Image(pushed) \cup InGroups
    BY <1>1 DEF Image, InGroups
  <2>5. Seen' = Image(children[Top.node])
    BY <1>1 DEF Seen, Top, Image
  <2> QED BY <2>3, <2>4, <2>5 DEF Held
<1> QED BY <1>1, <1>5, <1>6, <1>7, BeforeFlat, SameArena, SameGroups DEF IInv

\* A child of a name without a group starts one.
LEMMA NewGroup ==
    ASSUME IInv, NEW c \in Node, c \notin InGroups, GroupOf(c) = {}, name' = name,
           pushed = <<>>, pushed' = <<>>, groups' = Append(groups, <<c>>)
    PROVE  /\ groups' \in Seq(Seq(Node)) /\ InGroups' = InGroups \cup {c}
           /\ Apart' /\ NamesApart'
<1> DEFINE L == Len(groups)
           t == <<c>>
<1>1. t \in Seq(Node) /\ Image(t) = {c} /\ t # <<>> /\ t[1] = c /\ Injective(t)
  BY DEF Image, Injective
<1>2. groups \in Seq(Seq(Node))
  BY DEF IInv, TypeOK
<1>3. groups' = Append(groups, t)
  OBVIOUS
<1> HIDE DEF t
<1>4. /\ groups' \in Seq(Seq(Node)) /\ L \in Nat
      /\ DOMAIN groups = 1 .. L /\ DOMAIN groups' = 1 .. L + 1
      /\ groups'[L + 1] = t /\ \A g \in 1 .. L : groups'[g] = groups[g]
  <2> DEFINE T == Seq(Node)
  <2>1. groups \in Seq(T) /\ t \in T
    BY <1>1, <1>2
  <2> HIDE DEF T
  <2>2. /\ Append(groups, t) \in Seq(T) /\ Len(groups) \in Nat
        /\ DOMAIN groups = 1 .. Len(groups)
        /\ DOMAIN Append(groups, t) = 1 .. Len(groups) + 1
        /\ Append(groups, t)[Len(groups) + 1] = t
        /\ \A i \in 1 .. Len(groups) : Append(groups, t)[i] = groups[i]
    BY <2>1, AppendFacts
  <2> QED BY <1>3, <2>2 DEF T
<1>5. \A g \in DOMAIN groups' : g = L + 1 \/ g \in DOMAIN groups
  BY <1>4
<1>6. \A g \in DOMAIN groups : /\ g \in DOMAIN groups' /\ g # L + 1 /\ groups'[g] = groups[g]
                               /\ Image(groups[g]) \subseteq InGroups
  BY <1>4 DEF InGroups
<1>7. L + 1 \in DOMAIN groups'
  BY <1>4
<1> HIDE DEF L
<1>8. InGroups' = InGroups \cup {c}
  <2>1. InGroups' = UNION {Image(groups'[g]) : g \in DOMAIN groups'}
    BY DEF InGroups, Image
  <2>2. InGroups' \subseteq InGroups \cup {c}
    <3> SUFFICES ASSUME NEW g \in DOMAIN groups' PROVE Image(groups'[g]) \subseteq InGroups \cup {c}
      BY <2>1
    <3>1. CASE g = L + 1
      BY <3>1, <1>1, <1>4
    <3>2. CASE g \in DOMAIN groups
      BY <3>2, <1>6
    <3> QED BY <3>1, <3>2, <1>5
  <2>3. c \in InGroups'
    BY <2>1, <1>1, <1>4, <1>7
  <2>4. InGroups \subseteq InGroups'
    <3> SUFFICES ASSUME NEW g \in DOMAIN groups PROVE Image(groups[g]) \subseteq InGroups'
      BY DEF InGroups
    <3> QED BY <2>1, <1>6
  <2> QED BY <2>2, <2>3, <2>4
<1>9. \A g \in DOMAIN groups' : groups'[g] # <<>> /\ Injective(groups'[g])
  BY <1>1, <1>4, <1>5, <1>6 DEF IInv, Apart
<1>10. \A g, h \in DOMAIN groups' : Image(groups'[g]) \cap Image(groups'[h]) # {} => g = h
  <2> SUFFICES ASSUME NEW g \in DOMAIN groups', NEW h \in DOMAIN groups',
                      Image(groups'[g]) \cap Image(groups'[h]) # {}
               PROVE  g = h
    OBVIOUS
  <2>1. CASE g \in DOMAIN groups /\ h \in DOMAIN groups
    BY <2>1, <1>6 DEF IInv, Apart
  <2>2. Image(groups'[L + 1]) = {c}
    BY <1>1, <1>4
  <2>3. \A d \in DOMAIN groups : c \notin Image(groups'[d])
    BY <1>6
  <2>4. CASE g \in DOMAIN groups /\ h = L + 1
    BY <2>2, <2>3, <2>4
  <2>5. CASE g = L + 1 /\ h \in DOMAIN groups
    BY <2>2, <2>3, <2>5
  <2> QED BY <2>1, <2>4, <2>5, <1>5
<1>11. Apart'
  <2>1. Injective(pushed)' /\ (Image(pushed) \cap InGroups = {})'
    BY DEF Injective, Image
  <2>2. (\A g \in DOMAIN groups : groups[g] # <<>> /\ Injective(groups[g]))'
    BY <1>9 DEF Injective
  <2>3. (\A g, h \in DOMAIN groups : Image(groups[g]) \cap Image(groups[h]) # {} => g = h)'
    BY <1>10 DEF Image
  <2> QED BY <2>1, <2>2, <2>3 DEF Apart
<1>12. NamesApart'
  <2>1. \A g \in DOMAIN groups : name[groups[g][1]] # name[c]
    BY DEF GroupOf
  <2>2. \A g, h \in DOMAIN groups' : name[groups'[g][1]] = name[groups'[h][1]] => g = h
    BY <2>1, <1>1, <1>4, <1>5, <1>6 DEF IInv, NamesApart
  <2> QED BY <2>2 DEF NamesApart
<1> QED BY <1>4, <1>8, <1>11, <1>12

\* A child of a name with a group joins it, and no other.
LEMMA JoinGroup ==
    ASSUME IInv, NEW c \in Node, c \notin InGroups, GroupOf(c) # {}, name' = name,
           pushed = <<>>, pushed' = <<>>,
           groups' = [g \in DOMAIN groups |->
                        IF g \in GroupOf(c) THEN Append(groups[g], c) ELSE groups[g]]
    PROVE  /\ groups' \in Seq(Seq(Node)) /\ InGroups' = InGroups \cup {c}
           /\ Apart' /\ NamesApart'
<1>1. PICK o \in DOMAIN groups : name[groups[o][1]] = name[c]
  BY DEF GroupOf
<1>2. GroupOf(c) = {o}
  BY <1>1 DEF GroupOf, IInv, NamesApart
<1>3. groups \in Seq(Seq(Node))
  BY DEF IInv, TypeOK
<1>4. \A g \in DOMAIN groups : groups[g] \in Seq(Node) /\ groups[g] # <<>> /\ Injective(groups[g])
                               /\ Image(groups[g]) \subseteq InGroups
  BY <1>3 DEF IInv, Apart, InGroups
<1> DEFINE a == Append(groups[o], c)
<1>5. a \in Seq(Node) /\ Image(a) = Image(groups[o]) \cup {c} /\ Injective(a)
  <2> DEFINE s == groups[o]
  <2>1. s \in Seq(Node) /\ Injective(s) /\ c \notin Image(s)
    BY <1>1, <1>4
  <2> HIDE DEF s
  <2>2. c \in Node
    OBVIOUS
  <2>3. Append(s, c) \in Seq(Node)
    BY <2>1, <2>2
  <2>4. Image(Append(s, c)) = Image(s) \cup {c}
    <3>1. \A u \in Seq(Node), x \in Node : Image(Append(u, x)) = Image(u) \cup {x}
      BY AppendOne
    <3> QED BY <3>1, <2>1, <2>2
  <2>5. Injective(Append(s, c))
    BY <2>1, <2>2, AppendOne
  <2> QED BY <2>3, <2>4, <2>5 DEF s
<1>6. a # <<>> /\ a[1] = groups[o][1]
  BY <1>1, <1>4
<1>7. /\ DOMAIN groups' = DOMAIN groups /\ groups'[o] = a
      /\ \A g \in DOMAIN groups : g # o => groups'[g] = groups[g]
  BY <1>1, <1>2
<1> HIDE DEF a
<1>8. \A g \in DOMAIN groups :
         Image(groups'[g]) = IF g = o THEN Image(groups[g]) \cup {c} ELSE Image(groups[g])
  BY <1>5, <1>7
<1>9. groups' \in Seq(Seq(Node))
  <2>1. \A g \in DOMAIN groups : groups'[g] \in Seq(Node)
    BY <1>4, <1>5, <1>7
  <2>2. Len(groups) \in Nat /\ DOMAIN groups = 1 .. Len(groups)
    BY <1>3
  <2>3. groups' = [g \in 1 .. Len(groups) |-> groups'[g]]
    BY <2>2
  <2> QED BY <2>1, <2>2, <2>3
<1>10. InGroups' = InGroups \cup {c}
  <2>1. InGroups' = UNION {Image(groups'[g]) : g \in DOMAIN groups'}
    BY DEF InGroups, Image
  <2>2. InGroups' \subseteq InGroups \cup {c}
    <3> SUFFICES ASSUME NEW g \in DOMAIN groups PROVE Image(groups'[g]) \subseteq InGroups \cup {c}
      BY <2>1, <1>7
    <3> QED BY <1>4, <1>8
  <2>3. c \in InGroups'
    <3>1. o \in DOMAIN groups' /\ c \in Image(groups'[o])
      BY <1>1, <1>7, <1>8
    <3> QED BY <2>1, <3>1
  <2>4. InGroups \subseteq InGroups'
    <3> SUFFICES ASSUME NEW g \in DOMAIN groups PROVE Image(groups[g]) \subseteq InGroups'
      BY DEF InGroups
    <3> QED BY <2>1, <1>7, <1>8
  <2> QED BY <2>2, <2>3, <2>4
<1>11. \A g \in DOMAIN groups : groups'[g] # <<>> /\ Injective(groups'[g])
  BY <1>4, <1>5, <1>6, <1>7
<1>12. \A g, h \in DOMAIN groups : Image(groups'[g]) \cap Image(groups'[h]) # {} => g = h
  <2> SUFFICES ASSUME NEW g \in DOMAIN groups, NEW h \in DOMAIN groups,
                      Image(groups'[g]) \cap Image(groups'[h]) # {}, g # h
               PROVE  FALSE
    OBVIOUS
  <2>1. Image(groups[g]) \cap Image(groups[h]) = {}
    BY DEF IInv, Apart
  <2>2. c \notin Image(groups[g]) /\ c \notin Image(groups[h])
    BY <1>4
  <2>3. ~(g = o /\ h = o)
    OBVIOUS
  <2> QED BY <2>1, <2>2, <2>3, <1>8
<1>13. Apart'
  <2>1. Injective(pushed)' /\ (Image(pushed) \cap InGroups = {})'
    BY DEF Injective, Image
  <2>2. (\A g \in DOMAIN groups : groups[g] # <<>> /\ Injective(groups[g]))'
    BY <1>7, <1>11 DEF Injective
  <2>3. (\A g, h \in DOMAIN groups : Image(groups[g]) \cap Image(groups[h]) # {} => g = h)'
    BY <1>7, <1>12 DEF Image
  <2> QED BY <2>1, <2>2, <2>3 DEF Apart
<1>14. NamesApart'
  <2>1. \A g \in DOMAIN groups : groups'[g][1] = groups[g][1]
    BY <1>6, <1>7
  <2> QED BY <2>1, <1>7 DEF IInv, NamesApart
<1> QED BY <1>9, <1>10, <1>13, <1>14

LEMMA GroupChildInv == IInv /\ GroupChild => IInv'
<1> SUFFICES ASSUME IInv, GroupChild PROVE IInv'
  OBVIOUS
<1> DEFINE n == Top.node
           k == Top.at
           c == children[n][k]
           r == [Top EXCEPT !.at = @ + 1]
<1>1. /\ phase = "group" /\ phase' = "group" /\ k <= Len(children[n])
      /\ TypeOK /\ Arena /\ ChildrenKept
      /\ groups' = IF GroupOf(c) = {} THEN Append(groups, <<c>>)
                   ELSE [g \in DOMAIN groups |->
                           IF g \in GroupOf(c) THEN Append(groups[g], c) ELSE groups[g]]
      /\ calls' = Append(Below, r)
      /\ UNCHANGED <<born, name, children, pushed, order, nodes, next>>
  BY DEF GroupChild, IInv
<1>2. calls # <<>> /\ pushed = <<>>
  BY <1>1 DEF IInv, Stack
<1>3. Top \in CallType /\ n \in Node /\ k \in Nat \ {0} /\ Below \in Seq(CallType)
  BY <1>1, <1>2, CallsOK
<1>4. r \in CallType /\ r.node = n /\ r.at = k + 1
  BY <1>3 DEF CallType
<1>5. children[n] \in Seq(Node) /\ Injective(children[n])
  BY <1>1, <1>3, KidsOK
<1>6. k \in DOMAIN children[n] /\ \A i \in 1 .. k - 1 : i \in DOMAIN children[n] /\ i # k
  BY <1>1, <1>3, <1>5
<1>7. c \in Node
  BY <1>5, <1>6
<1>8. InGroups = {children[n][i] : i \in 1 .. k - 1}
  <2>1. Image(pushed) = {}
    BY <1>2 DEF Image
  <2> QED BY <1>1, <2>1 DEF IInv, Held, Grouping, Seen, FirstOf
<1>9. c \notin InGroups
  BY <1>5, <1>6, <1>8 DEF Injective
<1> HIDE DEF r, c
<1>10. calls' \in Seq(CallType) /\ calls' # <<>> /\ Top' = r
  BY <1>1, <1>3, <1>4, Replace
<1>11. /\ groups' \in Seq(Seq(Node)) /\ InGroups' = InGroups \cup {c}
       /\ Apart' /\ NamesApart'
  <2>1. CASE GroupOf(c) = {}
    BY <2>1, <1>1, <1>2, <1>7, <1>9, NewGroup
  <2>2. CASE GroupOf(c) # {}
    BY <2>2, <1>1, <1>2, <1>7, <1>9, JoinGroup
  <2> QED BY <2>1, <2>2
<1>12. TypeOK'
  BY <1>1, <1>10, <1>11 DEF TypeOK, CallType
<1>13. Stack'
  <2>1. r.at <= Len(children[n]) + 1
    BY <1>1, <1>3, <1>4, <1>5
  <2> QED BY <1>1, <1>2, <1>4, <1>10, <2>1 DEF Stack, Grouping
<1>14. Held'
  <2>1. Seen' = FirstOf(children[n], k)
    <3>1. Seen' = FirstOf(children'[Top'.node], Top'.at - 1)
      BY <1>1 DEF Seen, FirstOf
    <3>2. Top'.node = n /\ Top'.at - 1 = k /\ children' = children
      BY <1>1, <1>3, <1>4, <1>10
    <3> QED BY <3>1, <3>2
  <2>2. 1 .. k = 1 .. k - 1 \cup {k}
    BY <1>3
  <2>3. Seen' = InGroups \cup {c}
    BY <2>1, <2>2, <1>8 DEF c, FirstOf
  <2>4. Image(pushed') = {}
    BY <1>1, <1>2 DEF Image
  <2> QED BY <2>3, <2>4, <1>11 DEF Held, Image
<1> QED BY <1>1, <1>11, <1>12, <1>13, <1>14, BeforeFlat, SameArena DEF IInv

\* A group is pushed: its children are new in the list.
LEMMA PushGroupInv == IInv /\ PushGroup => IInv'
<1> SUFFICES ASSUME IInv, PushGroup PROVE IInv'
  OBVIOUS
<1> DEFINE h == Head(groups)
<1>1. /\ phase = "push" /\ phase' = "push" /\ groups # <<>> /\ TypeOK
      /\ pushed' = pushed \o h /\ groups' = Tail(groups)
      /\ UNCHANGED <<born, name, children, calls, order, nodes, next>>
  BY DEF PushGroup, IInv
<1>2. pushed \in Seq(Node) /\ groups \in Seq(Seq(Node))
  BY <1>1 DEF TypeOK
<1>3. /\ h = groups[1] /\ h \in Seq(Node) /\ groups' \in Seq(Seq(Node))
      /\ Len(groups) \in Nat \ {0} /\ DOMAIN groups = 1 .. Len(groups)
      /\ DOMAIN groups' = 1 .. Len(groups) - 1
      /\ \A g \in 1 .. Len(groups) - 1 : groups'[g] = groups[g + 1]
  BY <1>1, <1>2
<1> HIDE DEF h
<1>4. 1 \in DOMAIN groups /\ \A g \in DOMAIN groups' : g + 1 \in DOMAIN groups /\ g + 1 # 1
  BY <1>3
<1>5. \A g \in DOMAIN groups : g = 1 \/ (g - 1 \in DOMAIN groups' /\ groups'[g - 1] = groups[g])
  BY <1>3
<1>6. InGroups = Image(h) \cup InGroups'
  <2>1. InGroups' = UNION {Image(groups'[g]) : g \in DOMAIN groups'}
    BY DEF InGroups, Image
  <2>2. \A g \in DOMAIN groups' : Image(groups'[g]) \subseteq InGroups
    BY <1>3, <1>4 DEF InGroups
  <2>3. \A g \in DOMAIN groups : Image(groups[g]) \subseteq Image(h) \cup InGroups'
    <3> SUFFICES ASSUME NEW g \in DOMAIN groups
                 PROVE  Image(groups[g]) \subseteq Image(h) \cup InGroups'
      OBVIOUS
    <3>1. CASE g = 1
      BY <3>1, <1>3
    <3>2. CASE g - 1 \in DOMAIN groups' /\ groups'[g - 1] = groups[g]
      BY <3>2, <2>1
    <3> QED BY <3>1, <3>2, <1>5
  <2>4. Image(h) \subseteq InGroups
    BY <1>3, <1>4 DEF InGroups
  <2> QED BY <2>1, <2>2, <2>3, <2>4 DEF InGroups
<1>7. Image(h) \cap InGroups' = {}
  <2>1. \A g \in DOMAIN groups' : Image(groups[1]) \cap Image(groups[g + 1]) = {}
    BY <1>4 DEF IInv, Apart
  <2>2. \A g \in DOMAIN groups' : Image(h) \cap Image(groups'[g]) = {}
    BY <2>1, <1>3
  <2>3. InGroups' = UNION {Image(groups'[g]) : g \in DOMAIN groups'}
    BY DEF InGroups, Image
  <2> QED BY <2>2, <2>3
<1>8. Injective(h) /\ Injective(pushed) /\ Image(pushed) \cap Image(h) = {}
      /\ Image(pushed) \cap InGroups' = {}
  <2>1. Injective(pushed) /\ Image(pushed) \cap InGroups = {}
    BY DEF IInv, Apart
  <2>2. Injective(h)
    BY <1>3, <1>4 DEF IInv, Apart
  <2> QED BY <2>1, <2>2, <1>6
<1>9. /\ pushed' \in Seq(Node) /\ Image(pushed') = Image(pushed) \cup Image(h)
      /\ Injective(pushed')
  <2>1. pushed \o h \in Seq(Node)
    BY <1>2, <1>3
  <2>2. Image(pushed \o h) = Image(pushed) \cup Image(h)
    BY <1>2, <1>3, ConcatImage
  <2>3. Injective(pushed \o h)
    BY <1>2, <1>3, <1>8, ConcatInjective
  <2> QED BY <2>1, <2>2, <2>3, <1>1
<1>10. TypeOK'
  BY <1>1, <1>3, <1>9 DEF TypeOK
<1>11. Stack'
  BY <1>1 DEF IInv, Stack, Grouping
<1>12. Held'
  <2>1. Image(pushed) \cup InGroups = Image(children[Top.node])
    BY <1>1 DEF IInv, Held, Grouping, Seen
  <2>2. Seen' = Image(children[Top.node])
    BY <1>1 DEF Seen, Top, Image
  <2>3. Image(pushed') \cup InGroups' = Image(pushed) \cup InGroups
    BY <1>6, <1>9
  <2> QED BY <2>1, <2>2, <2>3 DEF Held, Image
<1>13. Apart'
  <2>1. Injective(pushed)' /\ (Image(pushed) \cap InGroups = {})'
    <3>1. Image(pushed') \cap InGroups' = {}
      BY <1>7, <1>8, <1>9
    <3> QED BY <3>1, <1>9 DEF Injective, Image
  <2>2. (\A g \in DOMAIN groups : groups[g] # <<>> /\ Injective(groups[g]))'
    <3>1. \A g \in DOMAIN groups' : groups'[g] # <<>> /\ Injective(groups'[g])
      BY <1>3, <1>4 DEF IInv, Apart
    <3> QED BY <3>1 DEF Injective
  <2>3. (\A g, k \in DOMAIN groups : Image(groups[g]) \cap Image(groups[k]) # {} => g = k)'
    <3>1. \A g, k \in DOMAIN groups' : Image(groups'[g]) \cap Image(groups'[k]) # {} => g + 1 = k + 1
      BY <1>3, <1>4 DEF IInv, Apart
    <3>2. \A g, k \in DOMAIN groups' : g + 1 = k + 1 => g = k
      BY <1>3
    <3> QED BY <3>1, <3>2 DEF Image
  <2> QED BY <2>1, <2>2, <2>3 DEF Apart
<1>14. NamesApart'
  <2>1. ASSUME NEW g \in DOMAIN groups', NEW k \in DOMAIN groups',
               name[groups'[g][1]] = name[groups'[k][1]]
        PROVE  g + 1 = k + 1
    <3>1. groups'[g] = groups[g + 1] /\ groups'[k] = groups[k + 1]
      BY <1>3
    <3>2. g + 1 \in DOMAIN groups /\ k + 1 \in DOMAIN groups
      BY <1>4
    <3> QED BY <2>1, <3>1, <3>2 DEF IInv, NamesApart
  <2>2. \A g, k \in DOMAIN groups' : g + 1 = k + 1 => g = k
    BY <1>3
  <2> QED BY <2>1, <2>2, <1>1 DEF NamesApart
<1> QED BY <1>1, <1>10, <1>11, <1>12, <1>13, <1>14, BeforeFlat, SameArena DEF IInv

\* The call returns: the new list is a permutation of the old one.
LEMMA PushedInv == IInv /\ Pushed => IInv'
<1> SUFFICES ASSUME IInv, Pushed PROVE IInv'
  OBVIOUS
<1> DEFINE n == Top.node
<1>1. /\ phase = "push" /\ groups = <<>> /\ TypeOK /\ Arena /\ ChildrenKept
      /\ children' = [children EXCEPT ![n] = pushed] /\ pushed' = <<>> /\ calls' = Below
      /\ phase' = IF Below = <<>> THEN "flat" ELSE "visit"
      /\ UNCHANGED <<born, name, groups, order, nodes, next>>
  BY DEF Pushed, IInv
<1>2. calls # <<>>
  BY <1>1 DEF IInv, Stack
<1>3. n \in Node /\ Below \in Seq(CallType)
  BY <1>1, <1>2, CallsOK
<1>4. pushed \in Seq(Node) /\ Injective(pushed) /\ Image(pushed) = Image(children[n])
  <2>1. InGroups = {}
    BY <1>1 DEF InGroups
  <2>2. Image(pushed) \cup InGroups = Image(children[n])
    BY <1>1 DEF IInv, Held, Grouping, Seen
  <2> QED BY <2>1, <2>2, <1>1 DEF IInv, TypeOK, Apart
<1> HIDE DEF n
<1>5. /\ children' \in [Node -> Seq(Node)] /\ children'[n] = pushed
      /\ \A m \in Node : m # n => children'[m] = children[m]
  BY <1>1, <1>3, <1>4 DEF TypeOK
<1>6. TypeOK'
  BY <1>1, <1>3, <1>5 DEF TypeOK, CallType, Phases
<1>7. Arena'
  BY <1>1 DEF Arena, Image
<1>8. ChildrenKept'
  <2>1. \A m \in Node : Image(children'[m]) = Image(children[m]) /\ Injective(children'[m])
    BY <1>1, <1>4, <1>5 DEF ChildrenKept, Injective
  <2>2. \A m \in Node : Image(children[m]) = Image(born[m])
    BY <1>1 DEF ChildrenKept
  <2> QED BY <2>1, <2>2, <1>1 DEF ChildrenKept, Injective, Image
<1>9. Stack' /\ Held'
  BY <1>1 DEF Stack, Held, Grouping
<1>10. Apart' /\ NamesApart'
  BY <1>1 DEF Apart, NamesApart, Injective, Image, InGroups
<1> QED BY <1>1, <1>6, <1>7, <1>8, <1>9, <1>10, BeforeFlat DEF IInv

LEMMA NotBelow ==
    ASSUME NEW a \in Nat, NEW b \in Nat, a <= b, ~(a + 1 <= b)
    PROVE  a = b
OBVIOUS

LEMMA FlatTyped ==
    ASSUME TypeOK, NEW i \in DOMAIN nodes
    PROVE  nodes[i].start \in Nat /\ nodes[i].len \in Nat
<1>1. nodes \in Seq(FlatNode)
  BY DEF TypeOK
<1>2. nodes[i] \in FlatNode
  BY <1>1
<1> QED BY <1>2 DEF FlatNode

\* The first of the queue stands right after the nodes already moved.
LEMMA QueueHead ==
    ASSUME TypeOK, Counted, Queue # <<>>
    PROVE  Len(nodes) + 1 \in DOMAIN order /\ Head(Queue) = order[Len(nodes) + 1]
<1>1. order \in Seq(Node) /\ Len(order) \in Nat /\ Len(nodes) \in Nat
  BY DEF TypeOK
<1> DEFINE a == Len(nodes) + 1
           b == Len(order)
<1>2. a \in Int /\ b \in Int
  BY <1>1
<1>3. a <= b
  <2> SUFFICES ASSUME b < a PROVE FALSE
    BY <1>2
  <2> HIDE DEF a, b
  <2>1. SubSeq(order, a, b) = <<>>
    BY <1>2, SubSeqEmpty
  <2> QED BY <2>1 DEF Queue, a, b
<1>4. a \in 1 .. Len(order) /\ b \in a .. Len(order)
  BY <1>1, <1>3
<1> HIDE DEF a, b
<1>5. Head(SubSeq(order, a, b)) = order[a]
  BY <1>1, <1>4, HeadTailOfSubSeq
<1> QED BY <1>1, <1>4, <1>5 DEF Queue, a, b

\* A node is moved: its children join the queue right behind the last.
LEMMA TakeInv == IInv /\ Take => IInv'
<1> SUFFICES ASSUME IInv, Take PROVE IInv'
  OBVIOUS
<1> DEFINE L == Len(order)
           M == Len(nodes)
           n == Head(Queue)
           ch == children[n]
           k == Len(ch)
           new == [from |-> n, start |-> IF k > 0 THEN next ELSE 0, len |-> k]
<1>1. /\ phase = "flat" /\ phase' = "flat" /\ Queue # <<>>
      /\ TypeOK /\ Arena /\ ChildrenKept /\ Counted
      /\ order' = order \o ch /\ nodes' = Append(nodes, new) /\ next' = next + k
      /\ UNCHANGED <<born, name, children, calls, groups, pushed>>
  BY DEF Take, IInv
<1>2. /\ order \in Seq(Node) /\ L \in Nat /\ nodes \in Seq(FlatNode) /\ M \in Nat
      /\ DOMAIN order = 1 .. L /\ DOMAIN nodes = 1 .. M /\ next = L
  BY <1>1 DEF TypeOK, Counted
<1>3. M + 1 \in 1 .. L /\ n = order[M + 1] /\ n \in Node
  BY <1>1, <1>2, QueueHead
<1>4. /\ ch \in Seq(Node) /\ Injective(ch) /\ Image(ch) = Kids(n) /\ Kids(n) \subseteq Node \ {Root}
      /\ k \in Nat /\ DOMAIN ch = 1 .. k
  <2>1. ch \in Seq(Node) /\ Injective(ch) /\ Image(ch) = Kids(n) /\ Kids(n) \subseteq Node \ {Root}
    BY <1>1, <1>3, KidsOK
  <2> QED BY <2>1
<1>5. new \in FlatNode /\ new.from = n /\ new.len = k /\ new.start \in Nat
      /\ (k > 0 => new.start = L) /\ (k = 0 => new.start = 0)
  BY <1>2, <1>3, <1>4 DEF FlatNode
<1> HIDE DEF n, ch, k, new, L, M
<1>6. /\ order' \in Seq(Node) /\ Len(order') = L + k /\ DOMAIN order' = 1 .. L + k
      /\ \A i \in 1 .. L : order'[i] = order[i]
      /\ \A j \in 1 .. k : order'[L + j] = ch[j]
  BY <1>1, <1>2, <1>4 DEF L, k
<1>7. /\ nodes' \in Seq(FlatNode) /\ Len(nodes') = M + 1 /\ DOMAIN nodes' = 1 .. M + 1
      /\ \A i \in 1 .. M : nodes'[i] = nodes[i]
      /\ nodes'[M + 1] = new
  BY <1>1, <1>2, <1>5 DEF M
<1>8. Image(order') = Image(order) \cup Kids(n)
  BY <1>1, <1>2, <1>4, ConcatImage
<1>9. n \in Image(order)
  BY <1>2, <1>3 DEF Image
<1>10. Image(order) \cap Image(ch) = {}
  <2> SUFFICES ASSUME NEW j \in 1 .. L, order[j] \in Kids(n) PROVE FALSE
    BY <1>2, <1>4 DEF Image
  <2>1. j # 1
    BY <1>1, <1>4 DEF Counted
  <2>2. PICK i \in 1 .. M : order[j] \in Kids(order[i])
    <3>1. j \in 2 .. Len(order)
      BY <2>1, <1>2 DEF L
    <3> QED BY <3>1 DEF IInv, Come, M
  <2>3. i \in 1 .. L /\ i # M + 1 /\ order[i] \in Node
    BY <1>2, <1>3
  <2>4. order[i] = n
    BY <1>1, <1>3, <2>2, <2>3 DEF Arena, Kids
  <2>5. i = M + 1
    BY <1>2, <1>3, <2>3, <2>4 DEF IInv, Once, Injective
  <2> QED BY <2>3, <2>5
<1>11. TypeOK'
  <2>1. next' \in Nat
    BY <1>1, <1>2, <1>4
  <2> QED BY <2>1, <1>1, <1>6, <1>7 DEF TypeOK
<1>12. NotYet' /\ Stack' /\ Held'
  BY <1>1 DEF IInv, NotYet, Stack, Held, Grouping
<1>13. Counted'
  <2>1. Len(nodes') <= Len(order') /\ next' = Len(order')
    BY <1>1, <1>2, <1>3, <1>4, <1>6, <1>7
  <2>2. order' # <<>> /\ order'[1] = Root
    BY <1>1, <1>2, <1>3, <1>4, <1>6 DEF Counted
  <2> QED BY <2>1, <2>2 DEF Counted
<1>14. Ranges'
  <2> SUFFICES ASSUME NEW i \in DOMAIN nodes'
               PROVE  /\ nodes'[i].from = order'[i] /\ nodes'[i].len = Len(children'[order'[i]])
                      /\ nodes'[i].start + nodes'[i].len <= Len(order')
                      /\ \A j \in 1 .. nodes'[i].len :
                           order'[nodes'[i].start + j] = children'[order'[i]][j]
    BY DEF Ranges
  <2>0. i \in 1 .. M + 1 /\ Len(order') = L + k /\ children' = children
    BY <1>1, <1>6, <1>7
  <2>1. CASE i \in 1 .. M
    <3>1. nodes'[i] = nodes[i] /\ i \in DOMAIN nodes /\ i \in 1 .. L
      BY <2>1, <1>2, <1>3, <1>7
    <3>2. /\ nodes[i].from = order[i] /\ nodes[i].len = Len(children[order[i]])
          /\ nodes[i].start + nodes[i].len <= L
          /\ \A j \in 1 .. nodes[i].len :
               order[nodes[i].start + j] = children[order[i]][j]
      BY <3>1 DEF IInv, Ranges, L
    <3>3. order'[i] = order[i]
      BY <3>1, <1>6
    <3>4. nodes[i].start \in Nat /\ nodes[i].len \in Nat
      BY <3>1, <1>1, FlatTyped
    <3>5. \A j \in 1 .. nodes[i].len : order'[nodes[i].start + j] = order[nodes[i].start + j]
      <4>1. \A j \in 1 .. nodes[i].len : nodes[i].start + j \in 1 .. L
        BY <3>2, <3>4, <1>2
      <4> QED BY <4>1, <1>6
    <3>6. nodes[i].start + nodes[i].len <= L + k
      BY <3>2, <3>4, <1>2, <1>4
    <3> QED BY <3>1, <3>2, <3>3, <3>5, <3>6, <2>0
  <2>2. CASE i = M + 1
    <3>1. nodes'[i] = new /\ order'[i] = n
      BY <2>2, <1>3, <1>6, <1>7
    <3>2. nodes'[i].len = Len(children[n])
      BY <3>1, <1>5 DEF k, ch
    <3>3. new.start + new.len <= L + k
      BY <1>2, <1>4, <1>5
    <3>4. \A j \in 1 .. k : order'[new.start + j] = ch[j]
      <4>1. CASE k > 0
        BY <4>1, <1>5, <1>6
      <4>2. CASE k = 0
        BY <4>2
      <4> QED BY <4>1, <4>2, <1>4
    <3> QED BY <3>1, <3>2, <3>3, <3>4, <1>5, <2>0 DEF ch
  <2>3. i = M + 1 \/ i \in 1 .. M
    BY <2>0, <1>2
  <2> QED BY <2>1, <2>2, <2>3
<1>15. Once'
  <2>1. Injective(order)
    BY DEF IInv, Once
  <2>2. Injective(order \o ch)
    BY <2>1, <1>2, <1>4, <1>10, ConcatInjective
  <2> QED BY <2>2, <1>1 DEF Once, Injective
<1>16. Come'
  <2> SUFFICES ASSUME NEW j \in 2 .. L + k
               PROVE  \E i \in 1 .. M + 1 : order'[j] \in Kids(order'[i])
    <3>1. Len(order') = L + k /\ Len(nodes') = M + 1 /\ born' = born
      BY <1>1, <1>6, <1>7
    <3> QED BY <3>1 DEF Come, Kids
  <2>1. CASE j <= L
    <3>1. j \in 2 .. Len(order) /\ j \in 1 .. L
      BY <2>1, <1>2 DEF L
    <3>2. PICK i \in 1 .. M : order[j] \in Kids(order[i])
      BY <3>1 DEF IInv, Come, M
    <3>3. i \in 1 .. M + 1 /\ i \in 1 .. L
      BY <1>2, <1>3
    <3> QED BY <3>1, <3>2, <3>3, <1>6
  <2>2. CASE j > L
    <3>1. j - L \in 1 .. k /\ L + (j - L) = j
      BY <2>2, <1>2, <1>4
    <3>2. order'[j] = ch[j - L]
      BY <3>1, <1>6
    <3>3. order'[j] \in Kids(n)
      BY <3>1, <3>2, <1>4 DEF Image
    <3>4. M + 1 \in 1 .. M + 1 /\ order'[M + 1] = n
      BY <1>2, <1>3, <1>6
    <3> QED BY <3>3, <3>4
  <2> QED BY <2>1, <2>2, <1>2
<1>17. Least'
  <2> SUFFICES ASSUME NEW S \in SUBSET Node, Root \in S, \A m \in S : Kids(m) \subseteq S
               PROVE  Image(order') \subseteq S
    BY <1>1 DEF Least, Kids, Image
  <2>1. Image(order) \subseteq S
    BY DEF IInv, Least
  <2> QED BY <2>1, <1>8, <1>9
<1> QED BY <1>1, <1>11, <1>12, <1>13, <1>14, <1>15, <1>16, <1>17, SameArena, SameGroups DEF IInv

LEMMA StutterInv == IInv /\ UNCHANGED vars => IInv'
<1> SUFFICES ASSUME IInv, UNCHANGED vars PROVE IInv'
  OBVIOUS
<1> USE DEF vars, IInv
<1>1. TypeOK'
  BY DEF TypeOK
<1>4. Stack'
  BY DEF Stack, Grouping, Top
<1>2. Held'
  <2>1. Seen' = Seen
    BY DEF Seen, FirstOf, Top, Image
  <2>2. Image(pushed') = Image(pushed) /\ InGroups' = InGroups /\ Grouping' = Grouping
    BY DEF InGroups, Image, Grouping
  <2> QED BY <2>1, <2>2 DEF Held, Image
<1>3. NotYet' /\ Counted' /\ Ranges'
  BY DEF NotYet, Counted, Ranges
<1>5. Once' /\ Come' /\ Least'
  BY DEF Once, Injective, Come, Least, Kids, Image
<1> QED BY <1>1, <1>2, <1>3, <1>4, <1>5, SameArena, SameGroups

LEMMA Inductive == Spec => []IInv
<1>1. IInv /\ [Next]_vars => IInv'
  BY VisitInv, VisitedInv, GroupChildInv, GroupedInv, PushGroupInv, PushedInv, TakeInv,
     StutterInv DEF Next
<1> QED BY <1>1, InitInv, PTL DEF Spec

-----------------------------------------------------------------------------

\* The flat nodes stand in the order of the queue, which holds none twice.
LEMMA RangesHold == IInv => RangesExact
<1> SUFFICES ASSUME IInv PROVE RangesExact
  OBVIOUS
<1>1. /\ Len(nodes) \in Nat /\ Len(order) \in Nat /\ Len(nodes) <= Len(order)
      /\ DOMAIN nodes = 1 .. Len(nodes) /\ DOMAIN order = 1 .. Len(order)
  BY DEF IInv, TypeOK, Counted
<1>2. \A i \in DOMAIN nodes : nodes[i].from = order[i] /\ i \in DOMAIN order
  BY <1>1 DEF IInv, Ranges
<1>3. ASSUME NEW i \in DOMAIN nodes
      PROVE  /\ nodes[i].len = Len(children[nodes[i].from])
             /\ \A j \in 1 .. nodes[i].len :
                  nodes[i].start + j \in DOMAIN nodes =>
                    nodes[nodes[i].start + j].from = children[nodes[i].from][j]
  <2>1. /\ nodes[i].len = Len(children[order[i]])
        /\ \A j \in 1 .. nodes[i].len : order[nodes[i].start + j] = children[order[i]][j]
    BY DEF IInv, Ranges
  <2> QED BY <2>1, <1>2
<1>4. \A i, j \in DOMAIN nodes : nodes[i].from = nodes[j].from => i = j
  BY <1>2 DEF IInv, Once, Injective
<1> QED BY <1>3, <1>4 DEF RangesExact

\* When the queue is empty, the moved nodes are closed under children.
LEMMA LossFree == IInv => NothingLost
<1> SUFFICES ASSUME IInv, Done
             PROVE  /\ {nodes[i].from : i \in DOMAIN nodes} = Reachable
                    /\ \A i \in DOMAIN nodes : nodes[i].start + nodes[i].len <= Len(nodes)
  BY DEF NothingLost
<1>1. /\ Len(nodes) \in Nat /\ Len(order) \in Nat /\ Len(nodes) <= Len(order)
      /\ DOMAIN nodes = 1 .. Len(nodes) /\ DOMAIN order = 1 .. Len(order)
      /\ order \in Seq(Node) /\ order[1] = Root /\ order # <<>>
  BY DEF IInv, TypeOK, Counted
<1>2. Len(nodes) = Len(order)
  <2> SUFFICES ASSUME Len(nodes) + 1 <= Len(order) PROVE FALSE
    BY <1>1, NotBelow
  <2> DEFINE a == Len(nodes) + 1
             b == Len(order)
  <2>1. a \in Int /\ b \in Int /\ a <= b /\ \A i \in a .. b : order[i] \in Node
    BY <1>1
  <2> HIDE DEF a, b
  <2>2. Len(SubSeq(order, a, b)) = b - a + 1 /\ SubSeq(order, a, b) \in Seq(Node)
    BY <2>1, SubSeqProperties
  <2>3. SubSeq(order, a, b) # <<>>
    BY <2>1, <2>2
  <2> QED BY <2>3 DEF Done, Queue, a, b
<1>3. {nodes[i].from : i \in DOMAIN nodes} = Image(order)
  <2>1. \A i \in DOMAIN nodes : nodes[i].from = order[i]
    BY DEF IInv, Ranges
  <2> QED BY <2>1, <1>1, <1>2 DEF Image
<1>4. Image(order) \subseteq Node /\ Root \in Image(order)
  BY <1>1 DEF Image
<1>5. \A m \in Image(order) : Kids(m) \subseteq Image(order)
  <2> SUFFICES ASSUME NEW i \in 1 .. Len(nodes) PROVE Kids(order[i]) \subseteq Image(order)
    BY <1>1, <1>2 DEF Image
  <2>1. order[i] \in Node
    BY <1>1, <1>2
  <2>2. children[order[i]] \in Seq(Node) /\ Kids(order[i]) = Image(children[order[i]])
    BY <2>1 DEF IInv, TypeOK, ChildrenKept, Kids
  <2>3. /\ nodes[i].len = Len(children[order[i]]) /\ nodes[i].start \in Nat
        /\ nodes[i].start + nodes[i].len <= Len(order)
        /\ \A j \in 1 .. nodes[i].len : order[nodes[i].start + j] = children[order[i]][j]
    <3>1. i \in DOMAIN nodes /\ nodes[i].start \in Nat
      BY <1>1, FlatTyped DEF IInv
    <3> QED BY <3>1 DEF IInv, Ranges
  <2> SUFFICES ASSUME NEW j \in 1 .. Len(children[order[i]])
               PROVE  children[order[i]][j] \in Image(order)
    BY <2>2 DEF Image
  <2>4. nodes[i].start + j \in DOMAIN order
    BY <2>2, <2>3, <1>1
  <2>5. order[nodes[i].start + j] = children[order[i]][j]
    BY <2>3
  <2> QED BY <2>4, <2>5 DEF Image
<1>6. Image(order) \subseteq Reachable
  BY <1>4 DEF IInv, Least, Reachable, Kids
<1>7. Reachable \subseteq Image(order)
  BY <1>4, <1>5 DEF Reachable, Kids
<1>8. \A i \in DOMAIN nodes : nodes[i].start + nodes[i].len <= Len(nodes)
  BY <1>2 DEF IInv, Ranges
<1> QED BY <1>3, <1>6, <1>7, <1>8

\* The lists, the groups, the stack and the flat nodes stay of their types.
THEOREM FlattenTypeOK == Spec => []TypeOK
BY Inductive, PTL DEF IInv

\* compact_node permutes: on arenas of any size, a node's children are at every
\* moment those it was built with, each once.
THEOREM FlattenChildrenKept == Spec => []ChildrenKept
BY Inductive, PTL DEF IInv

\* from_arena's ranges are exact: the range recorded for a node is where its
\* children arrive, and no node is moved twice.
THEOREM FlattenRangesExact == Spec => []RangesExact
BY Inductive, RangesHold, PTL

\* When from_arena returns, exactly the reachable nodes were moved, and every
\* range lies in the sequence.
THEOREM FlattenNothingLost == Spec => []NothingLost
BY Inductive, LossFree, PTL

-----------------------------------------------------------------------------
(* Groups                                                                  *)

\* The oldest child of n with its name.
Oldest(n, c) == \A d \in Kids(n) : name[d] = name[c] => c <= d

\* Children of one name keep their order, and so do the oldest of each name.
Fair(n, s) ==
    \A a, b \in DOMAIN s : a < b =>
      /\ name[s[a]] = name[s[b]] => s[a] < s[b]
      /\ Oldest(n, s[a]) /\ Oldest(n, s[b]) => s[a] < s[b]

\* Children of one name stand together.
Together(s) ==
    \A a, b \in DOMAIN s : a < b /\ name[s[a]] = name[s[b]] =>
      \A k \in a .. b : name[s[k]] = name[s[a]]

\* A group has one name, is ordered and starts with the oldest.
GroupOK(n, s) ==
    /\ \A k \in DOMAIN s : name[s[k]] = name[s[1]]
    /\ \A j, k \in DOMAIN s : j < k => s[j] < s[k]
    /\ Oldest(n, s[1])

\* The groups, and the new list before them, are in order.
InOrder(n, p, gs) ==
    /\ \A g \in DOMAIN gs : GroupOK(n, gs[g])
    /\ \A g, h \in DOMAIN gs : g < h => gs[g][1] < gs[h][1]
    /\ Fair(n, p) /\ Together(p)
    /\ \A a \in DOMAIN p, g \in DOMAIN gs :
         name[p[a]] # name[gs[g][1]] /\ (Oldest(n, p[a]) => p[a] < gs[g][1])

\* What holds of the children of every node at every time, and of the node that
\* is compacted.
SortInv == /\ \A n \in Node : Fair(n, children[n])
           /\ InOrder(Top.node, pushed, groups)

LEMMA NothingInOrder ==
    ASSUME NEW n
    PROVE  InOrder(n, <<>>, <<>>)
BY DEF InOrder, Fair, Together

LEMMA SameNames ==
    ASSUME UNCHANGED <<born, name>>
    PROVE  \A n, p, gs : /\ Fair(n, p)' <=> Fair(n, p)
                         /\ Together(p)' <=> Together(p)
                         /\ InOrder(n, p, gs)' <=> InOrder(n, p, gs)
BY DEF InOrder, Fair, Together, GroupOK, Oldest, Kids, Image

LEMMA InOrderLater ==
    ASSUME UNCHANGED <<born, name>>, NEW n, NEW p, NEW gs, InOrder(n, p, gs),
           Top'.node = n, pushed' = p, groups' = gs
    PROVE  InOrder(Top.node, pushed, groups)'
BY DEF InOrder, Fair, Together, GroupOK, Oldest, Kids, Image

\* A list of which every child is younger than those before.
LEMMA SortedIsFair ==
    ASSUME NEW n, NEW s \in Lists
    PROVE  Fair(n, s)
BY DEF Lists, Fair

\* A child that starts a group is the oldest of its name.
LEMMA StartsGroup ==
    ASSUME NEW n \in Node, NEW s \in Seq(Node), Image(s) = Kids(n), Fair(n, s),
           NEW k \in DOMAIN s, NEW gs \in Seq(Seq(Node)),
           \A g \in DOMAIN gs : gs[g] # <<>>,
           UNION {Image(gs[g]) : g \in DOMAIN gs} = FirstOf(s, k - 1),
           InOrder(n, <<>>, gs),
           \A g \in DOMAIN gs : name[gs[g][1]] # name[s[k]]
    PROVE  InOrder(n, <<>>, Append(gs, <<s[k]>>))
<1> DEFINE c == s[k]
           L == Len(gs)
           t == <<c>>
           q == Append(gs, t)
<1>1. /\ L \in Nat /\ DOMAIN gs = 1 .. L /\ DOMAIN s = 1 .. Len(s) /\ Len(s) \in Nat
      /\ c \in Node /\ t \in Seq(Node) /\ k \in Nat /\ \A i \in DOMAIN s : s[i] \in Nat
  BY NodeFacts
<1>2. DOMAIN t = {1} /\ t[1] = c
  OBVIOUS
<1>3. /\ DOMAIN q = 1 .. L + 1 /\ q[L + 1] = t
      /\ \A g \in 1 .. L : q[g] = gs[g]
  <2> DEFINE T == Seq(Node)
  <2>1. gs \in Seq(T) /\ t \in T
    BY <1>1
  <2> HIDE DEF T, t
  <2> QED BY <2>1, AppendFacts
<1> HIDE DEF c, t, q
<1>4. Oldest(n, c)
  <2> SUFFICES ASSUME NEW d \in Kids(n), name[d] = name[c] PROVE c <= d
    BY DEF Oldest
  <2>1. PICK i \in DOMAIN s : d = s[i]
    BY DEF Image
  <2>2. CASE i < k
    <3>1. d \in FirstOf(s, k - 1)
      BY <2>1, <2>2, <1>1 DEF FirstOf
    <3>2. PICK g \in DOMAIN gs : d \in Image(gs[g])
      BY <3>1
    <3>3. name[d] = name[gs[g][1]]
      BY <3>2 DEF InOrder, GroupOK, Image
    <3> QED BY <3>3 DEF c
  <2>3. CASE i = k
    BY <2>1, <2>3, <1>1 DEF c
  <2>4. CASE k < i
    <3>1. c < d
      BY <2>1, <2>4 DEF Fair, c
    <3> QED BY <3>1, <2>1, <1>1 DEF c
  <2> QED BY <2>1, <2>2, <2>3, <2>4, <1>1
<1>5. ASSUME NEW g \in DOMAIN gs PROVE gs[g][1] < c
  <2>1. gs[g] \in Seq(Node) /\ gs[g] # <<>> /\ 1 \in DOMAIN gs[g]
    BY <1>1
  <2>2. gs[g][1] \in FirstOf(s, k - 1)
    BY <2>1 DEF Image
  <2>3. PICK i \in 1 .. k - 1 : gs[g][1] = s[i]
    BY <2>2 DEF FirstOf
  <2>4. i \in DOMAIN s /\ i < k
    BY <2>3, <1>1
  <2>5. Oldest(n, s[i])
    BY <2>3 DEF InOrder, GroupOK
  <2> QED BY <2>3, <2>4, <2>5, <1>4 DEF Fair, c
<1>6. GroupOK(n, t)
  BY <1>2, <1>4 DEF GroupOK
<1>7. \A g \in DOMAIN q : g = L + 1 \/ g \in 1 .. L
  BY <1>1, <1>3
<1>8. \A g \in DOMAIN q : GroupOK(n, q[g])
  BY <1>1, <1>3, <1>6, <1>7 DEF InOrder
<1>9. ASSUME NEW g \in DOMAIN q, NEW h \in DOMAIN q, g < h PROVE q[g][1] < q[h][1]
  <2>1. g \in 1 .. L
    BY <1>1, <1>3, <1>7, <1>9
  <2>2. CASE h \in 1 .. L
    BY <2>1, <2>2, <1>1, <1>3, <1>9 DEF InOrder
  <2>3. CASE h = L + 1
    BY <2>1, <2>3, <1>1, <1>2, <1>3, <1>5
  <2> QED BY <2>2, <2>3, <1>7
<1>10. InOrder(n, <<>>, q)
  BY <1>8, <1>9 DEF InOrder, Fair, Together
<1> QED BY <1>10 DEF q, t, c

\* c joins the groups of its name.
Joined(c, gs, q) ==
    /\ DOMAIN q = DOMAIN gs
    /\ \A g \in DOMAIN gs :
         q[g] = IF name[gs[g][1]] = name[c] THEN Append(gs[g], c) ELSE gs[g]

\* The groups hold the first k of s.
Holds(s, k, gs) ==
    /\ gs \in Seq(Seq(Node)) /\ \A g \in DOMAIN gs : gs[g] # <<>>
    /\ UNION {Image(gs[g]) : g \in DOMAIN gs} = FirstOf(s, k)

\* A child that joins a group is younger than those in it.
LEMMA JoinsGroup ==
    ASSUME NEW n \in Node, NEW s \in Seq(Node), Fair(n, s), NEW k \in DOMAIN s,
           NEW gs, Holds(s, k - 1, gs), InOrder(n, <<>>, gs), NEW q, Joined(s[k], gs, q)
    PROVE  InOrder(n, <<>>, q)
<1> DEFINE c == s[k]
<1>1. /\ DOMAIN s = 1 .. Len(s) /\ Len(s) \in Nat
      /\ c \in Node /\ k \in Nat /\ \A i \in DOMAIN s : s[i] \in Nat
  <2>1. DOMAIN s = 1 .. Len(s) /\ Len(s) \in Nat /\ \A i \in DOMAIN s : s[i] \in Node
    OBVIOUS
  <2>2. k \in 1 .. Len(s) /\ s[k] \in Node
    BY <2>1
  <2>3. k \in Nat
    BY <2>1, <2>2
  <2>4. \A i \in DOMAIN s : s[i] \in Nat
    BY <2>1, NodeFacts, Zenon
  <2> QED BY <2>1, <2>2, <2>3, <2>4
<1>2. ASSUME NEW g \in DOMAIN gs
      PROVE  q[g][1] = gs[g][1] /\ GroupOK(n, q[g])
  <2>1. /\ gs[g] \in Seq(Node) /\ gs[g] # <<>> /\ 1 \in DOMAIN gs[g] /\ GroupOK(n, gs[g])
    BY DEF InOrder, Holds
  <2>2. CASE name[gs[g][1]] # name[c]
    BY <2>1, <2>2 DEF Joined
  <2>3. CASE name[gs[g][1]] = name[c]
    <3> DEFINE u == gs[g]
               m == Len(u)
    <3>1. q[g] = Append(u, c) /\ name[u[1]] = name[c]
      BY <2>3 DEF Joined
    <3>2. /\ u \in Seq(Node) /\ m \in Nat \ {0} /\ 1 \in 1 .. m /\ GroupOK(n, u)
      BY <2>1
    <3>3. \A x \in Image(u) : \E i \in 1 .. k - 1 : x = s[i]
      <4>1. UNION {Image(gs[h]) : h \in DOMAIN gs} = {s[i] : i \in 1 .. k - 1}
        BY DEF Holds, FirstOf
      <4> QED BY <4>1
    <3> HIDE DEF u, m, c
    <3>4. /\ DOMAIN u = 1 .. m /\ DOMAIN Append(u, c) = 1 .. m + 1
          /\ Append(u, c)[m + 1] = c
          /\ \A i \in 1 .. m : Append(u, c)[i] = u[i]
      BY <3>2, <1>1, AppendFacts DEF m
    <3> DEFINE w == Append(u, c)
    <3> HIDE DEF w
    <3>5. ASSUME NEW j \in 1 .. m PROVE u[j] < c
      <4>1. u[j] \in Image(u)
        BY <3>4 DEF Image
      <4>2. PICK i \in 1 .. k - 1 : u[j] = s[i]
        BY <4>1, <3>3
      <4>3. i \in DOMAIN s /\ i < k
        BY <4>2, <1>1
      <4>4. name[u[j]] = name[c]
        BY <3>1, <3>2, <3>4 DEF GroupOK
      <4> QED BY <4>2, <4>3, <4>4 DEF Fair, c
    <3>6. w[1] = u[1]
      BY <3>2, <3>4 DEF w
    <3>7. \A j \in DOMAIN w : j = m + 1 \/ j \in 1 .. m
      BY <3>2, <3>4 DEF w
    <3>8. \A j \in DOMAIN w : name[w[j]] = name[w[1]]
      BY <3>1, <3>2, <3>4, <3>6, <3>7 DEF w, GroupOK
    <3>9. ASSUME NEW i \in DOMAIN w, NEW j \in DOMAIN w, i < j PROVE w[i] < w[j]
      <4>1. i \in 1 .. m
        <5>1. (i = m + 1 \/ i \in 1 .. m) /\ (j = m + 1 \/ j \in 1 .. m)
          BY <3>7
        <5>2. m \in Nat
          BY <3>2
        <5> QED BY <5>1, <5>2, <3>9
      <4>2. CASE j \in 1 .. m
        BY <4>1, <4>2, <3>2, <3>4, <3>9 DEF w, GroupOK
      <4>3. CASE j = m + 1
        BY <4>1, <4>3, <3>4, <3>5 DEF w
      <4> QED BY <4>2, <4>3, <3>7
    <3>10. GroupOK(n, w)
      BY <3>2, <3>6, <3>8, <3>9 DEF GroupOK
    <3> QED BY <3>1, <3>6, <3>10 DEF w, u
  <2> QED BY <2>2, <2>3
<1> QED BY <1>2 DEF InOrder, Fair, Together, Joined

\* A group goes to the end of the new list as a whole.
LEMMA PushesGroup ==
    ASSUME NEW n \in Node, NEW p \in Seq(Node), NEW gs \in Seq(Seq(Node)), gs # <<>>,
           \A g \in DOMAIN gs : gs[g] # <<>>,
           \A g, h \in DOMAIN gs : name[gs[g][1]] = name[gs[h][1]] => g = h,
           Image(gs[1]) \subseteq Kids(n), InOrder(n, p, gs)
    PROVE  InOrder(n, p \o Head(gs), Tail(gs))
<1> DEFINE u == Head(gs)
           q == p \o u
           r == Tail(gs)
           m == Len(p)
<1>1. /\ u = gs[1] /\ u \in Seq(Node) /\ Len(gs) \in Nat \ {0} /\ DOMAIN gs = 1 .. Len(gs)
      /\ 1 \in DOMAIN gs
      /\ DOMAIN r = 1 .. Len(gs) - 1 /\ \A g \in 1 .. Len(gs) - 1 : r[g] = gs[g + 1]
  OBVIOUS
<1>2. u # <<>> /\ GroupOK(n, u) /\ Image(u) \subseteq Kids(n)
  BY <1>1 DEF InOrder
<1> HIDE DEF u, r
<1>3. /\ m \in Nat /\ Len(u) \in Nat \ {0} /\ DOMAIN p = 1 .. m /\ DOMAIN u = 1 .. Len(u)
      /\ DOMAIN q = 1 .. m + Len(u)
      /\ \A i \in 1 .. m : q[i] = p[i]
      /\ \A i \in DOMAIN q : i \notin 1 .. m => i - m \in 1 .. Len(u) /\ q[i] = u[i - m]
  BY <1>1, <1>2
<1>4. /\ \A i \in 1 .. m : p[i] \in Nat
      /\ \A i \in DOMAIN u : u[i] \in Nat /\ u[i] \in Kids(n)
  <2>1. \A i \in DOMAIN u : u[i] \in Image(u) /\ u[i] \in Node
    BY <1>1 DEF Image
  <2>2. \A i \in 1 .. m : p[i] \in Node
    OBVIOUS
  <2> QED BY <2>1, <2>2, <1>2, NodeFacts
<1> HIDE DEF m, q
<1>5. \A g \in DOMAIN r : /\ g + 1 \in DOMAIN gs /\ 1 \in DOMAIN gs /\ g + 1 # 1
                          /\ 1 < g + 1 /\ r[g] = gs[g + 1]
  BY <1>1
<1>6. /\ \A i \in DOMAIN u : name[u[i]] = name[u[1]]
      /\ \A i, j \in DOMAIN u : i < j => u[i] < u[j]
      /\ Oldest(n, u[1]) /\ 1 \in DOMAIN u
  BY <1>2, <1>3 DEF GroupOK
<1>7. \A i \in DOMAIN u : Oldest(n, u[i]) => i = 1
  <2> SUFFICES ASSUME NEW i \in DOMAIN u, Oldest(n, u[i]) PROVE i = 1
    OBVIOUS
  <2>1. u[i] <= u[1]
    BY <1>4, <1>6 DEF Oldest
  <2>2. u[i] \in Nat /\ u[1] \in Nat
    BY <1>4, <1>6
  <2>3. ~ (1 < i)
    BY <2>1, <2>2, <1>6
  <2> QED BY <2>3, <1>3
<1>8. \A i \in 1 .. m : name[p[i]] # name[u[1]] /\ (Oldest(n, p[i]) => p[i] < u[1])
  BY <1>1, <1>3 DEF InOrder
<1>9. \A g \in DOMAIN r : GroupOK(n, r[g])
  BY <1>5 DEF InOrder
<1>10. \A g, h \in DOMAIN r : g < h => r[g][1] < r[h][1]
  <2> SUFFICES ASSUME NEW g \in DOMAIN r, NEW h \in DOMAIN r, g < h PROVE r[g][1] < r[h][1]
    OBVIOUS
  <2> DEFINE g1 == g + 1
             h1 == h + 1
  <2>1. g1 \in DOMAIN gs /\ h1 \in DOMAIN gs /\ g1 < h1 /\ r[g] = gs[g1] /\ r[h] = gs[h1]
    BY <1>1, <1>5
  <2> HIDE DEF g1, h1
  <2> QED BY <2>1 DEF InOrder
<1>11. \A g \in DOMAIN r : name[u[1]] # name[r[g][1]] /\ u[1] < r[g][1]
  <2> TAKE g \in DOMAIN r
  <2> DEFINE g1 == g + 1
  <2>1. g1 \in DOMAIN gs /\ 1 \in DOMAIN gs /\ g1 # 1 /\ 1 < g1 /\ r[g] = gs[g1]
    BY <1>5
  <2> HIDE DEF g1
  <2> QED BY <2>1, <1>1 DEF InOrder
<1>12. Fair(n, p) /\ Together(p)
  BY DEF InOrder
<1>13. ASSUME NEW a \in DOMAIN q, NEW b \in DOMAIN q, a < b
       PROVE  /\ name[q[a]] = name[q[b]] => q[a] < q[b] /\ \A k \in a .. b : name[q[k]] = name[q[a]]
              /\ Oldest(n, q[a]) /\ Oldest(n, q[b]) => q[a] < q[b]
  <2>1. a \in Nat /\ b \in Nat /\ \A k \in a .. b : k \in DOMAIN q
    BY <1>3
  <2>2. CASE b \in 1 .. m
    <3>1. a \in 1 .. m /\ \A k \in a .. b : k \in 1 .. m
      BY <2>1, <2>2, <1>3, <1>13
    <3>2. q[a] = p[a] /\ q[b] = p[b] /\ \A k \in a .. b : q[k] = p[k]
      BY <2>2, <3>1, <1>3
    <3>3. a \in DOMAIN p /\ b \in DOMAIN p
      BY <2>2, <3>1, <1>3
    <3>4. /\ name[p[a]] = name[p[b]] => p[a] < p[b] /\ \A k \in a .. b : name[p[k]] = name[p[a]]
          /\ Oldest(n, p[a]) /\ Oldest(n, p[b]) => p[a] < p[b]
      BY <3>3, <1>12, <1>13 DEF Fair, Together
    <3> QED BY <3>2, <3>4
  <2>3. CASE a \in 1 .. m /\ b \notin 1 .. m
    <3>1. q[a] = p[a] /\ b - m \in DOMAIN u /\ q[b] = u[b - m]
      BY <2>3, <1>3
    <3>2. name[q[a]] # name[q[b]]
      BY <3>1, <2>3, <1>6, <1>8
    <3>3. Oldest(n, q[a]) /\ Oldest(n, q[b]) => q[a] < q[b]
      BY <3>1, <2>3, <1>7, <1>8
    <3> QED BY <3>2, <3>3
  <2>4. CASE a \notin 1 .. m
    <3>1. b \notin 1 .. m /\ \A k \in a .. b : k \notin 1 .. m
      BY <2>1, <2>4, <1>3, <1>13
    <3>2. \A k \in a .. b : k - m \in DOMAIN u /\ q[k] = u[k - m]
      BY <2>1, <3>1, <1>3
    <3>3. a \in a .. b /\ b \in a .. b
      BY <2>1, <1>13
    <3> DEFINE i == a - m
               j == b - m
    <3>4. i \in DOMAIN u /\ j \in DOMAIN u /\ i < j /\ q[a] = u[i] /\ q[b] = u[j]
      BY <2>1, <3>2, <3>3, <1>3, <1>13
    <3> HIDE DEF i, j
    <3>5. q[a] < q[b]
      BY <3>4, <1>6
    <3>6. \A k \in a .. b : name[q[k]] = name[q[a]]
      BY <3>2, <3>4, <1>6
    <3> QED BY <3>5, <3>6
  <2> QED BY <2>2, <2>3, <2>4
<1>14. Fair(n, q) /\ Together(q)
  BY <1>13 DEF Fair, Together
<1>15. ASSUME NEW a \in DOMAIN q, NEW g \in DOMAIN r
       PROVE  name[q[a]] # name[r[g][1]] /\ (Oldest(n, q[a]) => q[a] < r[g][1])
  <2>1. CASE a \in 1 .. m
    <3> DEFINE g1 == g + 1
    <3>1. g1 \in DOMAIN gs /\ r[g] = gs[g1] /\ q[a] = p[a] /\ a \in DOMAIN p
      BY <2>1, <1>3, <1>5
    <3> HIDE DEF g1
    <3> QED BY <3>1 DEF InOrder
  <2>2. CASE a \notin 1 .. m
    <3>1. a - m \in DOMAIN u /\ q[a] = u[a - m]
      BY <2>2, <1>3
    <3> QED BY <3>1, <1>6, <1>7, <1>11
  <2> QED BY <2>1, <2>2
<1>16. InOrder(n, q, r)
  BY <1>9, <1>10, <1>14, <1>15 DEF InOrder
<1> QED BY <1>16 DEF q, r, u

LEMMA SortedFrom ==
    ASSUME IInv, SortInv, [Next]_vars
    PROVE  SortInv'
<1>1. TypeOK /\ Arena /\ ChildrenKept /\ Stack
  BY DEF IInv
<1>2. UNCHANGED <<born, name>>
  BY DEF Next, vars, Visit, Visited, GroupChild, Grouped, PushGroup, Pushed, Take
<1>3. \A n, p, gs : /\ Fair(n, p)' <=> Fair(n, p)
                    /\ InOrder(n, p, gs)' <=> InOrder(n, p, gs)
  BY <1>2, SameNames
<1>4. ASSUME UNCHANGED children PROVE (\A n \in Node : Fair(n, children[n]))'
  BY <1>3, <1>4 DEF SortInv
<1>5. ASSUME groups' = <<>>, pushed' = <<>> PROVE InOrder(Top.node, pushed, groups)'
  BY <1>2, <1>5, NothingInOrder, InOrderLater
<1>6. ASSUME UNCHANGED <<calls, pushed, groups>>
      PROVE  InOrder(Top.node, pushed, groups)'
  <2>1. Top' = Top
    BY <1>6 DEF Top
  <2>2. InOrder(Top.node, pushed, groups)
    BY DEF SortInv
  <2> QED BY <1>2, <1>6, <2>1, <2>2, InOrderLater
<1>7. CASE Visit \/ Visited \/ Take
  <2>1. UNCHANGED <<children, groups, pushed>> /\ phase \in {"visit", "flat"}
    BY <1>7 DEF Visit, Visited, Take
  <2>2. groups = <<>> /\ pushed = <<>>
    BY <1>1, <2>1 DEF Stack, Grouping
  <2> QED BY <2>1, <2>2, <1>4, <1>5 DEF SortInv
<1>8. CASE Grouped \/ UNCHANGED vars
  <2>1. UNCHANGED <<children, calls, pushed, groups>>
    BY <1>8 DEF Grouped, vars
  <2> QED BY <2>1, <1>4, <1>6 DEF SortInv
<1>9. CASE GroupChild
  <2> DEFINE n == Top.node
             k == Top.at
             s == children[n]
             r == [Top EXCEPT !.at = @ + 1]
  <2>1. /\ phase = "group" /\ k <= Len(s) /\ calls' = Append(Below, r)
        /\ groups' = IF GroupOf(s[k]) = {} THEN Append(groups, <<s[k]>>)
                     ELSE [g \in DOMAIN groups |->
                             IF g \in GroupOf(s[k]) THEN Append(groups[g], s[k]) ELSE groups[g]]
        /\ UNCHANGED <<children, pushed>>
    BY <1>9 DEF GroupChild
  <2>2. calls # <<>> /\ pushed = <<>>
    BY <1>1, <2>1 DEF Stack
  <2>3. n \in Node /\ k \in Nat \ {0} /\ Below \in Seq(CallType) /\ Top \in CallType
    BY <1>1, <2>2, CallsOK
  <2>4. s \in Seq(Node) /\ Image(s) = Kids(n) /\ Fair(n, s)
    BY <2>3, <1>1, KidsOK DEF SortInv
  <2>5. k \in DOMAIN s
    BY <2>1, <2>3, <2>4
  <2>6. r \in CallType /\ r.node = n
    BY <2>3 DEF CallType
  <2>7. Top'.node = n
    BY <2>1, <2>3, <2>6, Replace
  <2>8. /\ groups \in Seq(Seq(Node)) /\ \A g \in DOMAIN groups : groups[g] # <<>>
    BY DEF IInv, TypeOK, Apart
  <2>9. UNION {Image(groups[g]) : g \in DOMAIN groups} = FirstOf(s, k - 1)
    <3>1. Image(pushed) = {}
      BY <2>2 DEF Image
    <3> QED BY <2>1, <3>1 DEF IInv, Held, Grouping, Seen, InGroups
  <2>10. InOrder(n, <<>>, groups)
    BY <2>2 DEF SortInv
  <2> HIDE DEF n, k, s, r
  <2>11. InOrder(n, <<>>, groups')
    <3>1. CASE GroupOf(s[k]) = {}
      <4>1. \A g \in DOMAIN groups : name[groups[g][1]] # name[s[k]]
        BY <3>1 DEF GroupOf
      <4> QED BY <3>1, <4>1, <2>1, <2>3, <2>4, <2>5, <2>8, <2>9, <2>10, StartsGroup
    <3>2. CASE GroupOf(s[k]) # {}
      <4>1. Joined(s[k], groups, groups')
        <5>1. groups' = [g \in DOMAIN groups |->
                           IF g \in GroupOf(s[k]) THEN Append(groups[g], s[k]) ELSE groups[g]]
          BY <3>2, <2>1
        <5>2. \A g \in DOMAIN groups : g \in GroupOf(s[k]) <=> name[groups[g][1]] = name[s[k]]
          BY DEF GroupOf
        <5> QED BY <5>1, <5>2 DEF Joined
      <4>2. Holds(s, k - 1, groups)
        BY <2>8, <2>9 DEF Holds
      <4> QED BY <4>1, <4>2, <2>3, <2>4, <2>5, <2>10, JoinsGroup
    <3> QED BY <3>1, <3>2
  <2>12. InOrder(Top.node, pushed, groups)'
    BY <2>1, <2>2, <2>7, <2>11, <1>2, InOrderLater
  <2> QED BY <2>1, <2>12, <1>4 DEF SortInv
<1>10. CASE PushGroup
  <2>1. /\ phase = "push" /\ groups # <<>> /\ pushed' = pushed \o Head(groups)
        /\ groups' = Tail(groups) /\ UNCHANGED <<children, calls>>
    BY <1>10 DEF PushGroup
  <2>2. calls # <<>>
    BY <1>1, <2>1 DEF Stack
  <2>3. Top.node \in Node /\ Top' = Top
    BY <1>1, <2>1, <2>2, CallsOK DEF Top
  <2>4. /\ groups \in Seq(Seq(Node)) /\ pushed \in Seq(Node)
        /\ \A g \in DOMAIN groups : groups[g] # <<>>
        /\ \A g, h \in DOMAIN groups : name[groups[g][1]] = name[groups[h][1]] => g = h
    BY DEF IInv, TypeOK, Apart, NamesApart
  <2>5. Image(groups[1]) \subseteq Kids(Top.node)
    <3>1. 1 \in DOMAIN groups
      BY <2>1, <2>4
    <3>2. Image(groups[1]) \subseteq InGroups
      BY <3>1 DEF InGroups
    <3>3. InGroups \subseteq Image(children[Top.node])
      BY <2>1 DEF IInv, Held, Grouping, Seen
    <3> QED BY <3>2, <3>3, <2>3, <1>1, KidsOK
  <2>6. InOrder(Top.node, pushed \o Head(groups), Tail(groups))
    BY <2>1, <2>3, <2>4, <2>5, PushesGroup DEF SortInv
  <2> QED BY <2>1, <2>3, <2>6, <1>2, <1>4, InOrderLater DEF SortInv
<1>11. CASE Pushed
  <2> DEFINE n == Top.node
  <2>1. /\ phase = "push" /\ groups = <<>> /\ pushed' = <<>> /\ UNCHANGED groups
        /\ children' = [children EXCEPT ![n] = pushed]
    BY <1>11 DEF Pushed
  <2>2. calls # <<>>
    BY <1>1, <2>1 DEF Stack
  <2>3. n \in Node
    BY <1>1, <2>2, CallsOK
  <2>4. Fair(n, pushed)
    BY DEF SortInv, InOrder
  <2> HIDE DEF n
  <2>5. \A m \in Node : Fair(m, children'[m])
    BY <2>1, <2>3, <2>4 DEF SortInv, IInv, TypeOK
  <2>6. (\A m \in Node : Fair(m, children[m]))'
    BY <2>5, <1>2 DEF Fair, Oldest, Kids, Image
  <2> QED BY <2>1, <2>6, <1>5 DEF SortInv
<1> QED BY <1>7, <1>8, <1>9, <1>10, <1>11 DEF Next

LEMMA SortInductive == Spec => []SortInv
<1>1. Init => SortInv
  <2> SUFFICES ASSUME Init PROVE SortInv
    OBVIOUS
  <2>1. born \in [Node -> Lists] /\ children = born /\ pushed = <<>> /\ groups = <<>>
    BY DEF Init
  <2>2. \A n \in Node : Fair(n, children[n])
    BY <2>1, SortedIsFair
  <2> QED BY <2>1, <2>2, NothingInOrder DEF SortInv
<1>2. IInv /\ SortInv /\ [Next]_vars => SortInv'
  BY SortedFrom
<1> QED BY <1>1, <1>2, Inductive, PTL DEF Spec

-----------------------------------------------------------------------------
(* Every node is compacted                                                 *)

\* All of S, which is closed under children, is grouped.
AllGrouped(S) == \A m \in S : Kids(m) \subseteq S /\ Together(children[m])

\* c and what is below it.
Compact(c) == \E S \in SUBSET Node : c \in S /\ AllGrouped(S)

\* The calls go down from the root; what a call has visited is compacted, but
\* for the child that the next call is about.
Path ==
    /\ calls # <<>> => calls[1].node = Root
    /\ \A i, j \in DOMAIN calls : i < j => calls[i].node < calls[j].node
    /\ \A i \in 1 .. Len(calls) - 1 : \A j \in DOMAIN children[calls[i].node] :
         j < calls[i].at => \/ Compact(children[calls[i].node][j])
                           \/ children[calls[i].node][j] = calls[i + 1].node

TidyInv ==
    /\ Path
    /\ phase = "visit" /\ calls # <<>> =>
         \A j \in DOMAIN children[Top.node] : j < Top.at => Compact(children[Top.node][j])
    /\ Grouping => \A c \in Kids(Top.node) : Compact(c)
    /\ phase = "flat" => Compact(Root)

\* Grouping a node's children spoils no other's.
LEMMA CompactKept ==
    ASSUME UNCHANGED <<born, name>>,
           \A m \in Node : Together(children[m]) => Together(children'[m])
    PROVE  \A c : Compact(c) => Compact(c)'
<1>1. \A m \in Node : Together(children'[m]) => Together(children[m])'
  BY DEF Together
<1>2. \A m : Kids(m)' = Kids(m)
  BY DEF Kids, Image
<1>3. ASSUME NEW S \in SUBSET Node, AllGrouped(S) PROVE AllGrouped(S)'
  BY <1>1, <1>2, <1>3 DEF AllGrouped
<1> QED BY <1>3 DEF Compact

\* A node is compacted when its children are and its list is grouped.
LEMMA CompactUp ==
    ASSUME NEW n \in Node, \A c \in Kids(n) : Compact(c), Together(children[n])
    PROVE  Compact(n)
<1> DEFINE S == {m \in Node : Compact(m)}
           T == S \cup {n}
<1>1. \A m \in S : Kids(m) \subseteq S /\ Together(children[m])
  <2> SUFFICES ASSUME NEW m \in S PROVE Kids(m) \subseteq S /\ Together(children[m])
    OBVIOUS
  <2>1. PICK R \in SUBSET Node : m \in R /\ AllGrouped(R)
    BY DEF Compact
  <2>2. \A x \in R : Compact(x)
    BY <2>1 DEF Compact
  <2> QED BY <2>1, <2>2 DEF AllGrouped
<1>2. Kids(n) \subseteq S
  <2>1. \A c \in Kids(n) : c \in Node
    BY DEF Compact
  <2> QED BY <2>1
<1>3. T \in SUBSET Node /\ n \in T /\ AllGrouped(T)
  BY <1>1, <1>2 DEF AllGrouped
<1> QED BY <1>3 DEF Compact

\* The stack when its top is replaced, and one call is put on it.
LEMMA StackIndex ==
    ASSUME NEW s \in Seq(CallType), s # <<>>, NEW r \in CallType, NEW q \in CallType
    PROVE  LET b == SubSeq(s, 1, Len(s) - 1)
               t == Append(b, r)
               u == Append(t, q)
           IN  /\ Len(s) \in Nat \ {0} /\ DOMAIN s = 1 .. Len(s)
               /\ b \in Seq(CallType) /\ DOMAIN b = 1 .. Len(s) - 1 /\ Len(b) = Len(s) - 1
               /\ \A i \in 1 .. Len(s) - 1 : b[i] = s[i] /\ t[i] = s[i] /\ u[i] = s[i]
               /\ Len(t) = Len(s) /\ DOMAIN t = 1 .. Len(s) /\ t[Len(s)] = r /\ u[Len(s)] = r
               /\ Len(u) = Len(s) + 1 /\ DOMAIN u = 1 .. Len(s) + 1 /\ u[Len(s) + 1] = q
<1> DEFINE n == Len(s) - 1
           b == SubSeq(s, 1, n)
           t == Append(b, r)
           u == Append(t, q)
<1>1. Len(s) \in Nat \ {0} /\ DOMAIN s = 1 .. Len(s) /\ n \in Nat /\ n + 1 = Len(s)
  OBVIOUS
<1>2. \A i \in 1 .. n : s[i] \in CallType
  BY <1>1
<1> HIDE DEF n
<1>3. b \in Seq(CallType) /\ Len(b) = n /\ \A i \in 1 .. n : b[i] = s[i]
  <2>1. 1 \in Int /\ n \in Int
    BY <1>1
  <2> QED BY <1>1, <1>2, <2>1, SubSeqProperties
<1> HIDE DEF b
<1>4. /\ t \in Seq(CallType) /\ DOMAIN t = 1 .. n + 1 /\ Len(t) = n + 1 /\ t[n + 1] = r
      /\ \A i \in 1 .. n : t[i] = b[i]
  BY <1>1, <1>3
<1> HIDE DEF t
<1>5. /\ DOMAIN u = 1 .. n + 1 + 1 /\ Len(u) = n + 1 + 1 /\ u[n + 1 + 1] = q
      /\ \A i \in 1 .. n + 1 : u[i] = t[i]
  BY <1>1, <1>4
<1> HIDE DEF u
<1>6. DOMAIN b = 1 .. n
  BY <1>3
<1>7. n + 1 \in 1 .. n + 1 /\ \A i \in 1 .. n : i \in 1 .. n + 1
  BY <1>1
<1>8. \A i \in 1 .. n : b[i] = s[i] /\ t[i] = s[i] /\ u[i] = s[i]
  BY <1>3, <1>4, <1>5, <1>7
<1>9. u[n + 1] = r
  BY <1>4, <1>5, <1>7
<1> QED BY <1>1, <1>3, <1>4, <1>5, <1>6, <1>8, <1>9 DEF n, b, t, u

\* The top is replaced by a call about the same node.
LEMMA SameStack ==
    ASSUME TypeOK, calls # <<>>, NEW r \in CallType, r.node = Top.node,
           calls' = Append(Below, r)
    PROVE  /\ calls' # <<>> /\ DOMAIN calls' = DOMAIN calls /\ Len(calls') = Len(calls)
           /\ DOMAIN calls = 1 .. Len(calls) /\ Len(calls) \in Nat \ {0} /\ Top' = r
           /\ \A i \in DOMAIN calls : calls'[i].node = calls[i].node
           /\ \A i \in 1 .. Len(calls) - 1 : calls'[i] = calls[i]
<1> DEFINE L == Len(calls)
<1>1. calls \in Seq(CallType)
  BY DEF TypeOK, CallType
<1>2. /\ L \in Nat \ {0} /\ DOMAIN calls = 1 .. L
      /\ \A i \in 1 .. L - 1 : calls'[i] = calls[i]
      /\ Len(calls') = L /\ DOMAIN calls' = 1 .. L /\ calls'[L] = r
  BY <1>1, StackIndex DEF Below
<1>3. Top' = r /\ Top = calls[L]
  BY <1>2 DEF Top
<1> HIDE DEF L
<1>4. \A i \in 1 .. L : i = L \/ i \in 1 .. L - 1
  BY <1>2
<1>5. \A i \in 1 .. L : calls'[i].node = calls[i].node
  BY <1>2, <1>3, <1>4
<1>6. calls' # <<>>
  BY <1>2
<1> QED BY <1>2, <1>3, <1>5, <1>6 DEF L

LEMMA CompactSame ==
    ASSUME UNCHANGED <<born, name, children>>
    PROVE  \A c : Compact(c) => Compact(c)'
<1>1. \A m \in Node : Together(children[m]) => Together(children'[m])
  OBVIOUS
<1> QED BY <1>1, CompactKept

LEMMA PathKept ==
    ASSUME TypeOK, Path, UNCHANGED <<born, name, children>>, calls # <<>>,
           NEW r \in CallType, r.node = Top.node, calls' = Append(Below, r)
    PROVE  Path'
<1>1. /\ calls' # <<>> /\ DOMAIN calls' = DOMAIN calls /\ Len(calls') = Len(calls)
      /\ DOMAIN calls = 1 .. Len(calls) /\ Len(calls) \in Nat \ {0}
      /\ \A i \in DOMAIN calls : calls'[i].node = calls[i].node
      /\ \A i \in 1 .. Len(calls) - 1 : calls'[i] = calls[i]
  BY SameStack
<1>2. calls'[1].node = Root
  BY <1>1 DEF Path
<1>3. \A i, j \in DOMAIN calls' : i < j => calls'[i].node < calls'[j].node
  BY <1>1 DEF Path
<1>4. ASSUME NEW i \in 1 .. Len(calls') - 1, NEW j \in DOMAIN children'[calls'[i].node],
             j < calls'[i].at
      PROVE  \/ Compact(children[calls[i].node][j])'
             \/ children'[calls'[i].node][j] = calls'[i + 1].node
  <2>1. i \in 1 .. Len(calls) - 1 /\ i + 1 \in DOMAIN calls
    BY <1>1
  <2>2. calls'[i] = calls[i] /\ calls'[i + 1].node = calls[i + 1].node
    BY <2>1, <1>1
  <2>3. \/ Compact(children[calls[i].node][j])
        \/ children[calls[i].node][j] = calls[i + 1].node
    BY <2>1, <2>2, <1>4 DEF Path
  <2> DEFINE c == children[calls[i].node][j]
  <2>4. c' = c
    BY <2>2
  <2>5. Compact(c) => Compact(c)'
    <3>1. \A x : Compact(x) => Compact(x)'
      BY CompactSame
    <3> QED BY <3>1, <2>4 DEF Compact
  <2> QED BY <2>2, <2>3, <2>5
<1> QED BY <1>2, <1>3, <1>4 DEF Path

LEMMA VisitTidy == IInv /\ TidyInv /\ Visit => TidyInv'
<1> SUFFICES ASSUME IInv, TidyInv, Visit PROVE TidyInv'
  OBVIOUS
<1> DEFINE L == Len(calls)
           n == Top.node
           c == children[n][Top.at]
           r == [Top EXCEPT !.at = @ + 1]
           q == Call(c)
<1>1. /\ phase = "visit" /\ phase' = "visit" /\ calls # <<>> /\ TypeOK /\ Arena /\ ChildrenKept
      /\ Top.at <= Len(children[n]) /\ calls' = Append(Append(Below, r), q)
      /\ UNCHANGED <<born, name, children>>
  BY DEF Visit, IInv
<1>2. Top \in CallType /\ n \in Node /\ Top.at \in Nat \ {0}
  BY <1>1, CallsOK
<1>3. /\ children[n] \in Seq(Node) /\ Image(children[n]) = Kids(n)
  BY <1>1, <1>2, KidsOK
<1>4. Top.at \in DOMAIN children[n] /\ c \in Node /\ c \in Kids(n)
  <2>1. Top.at \in DOMAIN children[n]
    BY <1>1, <1>2, <1>3
  <2> QED BY <2>1, <1>3 DEF Image
<1>5. n < c
  BY <1>1, <1>2, <1>4 DEF Arena, Kids
<1>6. /\ r \in CallType /\ r.node = n /\ r.at = Top.at + 1
      /\ q \in CallType /\ q.node = c /\ q.at = 1
  BY <1>2, <1>4 DEF CallType, Call
<1>7. calls \in Seq(CallType)
  BY <1>1 DEF TypeOK, CallType
<1> HIDE DEF r, q
<1>8. /\ L \in Nat \ {0} /\ DOMAIN calls = 1 .. L
      /\ \A i \in 1 .. L - 1 : calls'[i] = calls[i]
      /\ calls'[L] = r /\ calls'[L + 1] = q /\ DOMAIN calls' = 1 .. L + 1 /\ Len(calls') = L + 1
  BY <1>1, <1>6, <1>7, StackIndex DEF Below
<1>9. Top = calls[L] /\ Top' = q
  BY <1>8 DEF Top
<1> HIDE DEF L, n, c
<1>10. \A i \in 1 .. L : calls'[i].node = calls[i].node
  <2> SUFFICES ASSUME NEW i \in 1 .. L PROVE calls'[i].node = calls[i].node
    OBVIOUS
  <2>1. i = L \/ i \in 1 .. L - 1
    BY <1>8
  <2> QED BY <2>1, <1>6, <1>8, <1>9 DEF n
<1>11. \A x : Compact(x) => Compact(x)'
  BY <1>1, CompactSame
<1>12. calls'[1].node = Root
  <2>1. 1 \in 1 .. L
    BY <1>8
  <2> QED BY <2>1, <1>1, <1>10 DEF TidyInv, Path
<1>13. ASSUME NEW i \in DOMAIN calls', NEW j \in DOMAIN calls', i < j
       PROVE  calls'[i].node < calls'[j].node
  <2>1. i \in 1 .. L
    BY <1>8, <1>13
  <2>2. calls[i].node \in Nat /\ c \in Nat /\ n \in Nat
    <3>1. calls[i] \in CallType
      BY <2>1, <1>7, <1>8
    <3> QED BY <3>1, <1>2, <1>4, NodeFacts DEF CallType
  <2>3. CASE j \in 1 .. L
    BY <2>1, <2>3, <1>8, <1>10, <1>13 DEF TidyInv, Path
  <2>4. CASE j = L + 1
    <3>1. calls'[i].node = calls[i].node /\ calls'[j].node = c
      BY <2>1, <2>4, <1>6, <1>8, <1>10
    <3>2. CASE i = L
      BY <3>1, <3>2, <1>5, <1>9 DEF n
    <3>3. CASE i < L
      <4>1. calls[i].node < calls[L].node
        BY <2>1, <3>3, <1>8 DEF TidyInv, Path
      <4> QED BY <3>1, <4>1, <2>2, <1>5, <1>9 DEF n
    <3> QED BY <2>1, <3>2, <3>3, <1>8
  <2> QED BY <2>3, <2>4, <1>8
<1>14. ASSUME NEW i \in 1 .. Len(calls') - 1, NEW j \in DOMAIN children'[calls'[i].node],
              j < calls'[i].at
       PROVE  \/ Compact(children[calls[i].node][j])'
              \/ children'[calls'[i].node][j] = calls'[i + 1].node
  <2> DEFINE x == children[calls[i].node][j]
  <2>1. i \in 1 .. L /\ x' = x
    BY <1>1, <1>8, <1>10
  <2>2. Compact(x) \/ x = calls'[i + 1].node
    <3>1. CASE i = L
      <4>1. calls'[i].at = Top.at + 1 /\ x = children[n][j] /\ calls'[i + 1].node = c
        BY <3>1, <1>6, <1>8, <1>9 DEF n
      <4>2. j \in DOMAIN children[n] /\ j \in Nat
        <5>1. j \in DOMAIN children[n]
          BY <3>1, <1>1, <1>6, <1>8
        <5> QED BY <5>1, <1>3
      <4>3. CASE j < Top.at
        BY <4>1, <4>2, <4>3, <1>1 DEF TidyInv, n
      <4>4. CASE j = Top.at
        BY <4>1, <4>4 DEF c
      <4> QED BY <4>1, <4>2, <4>3, <4>4, <1>2, <1>14
    <3>2. CASE i \in 1 .. L - 1
      <4>1. calls'[i] = calls[i] /\ i + 1 \in 1 .. L
        BY <3>2, <1>8
      <4>2. calls'[i + 1].node = calls[i + 1].node
        BY <4>1, <1>10
      <4>3. j \in DOMAIN children[calls[i].node] /\ j < calls[i].at
        BY <4>1, <1>1, <1>14
      <4>4. i \in 1 .. Len(calls) - 1
        BY <3>2 DEF L
      <4>5. Compact(children[calls[i].node][j]) \/ children[calls[i].node][j] = calls[i + 1].node
        BY <4>3, <4>4 DEF TidyInv, Path
      <4> QED BY <4>2, <4>5
    <3> QED BY <2>1, <3>1, <3>2, <1>8
  <2>3. Compact(x) => Compact(x)'
    BY <1>11, <2>1 DEF Compact
  <2> QED BY <2>1, <2>2, <2>3
<1>15. Path'
  <2>1. calls' # <<>>
    BY <1>8
  <2> QED BY <2>1, <1>12, <1>13, <1>14 DEF Path
<1>16. (\A j \in DOMAIN children[Top.node] : j < Top.at => Compact(children[Top.node][j]))'
  <2>1. Top'.node = c /\ Top'.at = 1
    BY <1>6, <1>9
  <2>2. children'[c] \in Seq(Node)
    BY <1>1, <1>4 DEF TypeOK
  <2>3. \A j \in DOMAIN children'[Top'.node] : ~ (j < Top'.at)
    BY <2>1, <2>2
  <2> QED BY <2>3
<1> QED BY <1>1, <1>15, <1>16 DEF TidyInv, Grouping

LEMMA VisitedTidy == IInv /\ TidyInv /\ Visited => TidyInv'
<1> SUFFICES ASSUME IInv, TidyInv, Visited PROVE TidyInv'
  OBVIOUS
<1> DEFINE n == Top.node
           r == [Top EXCEPT !.at = 1]
<1>1. /\ phase = "visit" /\ phase' = "group" /\ calls # <<>> /\ TypeOK /\ Arena /\ ChildrenKept
      /\ Top.at > Len(children[n]) /\ calls' = Append(Below, r)
      /\ UNCHANGED <<born, name, children>>
  BY DEF Visited, IInv
<1>2. Top \in CallType /\ n \in Node /\ Top.at \in Nat \ {0}
  BY <1>1, CallsOK
<1>3. r \in CallType /\ r.node = n
  BY <1>2 DEF CallType
<1>4. children[n] \in Seq(Node) /\ Image(children[n]) = Kids(n)
  BY <1>1, <1>2, KidsOK
<1> HIDE DEF r
<1>5. Path'
  BY <1>1, <1>3, PathKept DEF TidyInv
<1>6. Top'.node = n
  BY <1>1, <1>3, SameStack
<1>7. \A c \in Kids(n) : Compact(c)
  <2> SUFFICES ASSUME NEW j \in DOMAIN children[n] PROVE Compact(children[n][j])
    BY <1>4 DEF Image
  <2>1. j < Top.at
    BY <1>1, <1>2, <1>4
  <2> QED BY <2>1, <1>1 DEF TidyInv
<1>8. (\A c \in Kids(Top.node) : Compact(c))'
  <2>1. Kids(Top.node)' = Kids(n)
    BY <1>1, <1>6 DEF Kids, Image
  <2>2. \A x : Compact(x) => Compact(x)'
    BY <1>1, CompactSame
  <2> QED BY <2>1, <2>2, <1>7
<1> QED BY <1>1, <1>5, <1>8 DEF TidyInv

LEMMA GroupChildTidy == IInv /\ TidyInv /\ GroupChild => TidyInv'
<1> SUFFICES ASSUME IInv, TidyInv, GroupChild PROVE TidyInv'
  OBVIOUS
<1> DEFINE n == Top.node
           r == [Top EXCEPT !.at = @ + 1]
<1>1. /\ phase = "group" /\ phase' = "group" /\ TypeOK /\ calls' = Append(Below, r)
      /\ UNCHANGED <<born, name, children>>
  BY DEF GroupChild, IInv
<1>2. calls # <<>>
  BY <1>1 DEF IInv, Stack
<1>3. Top \in CallType /\ n \in Node /\ Top.at \in Nat \ {0}
  BY <1>1, <1>2, CallsOK
<1>4. r \in CallType /\ r.node = n
  BY <1>3 DEF CallType
<1> HIDE DEF r
<1>5. Path'
  BY <1>1, <1>2, <1>4, PathKept DEF TidyInv
<1>6. Top'.node = n
  BY <1>1, <1>2, <1>4, SameStack
<1>7. (\A c \in Kids(Top.node) : Compact(c))'
  <2>1. Kids(Top.node)' = Kids(n)
    BY <1>1, <1>6 DEF Kids, Image
  <2>2. \A x : Compact(x) => Compact(x)'
    BY <1>1, CompactSame
  <2>3. \A c \in Kids(n) : Compact(c)
    BY <1>1 DEF TidyInv, Grouping
  <2> QED BY <2>1, <2>2, <2>3
<1> QED BY <1>1, <1>5, <1>7 DEF TidyInv

\* Steps that leave the stack and the lists alone.
LEMMA StillTidy ==
    ASSUME IInv, TidyInv, UNCHANGED <<born, name, children, calls>>,
           Grouping' = Grouping, (phase' = "visit") = (phase = "visit"),
           (phase' = "flat") = (phase = "flat")
    PROVE  TidyInv'
<1>1. \A x : Compact(x) => Compact(x)'
  BY CompactSame
<1>2. Top' = Top /\ \A n : Kids(n)' = Kids(n)
  BY DEF Top, Kids, Image
<1>3. Path'
  <2>1. ASSUME NEW i \in 1 .. Len(calls) - 1, NEW j \in DOMAIN children[calls[i].node],
               j < calls[i].at
        PROVE  \/ Compact(children[calls[i].node][j])'
               \/ children[calls[i].node][j] = calls[i + 1].node
    <3> DEFINE c == children[calls[i].node][j]
    <3>1. Compact(c) \/ c = calls[i + 1].node
      BY <2>1 DEF TidyInv, Path
    <3>2. Compact(c) => Compact(c)'
      BY <1>1 DEF Compact
    <3> QED BY <3>1, <3>2
  <2> QED BY <2>1 DEF TidyInv, Path
<1>4. phase' = "visit" /\ calls' # <<>> =>
         (\A j \in DOMAIN children[Top.node] : j < Top.at => Compact(children[Top.node][j]))'
  <2> SUFFICES ASSUME phase = "visit", calls # <<>>, NEW j \in DOMAIN children[Top.node], j < Top.at
               PROVE  Compact(children[Top.node][j])'
    BY <1>2
  <2>1. Compact(children[Top.node][j])
    BY DEF TidyInv
  <2> QED BY <2>1, <1>1, <1>2 DEF Compact
<1>5. Grouping' => (\A c \in Kids(Top.node) : Compact(c))'
  <2> SUFFICES ASSUME Grouping PROVE (\A c \in Kids(Top.node) : Compact(c))'
    OBVIOUS
  <2>1. \A c \in Kids(Top.node) : Compact(c)
    BY DEF TidyInv
  <2>2. Kids(Top.node)' = Kids(Top.node)
    BY <1>2 DEF Kids, Image
  <2> QED BY <2>1, <2>2, <1>1
<1>6. phase' = "flat" => Compact(Root)'
  BY <1>1 DEF TidyInv
<1> QED BY <1>3, <1>4, <1>5, <1>6 DEF TidyInv

LEMMA PushedTidy == IInv /\ SortInv /\ TidyInv /\ Pushed => TidyInv'
<1> SUFFICES ASSUME IInv, SortInv, TidyInv, Pushed PROVE TidyInv'
  OBVIOUS
<1> DEFINE L == Len(calls)
<1>0. PICK n : n = Top.node
  OBVIOUS
<1>1. /\ phase = "push" /\ TypeOK /\ Arena /\ ChildrenKept /\ calls' = Below
      /\ children' = [children EXCEPT ![n] = pushed]
      /\ phase' = IF Below = <<>> THEN "flat" ELSE "visit"
      /\ UNCHANGED <<born, name>>
  BY <1>0 DEF Pushed, IInv
<1>2. calls # <<>>
  BY <1>1 DEF IInv, Stack
<1>3. Top \in CallType /\ n \in Node /\ calls \in Seq(CallType)
  BY <1>0, <1>1, <1>2, CallsOK DEF TypeOK, CallType
<1>4. /\ L \in Nat \ {0} /\ DOMAIN calls = 1 .. L
      /\ DOMAIN Below = 1 .. L - 1 /\ Len(Below) = L - 1 /\ Below \in Seq(CallType)
      /\ \A i \in 1 .. L - 1 : Below[i] = calls[i]
  BY <1>2, <1>3, StackIndex DEF Below
<1>5. Top = calls[L] /\ n = calls[L].node
  BY <1>0 DEF Top
<1>6. Together(pushed)
  BY DEF SortInv, InOrder
<1> HIDE DEF L
<1>7. /\ children'[n] = pushed /\ \A m \in Node : m # n => children'[m] = children[m]
  BY <1>1, <1>3 DEF TypeOK
<1>8. \A c : Compact(c) => Compact(c)'
  <2>1. \A m \in Node : Together(children'[m])  \/ children'[m] = children[m]
    BY <1>6, <1>7
  <2>2. \A m \in Node : Together(children[m]) => Together(children'[m])
    BY <2>1
  <2> QED BY <2>2, <1>1, CompactKept
<1>9. Compact(n)'
  <2>1. \A c \in Kids(n) : Compact(c)'
    BY <1>0, <1>1, <1>8 DEF TidyInv, Grouping
  <2>2. PICK S \in SUBSET Node : S = {m \in Node : Compact(m)'}
    OBVIOUS
  <2>3. \A m \in S : Kids(m)' \subseteq S /\ Together(children[m])'
    <3> SUFFICES ASSUME NEW m \in S PROVE Kids(m)' \subseteq S /\ Together(children[m])'
      OBVIOUS
    <3>1. PICK R \in SUBSET Node : m \in R /\ AllGrouped(R)'
      BY <2>2 DEF Compact
    <3>2. \A x \in R : Compact(x)'
      BY <3>1 DEF Compact
    <3> QED BY <2>2, <3>1, <3>2 DEF AllGrouped
  <2>4. Kids(n)' = Kids(n)
    BY <1>1 DEF Kids, Image
  <2>5. Kids(n) \subseteq S
    <3>1. Kids(n) \subseteq Node
      BY <1>1, <1>3, KidsOK
    <3> QED BY <3>1, <2>1, <2>2
  <2>6. Together(children[n])'
    BY <1>1, <1>6, <1>7 DEF Together
  <2> DEFINE T == S \cup {n}
  <2>7. T \in SUBSET Node /\ n \in T
    BY <1>3
  <2>8. AllGrouped(T)'
    <3> SUFFICES ASSUME NEW m \in T PROVE Kids(m)' \subseteq T /\ Together(children[m])'
      BY DEF AllGrouped
    <3>1. CASE m \in S
      BY <3>1, <2>3
    <3>2. CASE m = n
      BY <3>2, <2>4, <2>5, <2>6 DEF Together
    <3> QED BY <3>1, <3>2
  <2> HIDE DEF T
  <2> QED BY <2>7, <2>8 DEF Compact
<1>10. \A i \in 1 .. L - 1 : calls[i].node \in Node /\ calls[i].node # n
  <2> SUFFICES ASSUME NEW i \in 1 .. L - 1 PROVE calls[i].node \in Node /\ calls[i].node # n
    OBVIOUS
  <2>1. i \in DOMAIN calls /\ L \in DOMAIN calls /\ i < L
    BY <1>4
  <2>2. calls[i].node < calls[L].node
    BY <2>1 DEF TidyInv, Path
  <2>3. calls[i].node \in Node /\ calls[L].node \in Node
    <3>1. calls[i] \in CallType /\ calls[L] \in CallType
      BY <2>1, <1>3
    <3> QED BY <3>1 DEF CallType
  <2>4. calls[i].node \in Nat
    BY <2>3, NodeFacts
  <2> QED BY <2>2, <2>3, <2>4, <1>5
<1>11. \A i \in 1 .. L - 1 : children'[calls[i].node] = children[calls[i].node]
  BY <1>7, <1>10
<1>12. CASE Below = <<>>
  <2>1. phase' = "flat" /\ calls' = <<>>
    BY <1>1, <1>12
  <2>2. L = 1
    BY <1>4, <1>12
  <2>3. n = Root
    BY <2>2, <1>2, <1>5 DEF TidyInv, Path
  <2>4. Compact(Root)'
    BY <2>3, <1>9 DEF Compact
  <2>5. Path'
    BY <2>1 DEF Path
  <2> QED BY <2>1, <2>4, <2>5 DEF TidyInv, Grouping
<1>13. CASE Below # <<>>
  <2>1. phase' = "visit" /\ L >= 2 /\ L - 1 \in 1 .. L - 1 /\ 1 \in 1 .. L - 1 /\ L - 1 \in Nat
    BY <1>1, <1>4, <1>13
  <2>2. calls'[1].node = Root
    BY <2>1, <1>1, <1>2, <1>4 DEF TidyInv, Path
  <2>3. \A i, j \in DOMAIN calls' : i < j => calls'[i].node < calls'[j].node
    <3>1. \A i \in DOMAIN calls' : i \in DOMAIN calls /\ calls'[i] = calls[i]
      BY <1>1, <1>4
    <3> QED BY <3>1 DEF TidyInv, Path
  <2>4. ASSUME NEW i \in 1 .. L - 1, NEW j \in DOMAIN children[calls[i].node], j < calls[i].at
        PROVE  \/ Compact(children[calls[i].node][j])
               \/ children[calls[i].node][j] = calls[i + 1].node
    <3>1. i \in 1 .. Len(calls) - 1
      BY DEF L
    <3> QED BY <3>1, <2>4 DEF TidyInv, Path
  <2>5. ASSUME NEW i \in 1 .. Len(calls') - 1, NEW j \in DOMAIN children'[calls'[i].node],
               j < calls'[i].at
        PROVE  \/ Compact(children[calls[i].node][j])'
               \/ children'[calls'[i].node][j] = calls'[i + 1].node
    <3>1. i \in 1 .. L - 1 /\ i + 1 \in 1 .. L - 1
      BY <1>1, <1>4, <2>1
    <3>2. calls'[i] = calls[i] /\ calls'[i + 1] = calls[i + 1]
      BY <3>1, <1>1, <1>4
    <3> DEFINE x == children[calls[i].node][j]
    <3>3. x' = x
      BY <3>1, <3>2, <1>11
    <3>4. j \in DOMAIN children[calls[i].node]
      BY <3>1, <3>2, <1>11
    <3>5. Compact(x) \/ x = calls[i + 1].node
      BY <3>1, <3>2, <3>4, <2>4, <2>5
    <3>6. Compact(x) => Compact(x)'
      BY <3>3, <1>8 DEF Compact
    <3> QED BY <3>2, <3>3, <3>5, <3>6
  <2>6. Path'
    BY <2>2, <2>3, <2>5 DEF Path
  <2>7. Top' = calls[L - 1]
    <3>1. Top' = Below[Len(Below)]
      BY <1>1 DEF Top
    <3> QED BY <3>1, <2>1, <1>4
  <2> DEFINE k == L - 1
  <2>8. k \in 1 .. L - 1 /\ k + 1 = L /\ Top' = calls[k]
    BY <2>1, <2>7, <1>4
  <2> HIDE DEF k
  <2>9. ASSUME NEW j \in DOMAIN children'[Top'.node], j < Top'.at
        PROVE  Compact(children[Top.node][j])'
    <3> DEFINE x == children[calls[k].node][j]
    <3>1. children'[Top'.node] = children[calls[k].node]
      BY <2>8, <1>11
    <3>2. Compact(x) \/ x = calls[L].node
      BY <2>4, <2>8, <2>9, <3>1
    <3>3. x = calls[L].node => x = n
      BY <1>5
    <3> DEFINE y == children'[Top'.node][j]
    <3>4. y = x
      BY <3>1
    <3>5. \E S \in SUBSET Node : x \in S /\ AllGrouped(S)'
      <4>1. Compact(x) => \E S \in SUBSET Node : x \in S /\ AllGrouped(S)'
        <5> HIDE DEF x
        <5> SUFFICES ASSUME Compact(x) PROVE \E S \in SUBSET Node : x \in S /\ AllGrouped(S)'
          OBVIOUS
        <5>1. PICK v : v = x
          OBVIOUS
        <5>2. Compact(v)'
          BY <5>1, <1>8
        <5> QED BY <5>1, <5>2 DEF Compact
      <4>2. \E S \in SUBSET Node : n \in S /\ AllGrouped(S)'
        BY <1>9 DEF Compact
      <4> QED BY <4>1, <4>2, <3>2, <3>3
    <3> HIDE DEF x
    <3> QED BY <3>4, <3>5 DEF Compact
  <2> QED BY <2>1, <2>6, <2>9 DEF TidyInv, Grouping
<1> QED BY <1>12, <1>13

LEMMA TidyInductive == Spec => []TidyInv
<1>1. Init => TidyInv
  <2> SUFFICES ASSUME Init PROVE TidyInv
    OBVIOUS
  <2>1. calls = <<Call(Root)>> /\ phase = "visit"
    BY DEF Init
  <2>2. Len(calls) = 1 /\ DOMAIN calls = 1 .. 1 /\ calls[1].node = Root /\ Top.at = 1 /\ Top.node = Root
    BY <2>1 DEF Call, Top
  <2>3. Path
    BY <2>2 DEF Path
  <2>4. children[Root] \in Seq(Node)
    <3>1. children = born /\ born \in [Node -> Lists]
      BY DEF Init
    <3>2. children[Root] \in Lists
      BY <3>1, NodeFacts
    <3> QED BY <3>2, ListOK
  <2>5. \A j \in DOMAIN children[Top.node] : ~ (j < Top.at)
    BY <2>2, <2>4
  <2> QED BY <2>1, <2>3, <2>5 DEF TidyInv, Grouping
<1>2. IInv /\ SortInv /\ TidyInv /\ [Next]_vars => TidyInv'
  <2> SUFFICES ASSUME IInv, SortInv, TidyInv, [Next]_vars PROVE TidyInv'
    OBVIOUS
  <2>1. CASE Grouped \/ PushGroup \/ Take \/ UNCHANGED vars
    <3>1. UNCHANGED <<born, name, children, calls>>
      BY <2>1 DEF Grouped, PushGroup, Take, vars
    <3>2. /\ Grouping' = Grouping /\ (phase' = "visit") = (phase = "visit")
          /\ (phase' = "flat") = (phase = "flat")
      BY <2>1 DEF Grouped, PushGroup, Take, vars, Grouping
    <3> QED BY <3>1, <3>2, StillTidy
  <2> QED BY <2>1, VisitTidy, VisitedTidy, GroupChildTidy, PushedTidy DEF Next
<1> QED BY <1>1, <1>2, Inductive, SortInductive, PTL DEF Spec

\* iter_child_groups yields one group per name: in the flat tree, children of
\* one name stand together and in order, and so do the groups.
THEOREM FlattenGroupsContiguous == Spec => []GroupsContiguous
<1>1. IInv /\ SortInv /\ TidyInv => GroupsContiguous
  <2> SUFFICES ASSUME IInv, SortInv, TidyInv, NEW i \in DOMAIN nodes
               PROVE  LET ch == children[nodes[i].from] IN
                      \A a, b \in DOMAIN ch : a < b =>
                        /\ name[ch[a]] = name[ch[b]] =>
                             ch[a] < ch[b] /\ \A k \in a .. b : name[ch[k]] = name[ch[a]]
                        /\ OldestOf(nodes[i].from, ch[a]) /\ OldestOf(nodes[i].from, ch[b])
                             => ch[a] < ch[b]
    BY DEF GroupsContiguous
  <2> DEFINE n == nodes[i].from
  <2>1. n = order[i] /\ i \in DOMAIN order /\ order \in Seq(Node)
    <3>1. /\ Len(nodes) <= Len(order) /\ DOMAIN nodes = 1 .. Len(nodes)
          /\ DOMAIN order = 1 .. Len(order) /\ Len(order) \in Nat /\ Len(nodes) \in Nat
      BY DEF IInv, TypeOK, Counted
    <3> QED BY <3>1 DEF IInv, TypeOK, Ranges
  <2>2. n \in Node /\ n \in Image(order)
    BY <2>1 DEF Image
  <2>3. phase = "flat"
    BY DEF IInv, NotYet
  <2>4. PICK S \in SUBSET Node : Root \in S /\ AllGrouped(S)
    BY <2>3 DEF TidyInv, Compact
  <2>5. Image(order) \subseteq S
    BY <2>4 DEF AllGrouped, IInv, Least
  <2>6. Together(children[n])
    BY <2>2, <2>4, <2>5 DEF AllGrouped
  <2>7. Fair(n, children[n])
    BY <2>2 DEF SortInv
  <2>8. \A c : OldestOf(n, c) <=> Oldest(n, c)
    <3>1. Image(children[n]) = Kids(n)
      BY <2>2, KidsOK DEF IInv
    <3> QED BY <3>1 DEF OldestOf, Oldest
  <2> HIDE DEF n
  <2>9. \A a, b \in DOMAIN children[n] : a < b =>
           /\ name[children[n][a]] = name[children[n][b]] =>
                children[n][a] < children[n][b]
                /\ \A k \in a .. b : name[children[n][k]] = name[children[n][a]]
           /\ OldestOf(n, children[n][a]) /\ OldestOf(n, children[n][b])
                => children[n][a] < children[n][b]
    BY <2>6, <2>7, <2>8 DEF Together, Fair
  <2> QED BY <2>9 DEF n
<1> QED BY <1>1, Inductive, SortInductive, TidyInductive, PTL
=============================================================================
