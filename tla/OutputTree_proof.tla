-------------------------- MODULE OutputTree_proof --------------------------
(***************************************************************************)
(* For every set of tags, attributes and paths, every threshold and every  *)
(* bound, the arena stays a tree, the child index agrees with the children *)
(* and the open scopes stay attached.                                      *)
(*                                                                         *)
(* What the operations do to the arena is one of three changes: a node is  *)
(* added below p (AddGood), some children of p are dropped and its index   *)
(* rebuilt (RebuildGood), or names, texts and attributes change while the  *)
(* shape stays (RelabelGood).  Each keeps the arena Good.  A scope stays   *)
(* attached because an operation only drops edges that lead below the node *)
(* it stands on, and that node lies under the cursor (Inside): no path to  *)
(* an open scope uses such an edge (UnderKept).                            *)
(***************************************************************************)
EXTENDS OutputTree, TLAPS, SequenceTheorems, FiniteSetTheorems, WellFoundedInduction

Shaped(a) == a \in Seq(NodeType) /\ a # <<>>
Down(a) == \A p \in DOMAIN a : \A i \in DOMAIN a[p].children :
              p < a[p].children[i] /\ a[p].children[i] <= Len(a)
Ascends(ch) == \A i \in DOMAIN ch : \A j \in 1 .. i - 1 : ch[j] < ch[i]
Rising(a) == \A p \in DOMAIN a : Ascends(a[p].children)
OneParent(a) == \A p, q \in DOMAIN a :
    \A i \in DOMAIN a[p].children, j \in DOMAIN a[q].children :
        a[p].children[i] = a[q].children[j] => p = q
Wide(a) == \A p \in DOMAIN a : a[p].indexed <=> Len(a[p].children) >= Threshold
EntrySound(a, ch, e) ==
    /\ e.at \in DOMAIN ch
    /\ a[ch[e.at]].name = e.key.tag /\ IsPrefixOf(e.key.attribs, a[ch[e.at]].attrs)
Sound(a) == \A p \in DOMAIN a : \A e \in a[p].index : EntrySound(a, a[p].children, e)
Exact(a, T) == \A p \in DOMAIN a :
    (a[p].indexed /\ \A i \in DOMAIN a[p].children : a[p].children[i] \notin T)
        => a[p].index = FirstIndex(a, a[p].children)

Tree(a) == Shaped(a) /\ Down(a) /\ Rising(a) /\ OneParent(a)
Indexed(a, T) == Wide(a) /\ Sound(a) /\ Exact(a, T)
Inside == Running => Under(arena, Cursor, op.cur)

IInv == TypeOK /\ Tree(arena) /\ Indexed(arena, touched) /\ OpenScopesAttached /\ Inside

Labels == [tag : Tag \cup {Dot}, attribs : Seq(Attr)]

-----------------------------------------------------------------------------
(* Numbers                                                                 *)

\* A set of numbers that is not empty has a smallest one.
LEMMA Smallest ==
    ASSUME NEW T \in SUBSET Nat, T # {}
    PROVE  \E x \in T : \A y \in T : x <= y
<1>1. PICK x \in T : \A y \in T : ~ (<<y, x>> \in OpToRel(<, Nat))
  BY NatLessThanWellFounded, WFMin, Zenon
<1>2. \A y \in T : ~ (y < x)
  BY <1>1 DEF OpToRel
<1> QED BY <1>2

\* Nth finds a number for every position, and finds them in order.
LEMMA NthRises ==
    ASSUME NEW n \in Nat, NEW S \in SUBSET (1 .. n)
    PROVE  /\ Cardinality(S) \in Nat
           /\ \A i \in 1 .. Cardinality(S) : Nth(S, i) \in S
           /\ \A i, j \in 1 .. Cardinality(S) : i < j => Nth(S, i) < Nth(S, j)
<1> DEFINE To(m) == S \cap (1 .. m)
           Upto(k) == {h \in S : h <= k}
           Fails(m) == \E i \in 1 .. Cardinality(To(m)) :
                          \A k \in To(m) : Cardinality(Upto(k)) # i
           Bad == {m \in 0 .. n : Fails(m)}
<1>0. \A h \in S : h \in 1 .. n
  OBVIOUS
<1>1. \A m \in 0 .. n : IsFiniteSet(To(m)) /\ Cardinality(To(m)) \in Nat
  <2> TAKE m \in 0 .. n
  <2>1. IsFiniteSet(1 .. m)
    BY FS_Interval
  <2> QED BY <2>1, FS_Subset, FS_CardinalityType
<1>2. \A k \in S : Upto(k) = To(k) /\ k \in 0 .. n
  <2> TAKE k \in S
  <2>1. k \in 1 .. n
    BY <1>0
  <2>2. \A h \in S : h <= k <=> h \in 1 .. k
    BY <1>0, <2>1
  <2>3. Upto(k) = To(k)
    BY <2>2, Zenon
  <2> QED BY <2>1, <2>3
<1>3. Bad = {}
  <2> SUFFICES ASSUME Bad # {} PROVE FALSE
    OBVIOUS
  <2>1. PICK m \in Bad : \A y \in Bad : m <= y
    <3>1. Bad \in SUBSET Nat
      OBVIOUS
    <3> HIDE DEF Bad
    <3> QED BY <3>1, Smallest
  <2>2. PICK i \in 1 .. Cardinality(To(m)) : \A k \in To(m) : Cardinality(Upto(k)) # i
    OBVIOUS
  <2>3. CASE m = 0
    <3>1. To(m) = {}
      BY <2>3
    <3>2. Cardinality(To(m)) = 0
      BY <3>1, FS_EmptySet
    <3> QED BY <3>2
  <2>4. CASE m # 0
    <3>1. m - 1 \in 0 .. n /\ m - 1 \notin Bad
      BY <2>1, <2>4
    <3>2. i \in 1 .. Cardinality(To(m - 1)) =>
             \E k \in To(m - 1) : Cardinality(Upto(k)) = i
      BY <3>1
    <3>3. i \notin 1 .. Cardinality(To(m - 1))
      <4> HIDE DEF Upto
      <4> QED BY <2>2, <3>2
    <3>4. m \in S
      <4> SUFFICES ASSUME m \notin S PROVE FALSE
        OBVIOUS
      <4>1. To(m) = To(m - 1)
        OBVIOUS
      <4> QED BY <4>1, <3>3
    <3>5. To(m) = To(m - 1) \cup {m} /\ m \notin To(m - 1)
      BY <3>4, <3>1
    <3>6. Cardinality(To(m)) = Cardinality(To(m - 1)) + 1
      <4>1. IsFiniteSet(To(m - 1))
        BY <3>1, <1>1
      <4> HIDE DEF To
      <4> QED BY <4>1, <3>5, FS_AddElement
    <3>7. i = Cardinality(To(m))
      BY <3>3, <3>6, <1>1, <3>1
    <3> QED BY <3>7, <3>4, <1>2, <2>2
  <2> QED BY <2>3, <2>4
<1>4. To(n) = S
  OBVIOUS
<1>5. \A i \in 1 .. Cardinality(S) : \E k \in S : Cardinality(Upto(k)) = i
  <2>1. ~Fails(n)
    BY <1>3
  <2> QED BY <2>1, <1>4
<1>6. \A i \in 1 .. Cardinality(S) : Nth(S, i) \in S /\ Cardinality(Upto(Nth(S, i))) = i
  BY <1>5 DEF Nth
<1>7. ASSUME NEW i \in 1 .. Cardinality(S), NEW j \in 1 .. Cardinality(S), i < j,
             ~ (Nth(S, i) < Nth(S, j))
      PROVE  FALSE
  <2>1. Upto(Nth(S, j)) \subseteq Upto(Nth(S, i))
    <3>1. Nth(S, i) \in S /\ Nth(S, j) \in S
      BY <1>6
    <3>2. Nth(S, i) \in 1 .. n /\ Nth(S, j) \in 1 .. n
      BY <3>1, <1>0
    <3>3. \A h \in S : h <= Nth(S, j) => h <= Nth(S, i)
      BY <3>2, <1>0, <1>7
    <3> QED BY <3>3, Zenon
  <2>2. IsFiniteSet(Upto(Nth(S, i)))
    BY <1>6, <1>2, <1>1
  <2>3. Cardinality(Upto(Nth(S, j))) <= Cardinality(Upto(Nth(S, i)))
    BY <2>1, <2>2, FS_Subset
  <2> QED BY <2>3, <1>6, <1>7
<1>8. Cardinality(S) \in Nat
  <2>1. n \in 0 .. n
    OBVIOUS
  <2> QED BY <2>1, <1>1, <1>4
<1>9. \A i, j \in 1 .. Cardinality(S) : i < j => Nth(S, i) < Nth(S, j)
  BY <1>7
<1> QED BY <1>6, <1>8, <1>9

-----------------------------------------------------------------------------
(* Children and their index                                                *)

\* The parts of a node.
LEMMA NodeParts ==
    ASSUME NEW a, Shaped(a)
    PROVE  /\ Len(a) \in Nat \ {0} /\ DOMAIN a = 1 .. Len(a) /\ 1 \in DOMAIN a
           /\ \A p \in DOMAIN a :
                /\ a[p] \in NodeType
                /\ a[p].name \in Tag \cup {Dot} /\ a[p].attrs \in Seq(Attr)
                /\ a[p].children \in Seq(Nat \ {0}) /\ a[p].indexed \in BOOLEAN
                /\ a[p].index \in SUBSET [key : Labels, at : Nat \ {0}]
                /\ Key(a, p) \in Labels
                /\ Len(a[p].children) \in Nat
                /\ DOMAIN a[p].children = 1 .. Len(a[p].children)
<1>1. Len(a) \in Nat \ {0} /\ DOMAIN a = 1 .. Len(a) /\ 1 \in DOMAIN a
  BY EmptySeq, LenProperties DEF Shaped
<1>2. ASSUME NEW p \in DOMAIN a PROVE a[p] \in NodeType
  BY <1>1, ElementOfSeq DEF Shaped
<1>3. ASSUME NEW r \in NodeType
      PROVE  /\ r.name \in Tag \cup {Dot} /\ r.attrs \in Seq(Attr)
             /\ r.children \in Seq(Nat \ {0}) /\ r.indexed \in BOOLEAN
             /\ r.index \in SUBSET [key : Labels, at : Nat \ {0}]
             /\ [tag |-> r.name, attribs |-> r.attrs] \in Labels
             /\ Len(r.children) \in Nat
             /\ DOMAIN r.children = 1 .. Len(r.children)
  BY DEF NodeType, Labels
<1> QED BY <1>1, <1>2, <1>3 DEF Key

\* What replace keeps: some of the children, in their order.
LEMMA KeptProperties ==
    ASSUME NEW a, Shaped(a), NEW p \in DOMAIN a, NEW seg, Ascends(a[p].children)
    PROVE  LET ch == a[p].children
               k  == Kept(a, p, seg)
           IN  /\ k \in Seq(Nat \ {0}) /\ Ascends(k)
               /\ \A i \in DOMAIN k : \E j \in DOMAIN ch : k[i] = ch[j]
<1> DEFINE ch == a[p].children
           at == {i \in DOMAIN ch : Key(a, ch[i]) # seg}
           n  == Cardinality(at)
           k  == Kept(a, p, seg)
<1>1. ch \in Seq(Nat \ {0}) /\ Len(ch) \in Nat /\ DOMAIN ch = 1 .. Len(ch)
  BY NodeParts
<1>2. at \in SUBSET (1 .. Len(ch))
  BY <1>1
<1>3. k = [i \in 1 .. n |-> ch[Nth(at, i)]]
  BY DEF Kept
<1> HIDE DEF k, at
<1>4. /\ n \in Nat
      /\ \A i \in 1 .. n : Nth(at, i) \in at
      /\ \A i, j \in 1 .. n : i < j => Nth(at, i) < Nth(at, j)
  BY <1>1, <1>2, NthRises
<1>5. \A i \in 1 .. n : Nth(at, i) \in DOMAIN ch
  BY <1>1, <1>2, <1>4
<1> HIDE DEF n, ch
<1>6. k \in Seq(Nat \ {0}) /\ Len(k) = n /\ DOMAIN k = 1 .. n
  BY <1>1, <1>3, <1>4, <1>5
<1>7. \A i \in DOMAIN k : k[i] = ch[Nth(at, i)] /\ Nth(at, i) \in DOMAIN ch
  BY <1>3, <1>5, <1>6
<1>8. ASSUME NEW i \in DOMAIN k, NEW j \in 1 .. i - 1
      PROVE  k[j] < k[i]
  <2>1. j \in DOMAIN k /\ j < i /\ i \in 1 .. n /\ j \in 1 .. n
    BY <1>4, <1>6
  <2>2. Nth(at, j) < Nth(at, i)
    BY <2>1, <1>4
  <2>3. Nth(at, j) \in 1 .. Nth(at, i) - 1
    BY <2>1, <2>2, <1>1, <1>7
  <2> QED BY <2>1, <2>3, <1>7 DEF Ascends, ch
<1> QED BY <1>6, <1>7, <1>8 DEF Ascends, ch, k

\* Pushing a child onto an exact index leaves it exact.
LEMMA FirstIndexAppend ==
    ASSUME NEW b, NEW ch \in Seq(Nat \ {0}), NEW c \in Nat \ {0}
    PROVE  OrInsert(FirstIndex(b, ch), Key(b, c), Len(ch) + 1) = FirstIndex(b, Append(ch, c))
<1> DEFINE n == Len(ch)
           new == Append(ch, c)
           First(s, i) == \A h \in 1 .. i - 1 : Key(b, s[h]) # Key(b, s[i])
           Entry(s, i) == [key |-> Key(b, s[i]), at |-> i]
<1>1. /\ n \in Nat /\ DOMAIN ch = 1 .. n /\ DOMAIN new = 1 .. n + 1
      /\ \A i \in 1 .. n : new[i] = ch[i]
      /\ new[n + 1] = c
  OBVIOUS
<1> HIDE DEF new, n
<1>2. \A i \in 1 .. n : (First(ch, i) <=> First(new, i)) /\ Entry(ch, i) = Entry(new, i)
  BY <1>1
<1>3. FirstIndex(b, ch) = {Entry(ch, i) : i \in {j \in 1 .. n : First(ch, j)}}
  BY <1>1 DEF FirstIndex
<1>4. FirstIndex(b, new) = {Entry(new, i) : i \in {j \in 1 .. n + 1 : First(new, j)}}
  BY <1>1 DEF FirstIndex
<1>5. Entry(new, n + 1) = [key |-> Key(b, c), at |-> n + 1]
  BY <1>1
<1>6. (\E e \in FirstIndex(b, ch) : e.key = Key(b, c)) <=> ~First(new, n + 1)
  <2>1. ASSUME NEW e \in FirstIndex(b, ch), e.key = Key(b, c)
        PROVE  ~First(new, n + 1)
    <3>1. PICK i \in 1 .. n : e = Entry(ch, i)
      BY <1>3
    <3> QED BY <3>1, <2>1, <1>1
  <2>2. ASSUME ~First(new, n + 1)
        PROVE  \E e \in FirstIndex(b, ch) : e.key = Key(b, c)
    <3> DEFINE H == {h \in 1 .. n : Key(b, ch[h]) = Key(b, c)}
    <3>1. H # {} /\ H \in SUBSET Nat
      BY <2>2, <1>1
    <3>2. PICK i \in H : \A h \in H : i <= h
      <4> HIDE DEF H
      <4> QED BY <3>1, Smallest
    <3>3. i \in 1 .. n /\ First(ch, i) /\ Entry(ch, i).key = Key(b, c)
      BY <3>2, <1>1
    <3> QED BY <3>3, <1>3
  <2> QED BY <2>1, <2>2
<1> DEFINE Old == {Entry(new, i) : i \in {j \in 1 .. n : First(new, j)}}
<1>7. FirstIndex(b, ch) = Old
  BY <1>2, <1>3
<1>8. FirstIndex(b, new) = IF First(new, n + 1) THEN Old \cup {Entry(new, n + 1)} ELSE Old
  <2>1. \A j : j \in 1 .. n + 1 <=> j \in 1 .. n \/ j = n + 1
    BY <1>1
  <2> HIDE DEF First, Entry
  <2> QED BY <1>4, <2>1
<1> QED BY <1>5, <1>6, <1>7, <1>8 DEF OrInsert, new, n

\* What find_child_idx finds is a child.
LEMMA FoundChild ==
    ASSUME NEW a, Tree(a), Sound(a), NEW p \in DOMAIN a, NEW seg, Found(a, p, seg)
    PROVE  /\ FoundAt(a, p, seg) \in DOMAIN a[p].children
           /\ LET n == a[p].children[FoundAt(a, p, seg)] IN n \in DOMAIN a /\ p < n
<1> DEFINE M == Matches(a, p, seg)
<1>1. M \subseteq DOMAIN a[p].children
  <2>1. CASE a[p].indexed
    BY <2>1 DEF Matches, Sound, EntrySound
  <2>2. CASE ~a[p].indexed
    BY <2>2 DEF Matches
  <2> QED BY <2>1, <2>2
<1>2. M \in SUBSET Nat /\ M # {}
  BY <1>1, NodeParts DEF Tree, Found
<1>3. \E i \in M : \A j \in M : i <= j
  BY <1>2, Smallest
<1>4. FoundAt(a, p, seg) \in M
  BY <1>3, Zenon DEF FoundAt
<1>5. FoundAt(a, p, seg) \in DOMAIN a[p].children
  BY <1>1, <1>4
<1> HIDE DEF M
<1> QED BY <1>5, NodeParts DEF Tree, Down

-----------------------------------------------------------------------------
(* Under                                                                   *)

\* A node is under itself, and a child under its parent.
LEMMA UnderChild ==
    ASSUME NEW a, NEW p \in DOMAIN a, NEW i \in DOMAIN a[p].children
    PROVE  Under(a, p, p) /\ Under(a, p, a[p].children[i])
BY DEF Under

\* Under is reflexive and transitive.
LEMMA UnderTransitive ==
    ASSUME NEW a, NEW l, NEW m, NEW n
    PROVE  Under(a, m, m) /\ (Under(a, l, m) /\ Under(a, m, n) => Under(a, l, n))
BY DEF Under

\* What is under a node is a node, and not older.
LEMMA UnderYounger ==
    ASSUME NEW a, Tree(a), NEW m \in DOMAIN a, NEW n, Under(a, m, n)
    PROVE  n \in DOMAIN a /\ m <= n
<1> DEFINE S == m .. Len(a)
<1>1. S \in SUBSET (1 .. Len(a)) /\ m \in S /\ DOMAIN a = 1 .. Len(a) /\ Len(a) \in Nat
  BY NodeParts DEF Tree
<1>2. ASSUME NEW p \in S, NEW i \in DOMAIN a[p].children
      PROVE  a[p].children[i] \in S
  <2>1. p \in DOMAIN a /\ a[p].children[i] \in Nat
    BY <1>1, NodeParts DEF Tree
  <2>2. p < a[p].children[i] /\ a[p].children[i] <= Len(a)
    BY <2>1 DEF Tree, Down
  <2> QED BY <1>1, <2>1, <2>2
<1>3. n \in S
  <2> HIDE DEF S
  <2> QED BY <1>1, <1>2 DEF Under
<1> QED BY <1>1, <1>3

\* When every edge to a node up to k is still there, what was under m and is
\* not younger than k is still under it.
LEMMA UnderKept ==
    ASSUME NEW a, NEW b, Tree(a), Shaped(b), Len(a) <= Len(b),
           NEW k \in Nat,
           \A p \in DOMAIN a : \A i \in DOMAIN a[p].children : a[p].children[i] <= k =>
              \E j \in DOMAIN b[p].children : b[p].children[j] = a[p].children[i],
           NEW m \in DOMAIN a, NEW n \in DOMAIN a, n <= k, Under(a, m, n)
    PROVE  Under(b, m, n)
<1> SUFFICES ASSUME NEW S \in SUBSET (1 .. Len(b)), m \in S,
                    \A p \in S : \A i \in DOMAIN b[p].children : b[p].children[i] \in S
             PROVE  n \in S
  BY DEF Under
<1> DEFINE R == {x \in 1 .. Len(a) : x \in S \/ x > k}
<1>1. DOMAIN a = 1 .. Len(a) /\ Len(a) \in Nat
  BY NodeParts DEF Tree
<1>2. R \in SUBSET (1 .. Len(a)) /\ m \in R
  BY <1>1
<1>3. ASSUME NEW p \in R, NEW i \in DOMAIN a[p].children
      PROVE  a[p].children[i] \in R
  <2>1. p \in DOMAIN a
    BY <1>1
  <2>2. a[p].children[i] \in Nat /\ p < a[p].children[i] /\ a[p].children[i] <= Len(a)
    BY <2>1, NodeParts DEF Tree, Down
  <2>3. CASE a[p].children[i] <= k
    <3>1. p \in S
      BY <1>1, <2>1, <2>2, <2>3
    <3>2. PICK j \in DOMAIN b[p].children : b[p].children[j] = a[p].children[i]
      BY <2>1, <2>3
    <3> QED BY <3>1, <3>2, <2>2, <1>1, <2>1
  <2>4. CASE ~(a[p].children[i] <= k)
    BY <2>2, <2>4, <1>1, <2>1
  <2> QED BY <2>3, <2>4
<1>4. n \in R
  <2> HIDE DEF R
  <2> QED BY <1>2, <1>3 DEF Under
<1> QED BY <1>4, <1>1

-----------------------------------------------------------------------------
(* The three changes to the arena                                          *)

\* The first positions depend on the children's keys only.
LEMMA FirstIndexSame ==
    ASSUME NEW a, NEW b, NEW ch, \A i \in DOMAIN ch : Key(a, ch[i]) = Key(b, ch[i]),
           \A i \in DOMAIN ch : \A h \in 1 .. i - 1 : h \in DOMAIN ch
    PROVE  FirstIndex(a, ch) = FirstIndex(b, ch)
<1> DEFINE F(x) == {i \in DOMAIN ch : \A h \in 1 .. i - 1 : Key(x, ch[h]) # Key(x, ch[i])}
<1>1. F(a) = F(b)
  OBVIOUS
<1>2. \A i \in F(a) : [key |-> Key(a, ch[i]), at |-> i] = [key |-> Key(b, ch[i]), at |-> i]
  OBVIOUS
<1> HIDE DEF F
<1>3. {[key |-> Key(a, ch[i]), at |-> i] : i \in F(a)} = {[key |-> Key(b, ch[i]), at |-> i] : i \in F(b)}
  BY <1>1, <1>2
<1> QED BY <1>3 DEF FirstIndex, F

\* A fresh index is well typed and sound.
LEMMA FirstIndexSound ==
    ASSUME NEW a, Shaped(a), NEW ch \in Seq(Nat \ {0}), \A i \in DOMAIN ch : ch[i] \in DOMAIN a
    PROVE  /\ FirstIndex(a, ch) \in SUBSET [key : Labels, at : Nat \ {0}]
           /\ \A e \in FirstIndex(a, ch) : EntrySound(a, ch, e)
<1> SUFFICES ASSUME NEW i \in DOMAIN ch
             PROVE  LET e == [key |-> Key(a, ch[i]), at |-> i]
                    IN  e \in [key : Labels, at : Nat \ {0}] /\ EntrySound(a, ch, e)
  BY DEF FirstIndex
<1>1. i \in Nat \ {0} /\ ch[i] \in DOMAIN a /\ Key(a, ch[i]) \in Labels
  BY NodeParts
<1>2. Len(a[ch[i]].attrs) \in Nat
  BY <1>1, NodeParts
<1> QED BY <1>1, <1>2 DEF EntrySound, IsPrefixOf, Key

\* A node with other children and another index is a node.
LEMMA NodeUpdate ==
    ASSUME NEW r \in NodeType, NEW ch \in Seq(Nat \ {0}), NEW on \in BOOLEAN,
           NEW ix \in SUBSET [key : Labels, at : Nat \ {0}]
    PROVE  [r EXCEPT !.children = ch, !.indexed = on, !.index = ix] \in NodeType
BY DEF NodeType, Labels

\* What AddNode leaves alone and what it sets.
LEMMA AddView ==
    ASSUME NEW a, Shaped(a), NEW p \in DOMAIN a, NEW seg \in Labels, NEW text \in BOOLEAN
    PROVE  LET b     == AddNode(a, p, seg, text)
               n     == Len(a) + 1
               a1    == Append(a, NewNode(seg, text))
               ch    == a[p].children
               fresh == Len(ch) = Threshold - 1 /\ ~a[p].indexed
           IN  /\ a1 \in Seq(NodeType) /\ Len(b) = n /\ DOMAIN b = 1 .. n
               /\ \A q \in 1 .. n : Key(a1, q) = Key(b, q)
               /\ \A q \in DOMAIN a : Key(a, q) = Key(b, q) /\ (q # p => b[q] = a[q])
               /\ b[n] = NewNode(seg, text) /\ Key(b, n) = seg
               /\ b[p].children = Append(ch, n)
               /\ b[p].name = a[p].name /\ b[p].attrs = a[p].attrs /\ b[p].text = a[p].text
               /\ b[p].indexed = (fresh \/ a[p].indexed)
               /\ b[p].index = IF fresh \/ a[p].indexed
                                 THEN OrInsert(IF fresh THEN FirstIndex(a1, ch) ELSE a[p].index,
                                               seg, Len(ch) + 1)
                                 ELSE a[p].index
               /\ b[p].index \in SUBSET [key : Labels, at : Nat \ {0}] => b[p] \in NodeType
<1> DEFINE b     == AddNode(a, p, seg, text)
           new   == NewNode(seg, text)
           n     == Len(a) + 1
           a1    == Append(a, new)
           ch    == a[p].children
           fresh == Len(ch) = Threshold - 1 /\ ~a[p].indexed
           on    == fresh \/ a[p].indexed
           ix    == IF on THEN OrInsert(IF fresh THEN FirstIndex(a1, ch) ELSE a[p].index,
                                        seg, Len(ch) + 1)
                          ELSE a[p].index
           node  == [a[p] EXCEPT !.children = Append(ch, n), !.indexed = on, !.index = ix]
<1>1. new \in NodeType
  BY DEF NewNode, NodeType, Labels
<1>2. /\ Len(a) \in Nat /\ DOMAIN a = 1 .. Len(a) /\ a \in Seq(NodeType)
      /\ a[p] \in NodeType
  BY NodeParts DEF Shaped
<1> HIDE DEF new
<1>3. /\ a1 \in Seq(NodeType) /\ Len(a1) = n /\ DOMAIN a1 = 1 .. n
      /\ \A q \in DOMAIN a : a1[q] = a[q]
      /\ a1[n] = new
  BY <1>1, <1>2
<1>4. Key(a1, n) = seg
  BY <1>3 DEF Key, new, NewNode, Labels
<1>5. b = [a1 EXCEPT ![p] = node]
  <2>1. n = Len(a) + 1 /\ a1[p] = a[p]
    BY <1>3
  <2> QED BY <2>1, <1>4 DEF AddNode, PushChild, new
<1> HIDE DEF a1, ix, on, fresh, b
<1>6. /\ node.children = Append(ch, n) /\ node.indexed = on /\ node.index = ix
      /\ node.name = a[p].name /\ node.attrs = a[p].attrs /\ node.text = a[p].text
  BY <1>2 DEF NodeType
<1> HIDE DEF node
<1>7. p \in 1 .. n /\ p # n /\ n \in 1 .. n
  BY <1>2
<1>8. /\ Len(b) = n /\ DOMAIN b = 1 .. n /\ b[p] = node
      /\ \A q \in 1 .. n : q # p => b[q] = a1[q]
  BY <1>3, <1>5, <1>7
<1>9. \A q \in 1 .. n : Key(a1, q) = Key(b, q)
  BY <1>3, <1>6, <1>8 DEF Key
<1>10. \A q \in DOMAIN a : q \in 1 .. n /\ Key(a, q) = Key(a1, q)
  BY <1>2, <1>3 DEF Key
<1>11. b[p].index \in SUBSET [key : Labels, at : Nat \ {0}] => b[p] \in NodeType
  <2>1. ch \in Seq(Nat \ {0}) /\ n \in Nat \ {0} /\ a[p].indexed \in BOOLEAN
    BY <1>2, NodeParts
  <2>2. Append(ch, n) \in Seq(Nat \ {0}) /\ on \in BOOLEAN
    BY <2>1 DEF on, fresh
  <2>3. ix \in SUBSET [key : Labels, at : Nat \ {0}] => node \in NodeType
    BY <2>2, <1>2, NodeUpdate, Zenon DEF node
  <2> QED BY <2>3, <1>6, <1>8
<1>12. \A q \in DOMAIN a : Key(a, q) = Key(b, q) /\ (q # p => b[q] = a[q])
  BY <1>3, <1>8, <1>9, <1>10
<1>13. b[n] = new /\ Key(b, n) = seg
  BY <1>3, <1>4, <1>7, <1>8, <1>9
<1>14. b[p].indexed = on /\ b[p].index = ix /\ b[p].children = Append(ch, n)
  BY <1>6, <1>8
<1>15. b[p].name = a[p].name /\ b[p].attrs = a[p].attrs /\ b[p].text = a[p].text
  BY <1>6, <1>8
<1> QED BY <1>3, <1>8, <1>9, <1>11, <1>12, <1>13, <1>14, <1>15 DEF b, new, a1, ix, on, fresh

\* An entry stays sound when children are pushed and labels stay.
LEMMA SoundAppend ==
    ASSUME NEW a, NEW b, NEW ch \in Seq(Nat \ {0}), NEW c, NEW e, EntrySound(a, ch, e),
           \A i \in DOMAIN ch : Key(a, ch[i]) = Key(b, ch[i])
    PROVE  EntrySound(b, ch, e) /\ EntrySound(b, Append(ch, c), e)
<1>1. e.at \in DOMAIN ch /\ Key(a, ch[e.at]) = Key(b, ch[e.at])
  BY DEF EntrySound
<1>2. a[ch[e.at]].name = b[ch[e.at]].name /\ a[ch[e.at]].attrs = b[ch[e.at]].attrs
  BY <1>1 DEF Key
<1>3. e.at \in DOMAIN Append(ch, c) /\ Append(ch, c)[e.at] = ch[e.at]
  BY <1>1
<1> QED BY <1>1, <1>2, <1>3 DEF EntrySound

\* AddNode keeps the tree.
LEMMA AddTree ==
    ASSUME NEW a, Tree(a), Sound(a), NEW p \in DOMAIN a, NEW seg \in Labels, NEW text \in BOOLEAN
    PROVE  LET b == AddNode(a, p, seg, text) IN
           /\ Tree(b) /\ Sound(b)
           /\ Len(b) = Len(a) + 1 /\ Len(b) \in DOMAIN b
           /\ b[Len(b)] = NewNode(seg, text)
           /\ \A q \in DOMAIN a : \A i \in DOMAIN a[q].children :
                 \E j \in DOMAIN b[q].children : b[q].children[j] = a[q].children[i]
           /\ \E j \in DOMAIN b[p].children : b[p].children[j] = Len(b)
<1> DEFINE b == AddNode(a, p, seg, text)
           n == Len(a) + 1
           ch == a[p].children
           new == NewNode(seg, text)
           a1 == Append(a, new)
           fresh == Len(ch) = Threshold - 1 /\ ~a[p].indexed
           on == fresh \/ a[p].indexed
           base == IF fresh THEN FirstIndex(a1, ch) ELSE a[p].index
<1>1. /\ a1 \in Seq(NodeType) /\ Len(b) = n /\ DOMAIN b = 1 .. n
      /\ \A q \in 1 .. n : Key(a1, q) = Key(b, q)
      /\ \A q \in DOMAIN a : Key(a, q) = Key(b, q) /\ (q # p => b[q] = a[q])
      /\ b[n] = new /\ Key(b, n) = seg
      /\ b[p].children = Append(ch, n)
      /\ b[p].index = IF on THEN OrInsert(base, seg, Len(ch) + 1) ELSE a[p].index
      /\ b[p].indexed = on
      /\ b[p].index \in SUBSET [key : Labels, at : Nat \ {0}] => b[p] \in NodeType
  BY AddView DEF Tree
<1>2. Len(a) \in Nat /\ DOMAIN a = 1 .. Len(a) /\ p \in 1 .. n /\ n \in Nat \ {0} /\ a # <<>>
  BY NodeParts DEF Tree, Shaped
<1>3. /\ ch \in Seq(Nat \ {0}) /\ Len(ch) \in Nat /\ DOMAIN ch = 1 .. Len(ch)
      /\ a[p] \in NodeType /\ a[p].indexed \in BOOLEAN
      /\ a[p].index \in SUBSET [key : Labels, at : Nat \ {0}]
  BY NodeParts DEF Tree
<1>4. new \in NodeType /\ new.children = <<>> /\ new.indexed = FALSE /\ new.index = {}
  BY DEF NewNode, NodeType, Labels
<1> HIDE DEF b, new, ch, a1
<1>5. \A i \in DOMAIN ch : ch[i] \in DOMAIN a /\ p < ch[i] /\ ch[i] <= Len(a)
  BY <1>2, <1>3 DEF Tree, Down, ch
<1>6. /\ DOMAIN Append(ch, n) = 1 .. Len(ch) + 1
      /\ \A i \in 1 .. Len(ch) : Append(ch, n)[i] = ch[i]
      /\ Append(ch, n)[Len(ch) + 1] = n
      /\ Append(ch, n) \in Seq(Nat \ {0})
  BY <1>2, <1>3
<1>7. \A i \in DOMAIN ch : Key(a, ch[i]) = Key(b, ch[i]) /\ Key(a, ch[i]) = Key(a1, ch[i])
  BY <1>1, <1>2, <1>5
<1>8. /\ base \in SUBSET [key : Labels, at : Nat \ {0}]
      /\ \A e \in base : EntrySound(b, Append(ch, n), e)
  <2>1. CASE fresh
    <3>1. Shaped(a) /\ FirstIndex(a1, ch) = FirstIndex(a, ch)
      BY <1>3, <1>7, FirstIndexSame DEF Tree
    <3>2. /\ FirstIndex(a, ch) \in SUBSET [key : Labels, at : Nat \ {0}]
          /\ \A e \in FirstIndex(a, ch) : EntrySound(a, ch, e)
      BY <3>1, <1>3, <1>5, FirstIndexSound
    <3>3. base = FirstIndex(a, ch)
      BY <2>1, <3>1
    <3> QED BY <3>2, <3>3, <1>3, <1>7, SoundAppend
  <2>2. CASE ~fresh
    <3>1. base = a[p].index
      BY <2>2
    <3>2. \A e \in a[p].index : EntrySound(a, ch, e)
      BY DEF Sound, ch
    <3> QED BY <3>1, <3>2, <1>3, <1>7, SoundAppend
  <2> QED BY <2>1, <2>2
<1> HIDE DEF base, fresh, on
<1>9. on \in BOOLEAN
  BY <1>3 DEF on, fresh
<1>10. LET e == [key |-> seg, at |-> Len(ch) + 1]
       IN  e \in [key : Labels, at : Nat \ {0}] /\ EntrySound(b, Append(ch, n), e)
  <2>1. b[n].name = seg.tag /\ b[n].attrs = seg.attribs /\ Len(seg.attribs) \in Nat
    BY <1>1 DEF new, NewNode, Labels
  <2>2. IsPrefixOf(seg.attribs, b[n].attrs)
    BY <2>1 DEF IsPrefixOf
  <2> QED BY <2>1, <2>2, <1>3, <1>6 DEF EntrySound
<1>11. /\ b[p].index \in SUBSET [key : Labels, at : Nat \ {0}]
       /\ \A e \in b[p].index : EntrySound(b, Append(ch, n), e)
  <2>1. \A e \in a[p].index : EntrySound(b, Append(ch, n), e)
    <3>1. \A e \in a[p].index : EntrySound(a, ch, e)
      BY DEF Sound, ch
    <3> QED BY <3>1, <1>3, <1>7, SoundAppend
  <2>2. b[p].index \in {a[p].index, base, base \cup {[key |-> seg, at |-> Len(ch) + 1]}}
    BY <1>1 DEF OrInsert
  <2> QED BY <2>1, <2>2, <1>3, <1>8, <1>10
<1>12. b[p] \in NodeType
  BY <1>1, <1>11
<1>13. \A q \in 1 .. n : q = n \/ q = p \/ (q \in DOMAIN a /\ q # p /\ b[q] = a[q])
  BY <1>1, <1>2
<1>14. Shaped(b)
  <2>1. \A q \in 1 .. n : b[q] \in NodeType
    BY <1>1, <1>4, <1>12, <1>13, NodeParts DEF Tree
  <2>2. b \in Seq(NodeType)
    <3>1. b = [q \in 1 .. n |-> b[q]]
      BY <1>1, <1>2 DEF b, AddNode, PushChild, a1, new
    <3> QED BY <3>1, <2>1, <1>2
  <2> QED BY <2>2, <1>1, <1>2 DEF Shaped
<1>15. Down(b)
  <2> SUFFICES ASSUME NEW q \in 1 .. n, NEW i \in DOMAIN b[q].children
               PROVE  q < b[q].children[i] /\ b[q].children[i] <= n
    BY <1>1 DEF Down
  <2>1. CASE q = n
    BY <2>1, <1>1, <1>4
  <2>2. CASE q = p
    BY <2>2, <1>1, <1>2, <1>3, <1>5, <1>6
  <2>3. CASE q \in DOMAIN a /\ q # p /\ b[q] = a[q]
    <3>1. q < a[q].children[i] /\ a[q].children[i] <= Len(a) /\ a[q].children[i] \in Nat
      BY <2>3, NodeParts DEF Tree, Down
    <3> QED BY <3>1, <2>3, <1>2
  <2> QED BY <1>13, <2>1, <2>2, <2>3
<1>16. Rising(b)
  <2> SUFFICES ASSUME NEW q \in 1 .. n PROVE Ascends(b[q].children)
    BY <1>1 DEF Rising
  <2>1. CASE q = n
    BY <2>1, <1>1, <1>4 DEF Ascends
  <2>2. CASE q = p
    <3>1. Ascends(ch)
      BY DEF Tree, Rising, ch
    <3>2. \A i \in DOMAIN ch : ch[i] < n
      BY <1>2, <1>3, <1>5
    <3> QED BY <2>2, <3>1, <3>2, <1>1, <1>3, <1>6 DEF Ascends
  <2>3. CASE q \in DOMAIN a /\ q # p /\ b[q] = a[q]
    BY <2>3 DEF Tree, Rising
  <2> QED BY <1>13, <2>1, <2>2, <2>3
<1>17. \A q \in DOMAIN a : \A i \in DOMAIN b[q].children :
          \/ b[q].children[i] = n /\ q = p
          \/ i \in DOMAIN a[q].children /\ b[q].children[i] = a[q].children[i]
  <2> TAKE q \in DOMAIN a
  <2> TAKE i \in DOMAIN b[q].children
  <2>1. CASE q = p
    <3>1. i \in 1 .. Len(ch) \/ i = Len(ch) + 1
      BY <2>1, <1>1, <1>3, <1>6
    <3>2. i \in 1 .. Len(ch) => i \in DOMAIN ch /\ b[q].children[i] = ch[i]
      BY <2>1, <1>1, <1>3, <1>6
    <3>3. i = Len(ch) + 1 => b[q].children[i] = n
      BY <2>1, <1>1, <1>6
    <3> QED BY <2>1, <3>1, <3>2, <3>3 DEF ch
  <2>2. CASE q # p
    BY <2>2, <1>1
  <2> QED BY <2>1, <2>2
<1>18. \A q \in DOMAIN a : \A i \in DOMAIN a[q].children : a[q].children[i] # n
  <2>1. \A q \in DOMAIN a : \A i \in DOMAIN a[q].children :
          a[q].children[i] \in Nat /\ a[q].children[i] <= Len(a)
    BY NodeParts DEF Tree, Down
  <2> QED BY <2>1, <1>2
<1>19. OneParent(b)
  <2> SUFFICES ASSUME NEW q \in 1 .. n, NEW r \in 1 .. n,
                      NEW i \in DOMAIN b[q].children, NEW j \in DOMAIN b[r].children,
                      b[q].children[i] = b[r].children[j]
               PROVE  q = r
    BY <1>1 DEF OneParent
  <2>1. q \in DOMAIN a /\ r \in DOMAIN a
    <3>1. b[n].children = <<>>
      BY <1>1, <1>4
    <3> QED BY <3>1, <1>2
  <2> QED BY <2>1, <1>17, <1>18 DEF Tree, OneParent
<1>20. Sound(b)
  <2> SUFFICES ASSUME NEW q \in 1 .. n, NEW e \in b[q].index
               PROVE  EntrySound(b, b[q].children, e)
    BY <1>1 DEF Sound
  <2>1. CASE q = n
    BY <2>1, <1>1, <1>4
  <2>2. CASE q = p
    BY <2>2, <1>1, <1>11
  <2>3. CASE q \in DOMAIN a /\ q # p /\ b[q] = a[q]
    <3>1. EntrySound(a, a[q].children, e) /\ a[q].children \in Seq(Nat \ {0})
      BY <2>3, NodeParts DEF Sound, Tree
    <3>2. \A i \in DOMAIN a[q].children : a[q].children[i] \in DOMAIN a
      BY <2>3, <1>2, NodeParts DEF Tree, Down
    <3>3. \A i \in DOMAIN a[q].children : Key(a, a[q].children[i]) = Key(b, a[q].children[i])
      BY <3>2, <1>1
    <3> QED BY <3>1, <3>3, <2>3, SoundAppend
  <2> QED BY <1>13, <2>1, <2>2, <2>3
<1>21. \A q \in DOMAIN a : \A i \in DOMAIN a[q].children :
         i \in DOMAIN b[q].children /\ b[q].children[i] = a[q].children[i]
  <2> TAKE q \in DOMAIN a
  <2> TAKE i \in DOMAIN a[q].children
  <2>1. CASE q = p
    <3>1. i \in DOMAIN ch
      BY <2>1 DEF ch
    <3>2. i \in DOMAIN b[p].children /\ b[p].children[i] = ch[i]
      BY <3>1, <1>1, <1>3, <1>6
    <3> QED BY <2>1, <3>2 DEF ch
  <2>2. CASE q # p
    BY <2>2, <1>1
  <2> QED BY <2>1, <2>2
<1>22. Len(ch) + 1 \in DOMAIN b[p].children /\ b[p].children[Len(ch) + 1] = n
  BY <1>1, <1>3, <1>6
<1>23. Len(b) \in DOMAIN b /\ b[Len(b)] = NewNode(seg, text)
  BY <1>1, <1>2 DEF new
<1> QED BY <1>1, <1>14, <1>15, <1>16, <1>19, <1>20, <1>21, <1>22, <1>23 DEF Tree, b

\* AddNode keeps the index where it belongs, and exact.
LEMMA AddIndexed ==
    ASSUME NEW a, Tree(a), NEW T, Indexed(a, T), NEW p \in DOMAIN a, NEW seg \in Labels,
           NEW text \in BOOLEAN
    PROVE  Indexed(AddNode(a, p, seg, text), T)
<1> DEFINE b == AddNode(a, p, seg, text)
           n == Len(a) + 1
           ch == a[p].children
           a1 == Append(a, NewNode(seg, text))
           fresh == Len(ch) = Threshold - 1 /\ ~a[p].indexed
           on == fresh \/ a[p].indexed
           base == IF fresh THEN FirstIndex(a1, ch) ELSE a[p].index
<1>1. /\ DOMAIN b = 1 .. n
      /\ \A q \in 1 .. n : Key(a1, q) = Key(b, q)
      /\ \A q \in DOMAIN a : Key(a, q) = Key(b, q) /\ (q # p => b[q] = a[q])
      /\ b[n] = NewNode(seg, text) /\ Key(b, n) = seg
      /\ b[p].children = Append(ch, n)
      /\ b[p].index = IF on THEN OrInsert(base, seg, Len(ch) + 1) ELSE a[p].index
      /\ b[p].indexed = on
  BY AddView DEF Tree
<1>2. Len(a) \in Nat /\ DOMAIN a = 1 .. Len(a) /\ p \in 1 .. n /\ n \in Nat \ {0}
  BY NodeParts DEF Tree, Shaped
<1>3. /\ ch \in Seq(Nat \ {0}) /\ Len(ch) \in Nat /\ DOMAIN ch = 1 .. Len(ch)
      /\ a[p].indexed \in BOOLEAN
  BY NodeParts DEF Tree
<1>4. b[n].children = <<>> /\ b[n].indexed = FALSE
  BY <1>1 DEF NewNode
<1>5. \A q \in DOMAIN a : \A i \in DOMAIN a[q].children : a[q].children[i] \in DOMAIN a
  BY <1>2, NodeParts DEF Tree, Down
<1>6. \A q \in 1 .. n : q = n \/ q = p \/ (q \in DOMAIN a /\ q # p /\ b[q] = a[q])
  BY <1>1, <1>2
<1> HIDE DEF b, a1, base, ch
<1>7. Wide(b)
  <2> SUFFICES ASSUME NEW q \in 1 .. n
               PROVE  b[q].indexed <=> Len(b[q].children) >= Threshold
    BY <1>1 DEF Wide
  <2>1. CASE q = n
    BY <2>1, <1>4, ThresholdAssumption
  <2>2. CASE q = p
    <3>1. a[p].indexed <=> Len(ch) >= Threshold
      BY DEF Indexed, Wide, ch
    <3>2. Len(b[p].children) = Len(ch) + 1
      BY <1>1, <1>3
    <3>3. (fresh \/ Len(ch) >= Threshold) <=> Len(ch) + 1 >= Threshold
      BY <3>1, <1>3, ThresholdAssumption
    <3>4. on <=> Len(ch) + 1 >= Threshold
      BY <3>1, <3>3, Zenon
    <3> HIDE DEF on
    <3> QED BY <2>2, <3>2, <3>4, <1>1
  <2>3. CASE q \in DOMAIN a /\ q # p /\ b[q] = a[q]
    BY <2>3 DEF Indexed, Wide
  <2> QED BY <1>6, <2>1, <2>2, <2>3
<1>8. Sound(b)
  BY AddTree DEF Indexed, b
<1>9. ASSUME NEW q \in DOMAIN a
      PROVE  /\ FirstIndex(a, a[q].children) = FirstIndex(b, a[q].children)
             /\ FirstIndex(a1, a[q].children) = FirstIndex(b, a[q].children)
  <2> DEFINE c == a[q].children
  <2>1. \A i \in DOMAIN c : c[i] \in DOMAIN a /\ c[i] \in 1 .. n
    BY <1>2, <1>5
  <2>2. \A i \in DOMAIN c : \A h \in 1 .. i - 1 : h \in DOMAIN c
    BY NodeParts DEF Tree
  <2> HIDE DEF c
  <2>3. \A i \in DOMAIN c : Key(a, c[i]) = Key(b, c[i]) /\ Key(a1, c[i]) = Key(b, c[i])
    BY <2>1, <1>1
  <2>4. FirstIndex(a, c) = FirstIndex(b, c) /\ FirstIndex(a1, c) = FirstIndex(b, c)
    BY <2>2, <2>3, FirstIndexSame
  <2> QED BY <2>4 DEF c
<1>10. Exact(b, T)
  <2> SUFFICES ASSUME NEW q \in 1 .. n, b[q].indexed,
                      \A i \in DOMAIN b[q].children : b[q].children[i] \notin T
               PROVE  b[q].index = FirstIndex(b, b[q].children)
    BY <1>1 DEF Exact
  <2>1. CASE q = n
    BY <2>1, <1>4
  <2>2. CASE q = p
    <3>1. \A i \in DOMAIN ch : ch[i] \notin T
      <4> TAKE i \in DOMAIN ch
      <4>1. i \in DOMAIN b[q].children /\ b[q].children[i] = ch[i]
        BY <2>2, <1>1, <1>2, <1>3
      <4> QED BY <4>1
    <3>2. base = FirstIndex(b, ch)
      <4>1. CASE fresh
        BY <4>1, <1>9 DEF base, ch
      <4>2. CASE ~fresh
        <5>1. a[p].indexed
          BY <4>2, <2>2, <1>1
        <5>2. a[p].index = FirstIndex(a, ch)
          BY <3>1, <5>1 DEF Indexed, Exact, ch
        <5> QED BY <4>2, <5>2, <1>9 DEF base, ch
      <4> QED BY <4>1, <4>2
    <3>3. b[p].index = OrInsert(FirstIndex(b, ch), Key(b, n), Len(ch) + 1)
      BY <2>2, <3>2, <1>1
    <3>4. b[p].index = FirstIndex(b, Append(ch, n))
      BY <3>3, <1>2, <1>3, FirstIndexAppend
    <3> QED BY <2>2, <3>4, <1>1
  <2>3. CASE q \in DOMAIN a /\ q # p /\ b[q] = a[q]
    BY <2>3, <1>9 DEF Indexed, Exact
  <2> QED BY <1>6, <2>1, <2>2, <2>3
<1> QED BY <1>7, <1>8, <1>10 DEF Indexed, b

\* Dropping children of p and rebuilding its index keeps the arena good.
LEMMA RebuildGood ==
    ASSUME NEW a, Tree(a), NEW T, Indexed(a, T), NEW p \in DOMAIN a,
           NEW ch \in Seq(Nat \ {0}), Ascends(ch),
           \A i \in DOMAIN ch : \E j \in DOMAIN a[p].children : ch[i] = a[p].children[j]
    PROVE  LET b == Rebuilt(a, p, ch) IN
           Tree(b) /\ Indexed(b, T) /\ Len(b) = Len(a) /\ \A q \in DOMAIN a : q # p => b[q] = a[q]
<1> DEFINE b == Rebuilt(a, p, ch)
           on == Len(ch) >= Threshold
           ix == IF on THEN FirstIndex(a, ch) ELSE {}
           node == [a[p] EXCEPT !.children = ch, !.indexed = on, !.index = ix]
<1>1. /\ Len(a) \in Nat /\ DOMAIN a = 1 .. Len(a) /\ a \in Seq(NodeType) /\ a # <<>>
      /\ a[p] \in NodeType
      /\ Len(ch) \in Nat /\ DOMAIN ch = 1 .. Len(ch)
  BY NodeParts DEF Tree, Shaped
<1>2. \A q \in DOMAIN a : /\ a[q].children \in Seq(Nat \ {0})
                          /\ \A i \in DOMAIN a[q].children :
                               a[q].children[i] \in DOMAIN a /\ q < a[q].children[i]
  BY <1>1, NodeParts DEF Tree, Down
<1>3. \A i \in DOMAIN ch : ch[i] \in DOMAIN a /\ p < ch[i] /\ ch[i] <= Len(a)
  BY <1>1, <1>2
<1>4. FirstIndex(a, ch) \in SUBSET [key : Labels, at : Nat \ {0}]
  BY <1>3, FirstIndexSound DEF Tree
<1>5. b = [a EXCEPT ![p] = node]
  BY DEF Rebuilt
<1>6. node \in NodeType
  <2>1. on \in BOOLEAN /\ ix \in SUBSET [key : Labels, at : Nat \ {0}]
    BY <1>4
  <2> HIDE DEF on, ix
  <2> QED BY <2>1, <1>1, NodeUpdate, Zenon
<1>7. node.children = ch /\ node.indexed = on /\ node.index = ix /\ node.name = a[p].name /\ node.attrs = a[p].attrs
  <2> HIDE DEF on, ix
  <2> QED BY <1>1 DEF NodeType
<1> HIDE DEF node, b, ix
<1>8. /\ b \in Seq(NodeType) /\ b # <<>> /\ Len(b) = Len(a) /\ DOMAIN b = DOMAIN a
      /\ b[p] = node
      /\ \A q \in DOMAIN a : q # p => b[q] = a[q]
  BY <1>1, <1>5, <1>6
<1>9. \A q \in DOMAIN a : Key(a, q) = Key(b, q)
  BY <1>7, <1>8 DEF Key
<1>10. \A q \in DOMAIN a : \A i \in DOMAIN b[q].children :
          \E j \in DOMAIN a[q].children : b[q].children[i] = a[q].children[j]
  BY <1>7, <1>8
<1>11. Shaped(b) /\ Down(b)
  <2>1. \A q \in DOMAIN a : \A j \in DOMAIN a[q].children :
           q < a[q].children[j] /\ a[q].children[j] <= Len(a)
    BY DEF Tree, Down
  <2> QED BY <2>1, <1>8, <1>10 DEF Shaped, Down
<1>12. Rising(b)
  BY <1>7, <1>8 DEF Tree, Rising
<1>13. OneParent(b)
  <2> SUFFICES ASSUME NEW q \in DOMAIN a, NEW r \in DOMAIN a,
                      NEW i \in DOMAIN b[q].children, NEW j \in DOMAIN b[r].children,
                      b[q].children[i] = b[r].children[j]
               PROVE  q = r
    BY <1>8 DEF OneParent
  <2>1. PICK k \in DOMAIN a[q].children : b[q].children[i] = a[q].children[k]
    BY <1>10
  <2>2. PICK l \in DOMAIN a[r].children : b[r].children[j] = a[r].children[l]
    BY <1>10
  <2>3. a[q].children[k] = a[r].children[l]
    BY <2>1, <2>2
  <2> QED BY <2>3, Zenon DEF Tree, OneParent
<1>14. Wide(b)
  BY <1>7, <1>8 DEF Indexed, Wide
<1>15. Sound(b)
  <2> SUFFICES ASSUME NEW q \in DOMAIN a, NEW e \in b[q].index
               PROVE  EntrySound(b, b[q].children, e)
    BY <1>8 DEF Sound
  <2>1. CASE q = p
    <3>1. e \in FirstIndex(a, ch)
      BY <2>1, <1>7, <1>8 DEF ix
    <3>2. EntrySound(a, ch, e)
      BY <3>1, <1>3, FirstIndexSound DEF Tree
    <3>3. \A i \in DOMAIN ch : Key(a, ch[i]) = Key(b, ch[i])
      BY <1>3, <1>9
    <3> QED BY <2>1, <3>2, <3>3, <1>7, <1>8, SoundAppend
  <2>2. CASE q # p
    <3>1. b[q] = a[q] /\ EntrySound(a, a[q].children, e)
      BY <2>2, <1>8 DEF Indexed, Sound
    <3>2. \A i \in DOMAIN a[q].children : Key(a, a[q].children[i]) = Key(b, a[q].children[i])
      BY <1>2, <1>9
    <3> QED BY <3>1, <3>2, <1>2, SoundAppend
  <2> QED BY <2>1, <2>2
<1>16. Exact(b, T)
  <2> SUFFICES ASSUME NEW q \in DOMAIN a, b[q].indexed,
                      \A i \in DOMAIN b[q].children : b[q].children[i] \notin T
               PROVE  b[q].index = FirstIndex(b, b[q].children)
    BY <1>8 DEF Exact
  <2> DEFINE c == b[q].children
  <2>1. \A i \in DOMAIN c : c[i] \in DOMAIN a
    BY <1>2, <1>10
  <2>2. \A i \in DOMAIN c : \A h \in 1 .. i - 1 : h \in DOMAIN c
    BY <1>8, <1>11, NodeParts
  <2>3. \A i \in DOMAIN c : Key(a, c[i]) = Key(b, c[i])
    BY <2>1, <1>9
  <2>4. FirstIndex(a, c) = FirstIndex(b, c)
    <3> HIDE DEF c
    <3> QED BY <2>2, <2>3, FirstIndexSame
  <2>5. CASE q = p
    BY <2>4, <2>5, <1>7, <1>8 DEF ix
  <2>6. CASE q # p
    BY <2>4, <2>6, <1>8 DEF Indexed, Exact
  <2> QED BY <2>5, <2>6
<1> QED BY <1>8, <1>11, <1>12, <1>13, <1>14, <1>15, <1>16 DEF Tree, Indexed, b

\* The prefix relation is transitive.
LEMMA PrefixTransitive ==
    ASSUME NEW r, NEW s, NEW t, Len(r) \in Nat, Len(s) \in Nat, Len(t) \in Nat,
           IsPrefixOf(r, s), IsPrefixOf(s, t)
    PROVE  IsPrefixOf(r, t)
<1>1. Len(r) <= Len(s) /\ Len(s) <= Len(t)
  BY DEF IsPrefixOf
<1>2. ASSUME NEW i \in 1 .. Len(r) PROVE r[i] = t[i]
  <2>1. i \in 1 .. Len(s)
    BY <1>1
  <2>2. r[i] = s[i]
    BY DEF IsPrefixOf
  <2>3. s[i] = t[i]
    BY <2>1 DEF IsPrefixOf
  <2> QED BY <2>2, <2>3
<1> QED BY <1>1, <1>2 DEF IsPrefixOf

\* b is a with other labels: names change at the root only, attributes grow,
\* and a node of which they grew is in T.
Relabelled(a, b, T) ==
    /\ Len(b) = Len(a)
    /\ \A q \in DOMAIN a :
         /\ b[q].children = a[q].children /\ b[q].indexed = a[q].indexed /\ b[q].index = a[q].index
         /\ q # Root => b[q].name = a[q].name
         /\ IsPrefixOf(a[q].attrs, b[q].attrs)
         /\ b[q].attrs = a[q].attrs \/ q \in T

\* New labels keep the arena good.
LEMMA RelabelGood ==
    ASSUME NEW a, NEW b, NEW T, NEW U, Tree(a), Indexed(a, T), Shaped(b),
           Relabelled(a, b, U), T \subseteq U
    PROVE  Tree(b) /\ Indexed(b, U)
<1>1. DOMAIN b = DOMAIN a /\ Len(b) = Len(a)
  BY NodeParts DEF Tree, Relabelled
<1>2. \A q \in DOMAIN a : /\ b[q].children = a[q].children /\ b[q].indexed = a[q].indexed
                          /\ b[q].index = a[q].index
  BY DEF Relabelled
<1>3. Down(b) /\ Rising(b) /\ OneParent(b) /\ Wide(b)
  BY <1>1, <1>2 DEF Tree, Indexed, Down, Rising, OneParent, Wide
<1>4. \A q \in DOMAIN a : \A i \in DOMAIN a[q].children :
        a[q].children[i] \in DOMAIN a /\ a[q].children[i] # Root
  BY NodeParts DEF Tree, Down, Root
<1>5. Sound(b)
  <2> SUFFICES ASSUME NEW q \in DOMAIN a, NEW e \in a[q].index
               PROVE  EntrySound(b, a[q].children, e)
    BY <1>1, <1>2 DEF Sound
  <2> DEFINE c == a[q].children[e.at]
  <2>1. EntrySound(a, a[q].children, e)
    BY DEF Indexed, Sound
  <2>2. c \in DOMAIN a /\ c # Root
    BY <2>1, <1>4 DEF EntrySound
  <2>3. b[c].name = a[c].name /\ IsPrefixOf(a[c].attrs, b[c].attrs)
    BY <2>2 DEF Relabelled
  <2>4. e.key \in Labels
    <3>1. a[q].index \in SUBSET [key : Labels, at : Nat \ {0}]
      BY NodeParts DEF Tree
    <3> QED BY <3>1
  <2> HIDE DEF c
  <2>5. /\ Len(e.key.attribs) \in Nat /\ Len(a[c].attrs) \in Nat /\ Len(b[c].attrs) \in Nat
    <3>1. a[c].attrs \in Seq(Attr) /\ b[c].attrs \in Seq(Attr)
      BY <2>2, <1>1, NodeParts DEF Tree
    <3>2. e.key.attribs \in Seq(Attr)
      BY <2>4 DEF Labels
    <3> QED BY <3>1, <3>2, LenProperties
  <2>6. IsPrefixOf(e.key.attribs, a[c].attrs)
    BY <2>1 DEF EntrySound, c
  <2>7. IsPrefixOf(e.key.attribs, b[c].attrs)
    BY <2>3, <2>5, <2>6, PrefixTransitive
  <2> QED BY <2>1, <2>3, <2>7 DEF EntrySound, c
<1>6. Exact(b, U)
  <2> SUFFICES ASSUME NEW q \in DOMAIN a, a[q].indexed,
                      \A i \in DOMAIN a[q].children : a[q].children[i] \notin U
               PROVE  a[q].index = FirstIndex(b, a[q].children)
    BY <1>1, <1>2 DEF Exact
  <2>1. a[q].index = FirstIndex(a, a[q].children)
    BY DEF Indexed, Exact
  <2>2. \A i \in DOMAIN a[q].children : Key(a, a[q].children[i]) = Key(b, a[q].children[i])
    BY <1>4 DEF Relabelled, Key
  <2>3. \A i \in DOMAIN a[q].children : \A h \in 1 .. i - 1 : h \in DOMAIN a[q].children
    BY NodeParts DEF Tree
  <2> QED BY <2>1, <2>2, <2>3, FirstIndexSame
<1> QED BY <1>3, <1>5, <1>6 DEF Tree, Indexed

-----------------------------------------------------------------------------
(* One lemma per action                                                    *)

\* Every open scope is a node above the cursor.
LEMMA Scopes ==
    ASSUME TypeOK, Tree(arena), ScopesNested
    PROVE  /\ Len(stack) \in Nat \ {0} /\ DOMAIN stack = 1 .. Len(stack)
           /\ Cursor \in DOMAIN arena
           /\ \A i \in DOMAIN stack :
                 stack[i] \in DOMAIN arena /\ Under(arena, stack[i], Cursor) /\ stack[i] <= Cursor
<1>1. stack \in Seq(Ids) /\ stack # <<>> /\ DOMAIN arena = Ids
  BY NodeParts DEF TypeOK, Tree, Ids
<1>2. Len(stack) \in Nat \ {0} /\ DOMAIN stack = 1 .. Len(stack)
  BY <1>1
<1>3. \A i \in DOMAIN stack : stack[i] \in DOMAIN arena /\ Under(arena, stack[i], Cursor)
  <2> TAKE i \in DOMAIN stack
  <2>1. stack[i] \in Ids
    BY <1>1
  <2>2. Len(stack) \in DOMAIN stack /\ i <= Len(stack)
    BY <1>2
  <2> QED BY <1>1, <2>1, <2>2 DEF ScopesNested, Cursor
<1>4. Cursor \in DOMAIN arena
  BY <1>2, <1>3 DEF Cursor
<1> QED BY <1>2, <1>3, <1>4, UnderYounger

\* Every open scope is above the node the running operation stands on.
LEMMA Position ==
    ASSUME IInv, Running
    PROVE  /\ op.cur \in DOMAIN arena /\ Under(arena, Cursor, op.cur)
           /\ \A i \in DOMAIN stack : stack[i] <= op.cur
<1>1. Under(arena, Cursor, op.cur) /\ TypeOK /\ Tree(arena) /\ ScopesNested
  BY DEF IInv, Inside, OpenScopesAttached
<1>2. \A i \in DOMAIN stack : stack[i] \in DOMAIN arena /\ Under(arena, stack[i], op.cur)
  BY <1>1, Scopes, UnderTransitive
<1> QED BY <1>1, <1>2, Scopes, UnderYounger

\* The parts of the running operation.
LEMMA Operation ==
    ASSUME TypeOK, Running
    PROVE  /\ op.kind \in Kinds /\ op.val \in BOOLEAN /\ op.attr \in Seq(Attr)
           /\ op.segs \in Seq(Segment) \ {<<>>} /\ op.cur \in Ids
           /\ Seg \in Labels
           /\ ~IsLeaf => Tail(op.segs) \in Seq(Segment) \ {<<>>}
<1>1. /\ op.kind \in Kinds /\ op.val \in BOOLEAN /\ op.attr \in Seq(Attr)
      /\ op.segs \in Seq(Segment) \ {<<>>} /\ op.cur \in Ids
  BY DEF TypeOK, Running
<1>2. Seg \in Segment
  BY <1>1, HeadTailProperties DEF Seg
<1>3. Seg \in Labels
  BY <1>2, ListsAssumption DEF Segment, Labels
<1>4. ASSUME ~IsLeaf PROVE Tail(op.segs) \in Seq(Segment) \ {<<>>}
  <2>1. Tail(op.segs) \in Seq(Segment) /\ Len(Tail(op.segs)) = Len(op.segs) - 1
    BY <1>1, HeadTailProperties
  <2>2. Len(op.segs) \in Nat \ {0} /\ Len(op.segs) # 1
    BY <1>1, <1>4 DEF IsLeaf
  <2>3. Len(Tail(op.segs)) # 0
    BY <2>1, <2>2
  <2>4. Tail(op.segs) # <<>>
    BY <2>3, EmptySeq
  <2> QED BY <2>1, <2>4
<1> QED BY <1>1, <1>3, <1>4

\* Open scopes stay nested when the edges above them stay.
LEMMA NestedKept ==
    ASSUME TypeOK, Tree(arena), ScopesNested, NEW b, Shaped(b), Len(arena) <= Len(b), NEW k \in Nat,
           \A i \in DOMAIN stack : stack[i] <= k,
           \A p \in DOMAIN arena : \A i \in DOMAIN arena[p].children : arena[p].children[i] <= k =>
              \E j \in DOMAIN b[p].children : b[p].children[j] = arena[p].children[i]
    PROVE  \A i, j \in DOMAIN stack : i <= j => Under(b, stack[i], stack[j])
<1> TAKE i, j \in DOMAIN stack
<1> HAVE i <= j
<1>1. Under(arena, stack[i], stack[j])
  BY DEF ScopesNested
<1>2. stack[i] \in DOMAIN arena /\ stack[j] \in DOMAIN arena /\ stack[j] <= k
  BY Scopes
<1> QED BY <1>1, <1>2, UnderKept

\* So does the node the running operation stands on.
LEMMA PositionKept ==
    ASSUME IInv, Running, NEW b, Shaped(b), Len(arena) <= Len(b), NEW k \in Nat, op.cur <= k,
           \A p \in DOMAIN arena : \A i \in DOMAIN arena[p].children : arena[p].children[i] <= k =>
              \E j \in DOMAIN b[p].children : b[p].children[j] = arena[p].children[i]
    PROVE  Under(b, Cursor, op.cur)
<1>1. TypeOK /\ Tree(arena) /\ ScopesNested
  BY DEF IInv, OpenScopesAttached
<1>2. op.cur \in DOMAIN arena /\ Under(arena, Cursor, op.cur) /\ Cursor \in DOMAIN arena
  BY <1>1, Position, Scopes
<1> QED BY <1>1, <1>2, UnderKept

\* The end of an iteration, at a node under the cursor of a good arena.
LEMMA ArriveKeeps ==
    ASSUME IInv, Running, Tree(arena'), Indexed(arena', touched'), Len(arena) <= Len(arena'),
           touched' \subseteq DOMAIN arena',
           \A i, j \in DOMAIN stack : i <= j => Under(arena', stack[i], stack[j]),
           NEW n \in DOMAIN arena', Under(arena', Cursor, n), Arrive(n)
    PROVE  IInv'
<1> DEFINE I == 1 .. Len(arena')
<1>1. TypeOK /\ Tree(arena) /\ ScopesNested /\ stack[1] = Root
  BY DEF IInv, OpenScopesAttached
<1>2. Len(stack) \in Nat \ {0} /\ DOMAIN stack = 1 .. Len(stack)
  BY <1>1, Scopes
<1>3. DOMAIN arena' = I /\ Len(arena') \in Nat \ {0} /\ Shaped(arena')
  BY NodeParts DEF Tree
<1>4. Ids \subseteq I /\ stack \in Seq(I) /\ op.cur \in I /\ stack # <<>>
  <2>1. Ids \subseteq I
    BY <1>1, <1>3, NodeParts DEF Ids, Tree
  <2> QED BY <2>1, <1>1, SeqMonotonic DEF TypeOK
<1>5. \A i \in DOMAIN stack : Under(arena', stack[i], n)
  <2> TAKE i \in DOMAIN stack
  <2>1. Under(arena', stack[i], Cursor)
    BY <1>2 DEF Cursor
  <2> QED BY <2>1, UnderTransitive
<1>6. /\ stack' \in Seq(I) /\ stack' # <<>> /\ stack'[1] = Root
      /\ \A i, j \in DOMAIN stack' : i <= j => Under(arena', stack'[i], stack'[j])
  <2>1. CASE stack' = stack
    BY <2>1, <1>1, <1>4
  <2>2. CASE stack' = Append(stack, n)
    <3>1. /\ DOMAIN stack' = 1 .. Len(stack) + 1 /\ stack' \in Seq(I) /\ stack' # <<>>
          /\ \A i \in DOMAIN stack : stack'[i] = stack[i]
          /\ stack'[Len(stack) + 1] = n
      BY <2>2, <1>2, <1>3, <1>4
    <3>2. \A i \in DOMAIN stack' : i \in DOMAIN stack \/ i = Len(stack) + 1
      BY <3>1, <1>2
    <3>3. ASSUME NEW i \in DOMAIN stack', NEW j \in DOMAIN stack', i <= j
          PROVE  Under(arena', stack'[i], stack'[j])
      <4>1. CASE j \in DOMAIN stack
        <5>1. i \in DOMAIN stack
          BY <4>1, <3>2, <3>3, <1>2
        <5> QED BY <4>1, <5>1, <3>1, <3>3
      <4>2. CASE i \in DOMAIN stack /\ j = Len(stack) + 1
        BY <4>2, <3>1, <1>5
      <4>3. CASE i = Len(stack) + 1 /\ j = Len(stack) + 1
        BY <4>3, <3>1, UnderTransitive
      <4> QED BY <3>2, <4>1, <4>2, <4>3
    <3> QED BY <3>1, <3>3, <1>1, <1>2
  <2> QED BY <2>1, <2>2 DEF Arrive
<1>7. /\ op' \in [kind : Kinds \cup {"idle"}, segs : Seq(Segment), val : BOOLEAN,
                  attr : Seq(Attr), cur : I]
      /\ op'.kind # "idle" => op'.segs # <<>> /\ stack' = stack /\ op'.cur = n
  <2>1. CASE IsLeaf
    <3>1. op' = Idle
      BY <2>1 DEF Arrive
    <3> QED BY <3>1, <1>3 DEF Idle, Root
  <2>2. CASE ~IsLeaf
    <3>1. op' = [op EXCEPT !.segs = Tail(@), !.cur = n] /\ stack' = stack
      BY <2>2 DEF Arrive
    <3>2. Tail(op.segs) \in Seq(Segment) \ {<<>>}
      BY <2>2, <1>1, Operation
    <3> QED BY <3>1, <3>2, <1>1, <1>3 DEF TypeOK
  <2> QED BY <2>1, <2>2
<1>8. TypeOK'
  BY <1>3, <1>6, <1>7 DEF TypeOK, Shaped, Ids, Running
<1>9. OpenScopesAttached'
  BY <1>6 DEF OpenScopesAttached, ScopesNested
<1>10. Inside'
  BY <1>7 DEF Inside, Running, Cursor
<1> QED BY <1>8, <1>9, <1>10 DEF IInv

\* A node with another text, another name or longer attributes: its shape.
LEMMA Relabel ==
    ASSUME NEW a, Shaped(a), NEW n \in DOMAIN a, NEW U, NEW r \in NodeType,
           r.children = a[n].children, r.indexed = a[n].indexed, r.index = a[n].index,
           n # Root => r.name = a[n].name,
           IsPrefixOf(a[n].attrs, r.attrs), r.attrs = a[n].attrs \/ n \in U
    PROVE  Shaped([a EXCEPT ![n] = r]) /\ Relabelled(a, [a EXCEPT ![n] = r], U)
<1> DEFINE b == [a EXCEPT ![n] = r]
<1>1. a \in Seq(NodeType) /\ a # <<>> /\ Len(a) \in Nat \ {0} /\ DOMAIN a = 1 .. Len(a)
  BY NodeParts DEF Shaped
<1>2. b \in Seq(NodeType) /\ Len(b) = Len(a) /\ b[n] = r /\ \A q \in DOMAIN a : q # n => b[q] = a[q]
  BY <1>1
<1>3. b # <<>>
  BY <1>1, <1>2
<1>4. \A q \in DOMAIN a : IsPrefixOf(a[q].attrs, a[q].attrs)
  <2> TAKE q \in DOMAIN a
  <2>1. Len(a[q].attrs) \in Nat
    BY NodeParts
  <2> QED BY <2>1 DEF IsPrefixOf
<1> HIDE DEF b
<1>5. Relabelled(a, b, U)
  BY <1>2, <1>4 DEF Relabelled
<1> QED BY <1>2, <1>3, <1>5 DEF Shaped, b

\* A text, and longer attributes, leave a node a node.
LEMMA NodeLabels ==
    ASSUME NEW r \in NodeType, NEW t \in BOOLEAN, NEW s \in Seq(Attr)
    PROVE  /\ [r EXCEPT !.text = t] \in NodeType
           /\ [r EXCEPT !.attrs = @ \o s] \in NodeType
           /\ IsPrefixOf(r.attrs, r.attrs) /\ IsPrefixOf(r.attrs, r.attrs \o s)
<1>1. r.attrs \in Seq(Attr) /\ r.attrs \o s \in Seq(Attr)
  BY DEF NodeType
<1>2. [r EXCEPT !.text = t] \in NodeType
  BY DEF NodeType
<1>3. [r EXCEPT !.attrs = @ \o s] \in NodeType
  BY <1>1 DEF NodeType
<1>4. Len(r.attrs) \in Nat /\ Len(s) \in Nat
  BY <1>1
<1>5. IsPrefixOf(r.attrs, r.attrs)
  BY <1>4 DEF IsPrefixOf
<1>6. IsPrefixOf(r.attrs, r.attrs \o s)
  <2>1. /\ Len(r.attrs \o s) = Len(r.attrs) + Len(s)
        /\ \A i \in 1 .. Len(r.attrs) : (r.attrs \o s)[i] = r.attrs[i]
    BY <1>1, <1>4
  <2> QED BY <2>1, <1>4 DEF IsPrefixOf
<1> QED BY <1>2, <1>3, <1>5, <1>6

\* What the leaf of a path does is a change of labels, at a node it touches.
LEMMA AtLeafRelabels ==
    ASSUME TypeOK, Running, NEW a, Shaped(a), NEW n \in DOMAIN a, Touch(n)
    PROVE  /\ Shaped(AtLeaf(a, n)) /\ Relabelled(a, AtLeaf(a, n), touched')
           /\ touched \subseteq touched' /\ touched' \subseteq touched \cup {n}
<1>1. touched \subseteq touched' /\ touched' \subseteq touched \cup {n}
  BY DEF Touch
<1>2. a[n] \in NodeType /\ op.val \in BOOLEAN /\ op.attr \in Seq(Attr)
  BY NodeParts, Operation
<1>3. CASE IsLeaf /\ op.kind = "add"
  <2> DEFINE t == a[n].text \/ op.val
             r == [a[n] EXCEPT !.text = t]
  <2>1. t \in BOOLEAN
    OBVIOUS
  <2>2. AtLeaf(a, n) = [a EXCEPT ![n] = r]
    BY <1>3 DEF AtLeaf
  <2> HIDE DEF t
  <2>3. r \in NodeType /\ IsPrefixOf(a[n].attrs, a[n].attrs)
    BY <2>1, <1>2, NodeLabels
  <2>4. /\ r.children = a[n].children /\ r.indexed = a[n].indexed /\ r.index = a[n].index
        /\ r.name = a[n].name /\ r.attrs = a[n].attrs
    BY <1>2 DEF NodeType
  <2> HIDE DEF r
  <2>5. Shaped([a EXCEPT ![n] = r]) /\ Relabelled(a, [a EXCEPT ![n] = r], touched')
    BY <2>3, <2>4, Relabel
  <2> QED BY <2>2, <2>5, <1>1
<1>4. CASE IsLeaf /\ op.kind = "attr"
  <2> DEFINE r == [a[n] EXCEPT !.attrs = @ \o op.attr]
  <2>1. r \in NodeType /\ IsPrefixOf(a[n].attrs, a[n].attrs \o op.attr)
    BY <1>2, NodeLabels
  <2>2. /\ r.children = a[n].children /\ r.indexed = a[n].indexed /\ r.index = a[n].index
        /\ r.name = a[n].name /\ r.attrs = a[n].attrs \o op.attr
    BY <1>2 DEF NodeType
  <2>3. n \in touched'
    BY <1>4 DEF Touch
  <2>4. AtLeaf(a, n) = [a EXCEPT ![n] = r]
    BY <1>4 DEF AtLeaf
  <2> HIDE DEF r
  <2>5. Shaped([a EXCEPT ![n] = r]) /\ Relabelled(a, [a EXCEPT ![n] = r], touched')
    BY <2>1, <2>2, <2>3, Relabel
  <2> QED BY <2>4, <2>5, <1>1
<1>5. CASE ~(IsLeaf /\ op.kind = "add") /\ ~(IsLeaf /\ op.kind = "attr")
  <2>1. AtLeaf(a, n) = a
    BY <1>5 DEF AtLeaf
  <2>2. \A q \in DOMAIN a : Len(a[q].attrs) \in Nat
    BY NodeParts
  <2> QED BY <2>1, <2>2, <1>1 DEF Relabelled, IsPrefixOf
<1> QED BY <1>3, <1>4, <1>5

\* A step that only changes labels and arrives at a node under the cursor.
LEMMA LabelStep ==
    ASSUME IInv, Running, Shaped(arena'), Relabelled(arena, arena', touched'),
           touched \subseteq touched', touched' \subseteq DOMAIN arena,
           NEW n \in DOMAIN arena, Under(arena, Cursor, n), Arrive(n)
    PROVE  IInv'
<1>1. TypeOK /\ Tree(arena) /\ Indexed(arena, touched) /\ ScopesNested
  BY DEF IInv, OpenScopesAttached
<1>2. Tree(arena') /\ Indexed(arena', touched')
  BY <1>1, RelabelGood
<1>3. Len(arena') = Len(arena) /\ DOMAIN arena' = DOMAIN arena /\ Len(arena) \in Nat
  BY <1>1, NodeParts DEF Relabelled, Tree
<1>4. \A p \in DOMAIN arena : \A i \in DOMAIN arena[p].children :
         arena[p].children[i] <= Len(arena) =>
            \E j \in DOMAIN arena'[p].children : arena'[p].children[j] = arena[p].children[i]
  BY DEF Relabelled
<1>5. Cursor \in DOMAIN arena /\ n <= Len(arena)
        /\ \A i \in DOMAIN stack : stack[i] \in DOMAIN arena /\ stack[i] <= Len(arena)
  BY <1>1, Scopes, NodeParts DEF Tree
<1> DEFINE k == Len(arena)
<1>6. k \in Nat /\ k <= Len(arena') /\ n <= k /\ \A i \in DOMAIN stack : stack[i] <= k
  BY <1>3, <1>5
<1>7. \A p \in DOMAIN arena : \A i \in DOMAIN arena[p].children : arena[p].children[i] <= k =>
         \E j \in DOMAIN arena'[p].children : arena'[p].children[j] = arena[p].children[i]
  BY <1>4
<1> HIDE DEF k
<1>8. Len(arena) <= Len(arena')
  BY <1>6 DEF k
<1>9. \A i, j \in DOMAIN stack : i <= j => Under(arena', stack[i], stack[j])
  BY <1>1, <1>6, <1>7, <1>8, NestedKept
<1>10. Under(arena', Cursor, n)
  BY <1>1, <1>5, <1>6, <1>7, <1>8, UnderKept
<1> QED BY <1>2, <1>3, <1>8, <1>9, <1>10, ArriveKeeps

\* Begin starts at the cursor.
LEMMA BeginKeeps ==
    ASSUME IInv, NEW kind \in Kinds, NEW path \in Paths, NEW val \in BOOLEAN,
           NEW attr \in Seq(Attr), Begin(kind, path, val, attr)
    PROVE  IInv'
<1>1. TypeOK /\ Tree(arena) /\ Indexed(arena, touched) /\ ScopesNested /\ stack[1] = Root
  BY DEF IInv, OpenScopesAttached
<1>2. UNCHANGED <<arena, stack, touched>>
  BY DEF Begin
<1>3. op' = [kind |-> kind, segs |-> path, val |-> val, attr |-> attr, cur |-> Cursor]
  BY DEF Begin
<1>4. path \in Seq(Segment) \ {<<>>}
  BY PathsAssumption
<1>5. Cursor \in Ids
  BY <1>1, Scopes, NodeParts DEF Tree, Ids
<1>6. TypeOK'
  <2>1. /\ op' \in [kind : Kinds \cup {"idle"}, segs : Seq(Segment), val : BOOLEAN,
                    attr : Seq(Attr), cur : Ids]
        /\ op'.segs # <<>>
    BY <1>3, <1>4, <1>5
  <2> QED BY <2>1, <1>1, <1>2 DEF TypeOK, Running, Ids
<1>7. op'.cur = Cursor /\ Cursor' = Cursor
  BY <1>2, <1>3 DEF Cursor
<1>8. Inside'
  BY <1>2, <1>7, UnderTransitive DEF Inside
<1>9. Tree(arena') /\ Indexed(arena', touched')
  BY <1>1, <1>2
<1>10. OpenScopesAttached'
  BY <1>1, <1>2 DEF OpenScopesAttached, ScopesNested
<1> QED BY <1>6, <1>8, <1>9, <1>10 DEF IInv

\* A call begins an operation.
LEMMA CallKeeps ==
    ASSUME IInv, Call
    PROVE  IInv'
<1>1. PICK path \in Paths :
         \/ \E kind \in {"create", "add", "replace"}, val \in Vals : Begin(kind, path, val, <<>>)
         \/ \E x \in Attr : Begin("attr", path, FALSE, <<x>>)
         \/ \E kind \in {"open", "enter"} : Begin(kind, path, FALSE, <<>>)
  BY DEF Call
<1>2. <<>> \in Seq(Attr) /\ \A x \in Attr : <<x>> \in Seq(Attr)
  OBVIOUS
<1>3. CASE \E kind \in {"create", "add", "replace"}, val \in Vals : Begin(kind, path, val, <<>>)
  BY <1>2, <1>3, BeginKeeps, PathsAssumption DEF Kinds
<1>4. CASE \E x \in Attr : Begin("attr", path, FALSE, <<x>>)
  BY <1>2, <1>4, BeginKeeps DEF Kinds
<1>5. CASE \E kind \in {"open", "enter"} : Begin(kind, path, FALSE, <<>>)
  BY <1>2, <1>5, BeginKeeps DEF Kinds
<1> QED BY <1>1, <1>3, <1>4, <1>5

\* The segment "." stays where it is.
LEMMA StepDotKeeps ==
    ASSUME IInv, StepDot
    PROVE  IInv'
<1>1. TypeOK /\ Tree(arena) /\ Shaped(arena) /\ Running /\ Touch(op.cur) /\ Arrive(op.cur)
  BY DEF IInv, Tree, StepDot
<1>2. op.cur \in DOMAIN arena /\ Under(arena, Cursor, op.cur)
  BY <1>1, Position
<1>3. touched \subseteq touched' /\ touched' \subseteq DOMAIN arena
  <2>1. touched \subseteq DOMAIN arena
    BY <1>1, NodeParts DEF TypeOK, Ids
  <2> QED BY <2>1, <1>1, <1>2 DEF Touch
<1>4. Shaped(arena') /\ Relabelled(arena, arena', touched')
  <2>1. CASE arena' = AtLeaf(arena, op.cur)
    BY <2>1, <1>1, <1>2, AtLeafRelabels
  <2>2. CASE arena' # AtLeaf(arena, op.cur)
    <3> DEFINE r == [arena[op.cur] EXCEPT !.text = op.val]
    <3>1. arena' = [arena EXCEPT ![op.cur] = r]
      BY <2>2 DEF StepDot
    <3>2. arena[op.cur] \in NodeType /\ op.val \in BOOLEAN
      BY <1>1, <1>2, NodeParts, Operation
    <3>3. r \in NodeType /\ IsPrefixOf(arena[op.cur].attrs, arena[op.cur].attrs)
      <4>1. <<>> \in Seq(Attr)
        OBVIOUS
      <4> QED BY <3>2, <4>1, NodeLabels
    <3>4. /\ r.children = arena[op.cur].children /\ r.indexed = arena[op.cur].indexed
          /\ r.index = arena[op.cur].index
          /\ r.name = arena[op.cur].name /\ r.attrs = arena[op.cur].attrs
      BY <3>2 DEF NodeType
    <3> HIDE DEF r
    <3>5. LET b == [arena EXCEPT ![op.cur] = r] IN Shaped(b) /\ Relabelled(arena, b, touched')
      BY <1>1, <1>2, <3>3, <3>4, Relabel
    <3> QED BY <3>1, <3>5
  <2> QED BY <2>1, <2>2
<1> QED BY <1>1, <1>2, <1>3, <1>4, LabelStep

\* A found segment moves to a child.
LEMMA StepIntoKeeps ==
    ASSUME IInv, StepInto
    PROVE  IInv'
<1> DEFINE n == arena[op.cur].children[FoundAt(arena, op.cur, Seg)]
<1>1. /\ TypeOK /\ Tree(arena) /\ Shaped(arena) /\ Sound(arena) /\ Running
      /\ Touch(n) /\ Arrive(n) /\ arena' = AtLeaf(arena, n) /\ Found(arena, op.cur, Seg)
  BY DEF IInv, Tree, Indexed, StepInto
<1>2. op.cur \in DOMAIN arena /\ Under(arena, Cursor, op.cur)
  BY <1>1, Position
<1>3. FoundAt(arena, op.cur, Seg) \in DOMAIN arena[op.cur].children /\ n \in DOMAIN arena
  BY <1>1, <1>2, FoundChild
<1>4. Under(arena, Cursor, n)
  <2>1. Under(arena, op.cur, n)
    BY <1>2, <1>3, UnderChild
  <2> HIDE DEF n
  <2> QED BY <2>1, <1>2, UnderTransitive
<1> HIDE DEF n
<1>5. touched \subseteq touched' /\ touched' \subseteq DOMAIN arena
  <2>1. touched \subseteq DOMAIN arena
    BY <1>1, NodeParts DEF TypeOK, Ids
  <2> QED BY <2>1, <1>1, <1>3 DEF Touch
<1>6. Shaped(arena') /\ Relabelled(arena, arena', touched')
  BY <1>1, <1>3, AtLeafRelabels
<1> QED BY <1>1, <1>3, <1>4, <1>5, <1>6, LabelStep

\* A new segment adds a child.
LEMMA StepNewKeeps ==
    ASSUME IInv, StepNew
    PROVE  IInv'
<1> DEFINE n == Len(arena) + 1
           text == IsLeaf /\ op.kind \in {"create", "add"} /\ op.val
           b == AddNode(arena, op.cur, Seg, text)
           k == Len(arena)
<1>1. /\ TypeOK /\ Tree(arena) /\ Sound(arena) /\ Indexed(arena, touched) /\ ScopesNested
      /\ Running /\ Touch(n) /\ Arrive(n) /\ arena' = AtLeaf(b, n)
  BY DEF IInv, Indexed, OpenScopesAttached, StepNew
<1>2. op.cur \in DOMAIN arena /\ Under(arena, Cursor, op.cur)
  BY <1>1, Position
<1>3. Seg \in Labels /\ text \in BOOLEAN
  BY <1>1, Operation
<1> HIDE DEF text
<1>4. /\ Tree(b) /\ Len(b) = n /\ n \in DOMAIN b
      /\ \A q \in DOMAIN arena : \A i \in DOMAIN arena[q].children :
            \E j \in DOMAIN b[q].children : b[q].children[j] = arena[q].children[i]
      /\ \E j \in DOMAIN b[op.cur].children : b[op.cur].children[j] = n
  BY <1>1, <1>2, <1>3, AddTree
<1>5. Indexed(b, touched)
  BY <1>1, <1>2, <1>3, AddIndexed
<1>6. k \in Nat /\ DOMAIN arena = 1 .. k /\ DOMAIN b = 1 .. n
  BY <1>1, <1>4, NodeParts DEF Tree
<1> HIDE DEF b
<1>7. /\ Shaped(arena') /\ Relabelled(b, arena', touched') /\ touched \subseteq touched'
      /\ touched' \subseteq touched \cup {n}
  BY <1>1, <1>4, AtLeafRelabels DEF Tree
<1>8. Tree(arena') /\ Indexed(arena', touched')
  BY <1>4, <1>5, <1>7, RelabelGood
<1>9. /\ Len(arena') = n /\ DOMAIN arena' = 1 .. n
      /\ \A q \in DOMAIN b : arena'[q].children = b[q].children
  BY <1>4, <1>7, NodeParts DEF Relabelled
<1>10. touched' \subseteq DOMAIN arena'
  BY <1>1, <1>6, <1>7, <1>9 DEF TypeOK, Ids
<1>11. \A p \in DOMAIN arena : \A i \in DOMAIN arena[p].children : arena[p].children[i] <= k =>
          \E j \in DOMAIN arena'[p].children : arena'[p].children[j] = arena[p].children[i]
  <2>1. \A p \in DOMAIN arena : p \in DOMAIN b
    BY <1>6
  <2> QED BY <2>1, <1>4, <1>9
<1>12. Len(arena) <= Len(arena') /\ Cursor \in DOMAIN arena /\ op.cur <= k
       /\ \A i \in DOMAIN stack : stack[i] <= k
  BY <1>1, <1>2, <1>6, <1>9, Scopes
<1> HIDE DEF k
<1>13. \A i, j \in DOMAIN stack : i <= j => Under(arena', stack[i], stack[j])
  BY <1>1, <1>6, <1>7, <1>11, <1>12, NestedKept
<1>14. Under(arena', Cursor, n)
  <2>1. Under(arena', Cursor, op.cur)
    BY <1>1, <1>6, <1>7, <1>11, <1>12, PositionKept
  <2>2. PICK j \in DOMAIN b[op.cur].children : b[op.cur].children[j] = n
    BY <1>4
  <2>3. op.cur \in DOMAIN b /\ op.cur \in DOMAIN arena'
    BY <1>2, <1>6, <1>9
  <2>4. j \in DOMAIN arena'[op.cur].children /\ arena'[op.cur].children[j] = n
    BY <2>2, <2>3, <1>9
  <2>5. Under(arena', op.cur, n)
    BY <2>3, <2>4, UnderChild
  <2> QED BY <2>1, <2>5, UnderTransitive
<1>15. n \in DOMAIN arena'
  BY <1>4, <1>6, <1>9
<1> HIDE DEF n
<1> QED BY <1>1, <1>8, <1>10, <1>12, <1>13, <1>14, <1>15, ArriveKeeps

\* Replace drops children of the node the operation stands on, and no open
\* scope is below it.
LEMMA StepReplaceKeeps ==
    ASSUME IInv, StepReplace
    PROVE  IInv'
<1> DEFINE p == op.cur
           ch == Kept(arena, p, Seg)
           a == Rebuilt(arena, p, ch)
           text == op.val
           n == Len(arena) + 1
<1>1. /\ TypeOK /\ Tree(arena) /\ Indexed(arena, touched) /\ ScopesNested
      /\ Running /\ Arrive(n) /\ arena' = AddNode(a, p, Seg, text) /\ touched' = touched
  BY DEF IInv, OpenScopesAttached, StepReplace
<1>2. p \in DOMAIN arena /\ Under(arena, Cursor, p) /\ \A i \in DOMAIN stack : stack[i] <= p
  BY <1>1, Position
<1>3. Seg \in Labels /\ text \in BOOLEAN
  BY <1>1, Operation
<1> HIDE DEF text
<1>4. /\ ch \in Seq(Nat \ {0}) /\ Ascends(ch)
      /\ \A i \in DOMAIN ch : \E j \in DOMAIN arena[p].children : ch[i] = arena[p].children[j]
  BY <1>1, <1>2, KeptProperties DEF Tree, Rising
<1> HIDE DEF ch
<1>5. /\ Tree(a) /\ Indexed(a, touched) /\ Len(a) = Len(arena)
      /\ \A q \in DOMAIN arena : q # p => a[q] = arena[q]
  BY <1>1, <1>2, <1>4, RebuildGood
<1> HIDE DEF a
<1>6. Len(arena) \in Nat /\ DOMAIN arena = 1 .. Len(arena) /\ DOMAIN a = 1 .. Len(arena)
  BY <1>1, <1>5, NodeParts DEF Tree
<1>7. /\ Tree(arena') /\ Len(arena') = n /\ n \in DOMAIN arena'
      /\ \A q \in DOMAIN a : \A i \in DOMAIN a[q].children :
            \E j \in DOMAIN arena'[q].children : arena'[q].children[j] = a[q].children[i]
      /\ \E j \in DOMAIN arena'[p].children : arena'[p].children[j] = n
  <2>1. Tree(a) /\ Sound(a) /\ p \in DOMAIN a
    BY <1>2, <1>5, <1>6 DEF Indexed
  <2> HIDE DEF p
  <2>2. LET b == AddNode(a, p, Seg, text) IN
        /\ Tree(b) /\ Len(b) = Len(a) + 1 /\ Len(b) \in DOMAIN b
        /\ \A q \in DOMAIN a : \A i \in DOMAIN a[q].children :
              \E j \in DOMAIN b[q].children : b[q].children[j] = a[q].children[i]
        /\ \E j \in DOMAIN b[p].children : b[p].children[j] = Len(b)
    BY <2>1, <1>3, AddTree
  <2> QED BY <2>2, <1>1, <1>5
<1>8. Indexed(arena', touched')
  BY <1>1, <1>2, <1>3, <1>5, <1>6, AddIndexed
<1>9. touched' \subseteq DOMAIN arena'
  BY <1>1, <1>6, <1>7, NodeParts DEF TypeOK, Ids, Tree
<1>10. \A q \in DOMAIN arena : \A i \in DOMAIN arena[q].children : arena[q].children[i] <= p =>
          \E j \in DOMAIN arena'[q].children : arena'[q].children[j] = arena[q].children[i]
  <2> TAKE q \in DOMAIN arena
  <2> TAKE i \in DOMAIN arena[q].children
  <2> HAVE arena[q].children[i] <= p
  <2>1. arena[q].children[i] \in Nat /\ q < arena[q].children[i]
    BY <1>1, NodeParts DEF Tree, Down
  <2>2. q # p
    BY <2>1, <1>2, <1>6
  <2>3. a[q] = arena[q] /\ q \in DOMAIN a
    BY <2>2, <1>5, <1>6
  <2> QED BY <2>3, <1>7
<1>11. Len(arena) <= Len(arena') /\ Cursor \in DOMAIN arena /\ p \in Nat /\ Shaped(arena') /\ p <= p
  BY <1>1, <1>2, <1>6, <1>7, Scopes DEF Tree
<1>12. \A i, j \in DOMAIN stack : i <= j => Under(arena', stack[i], stack[j])
  BY <1>1, <1>2, <1>10, <1>11, NestedKept
<1>13. Under(arena', Cursor, n)
  <2>1. Under(arena', Cursor, p)
    BY <1>1, <1>10, <1>11, PositionKept
  <2>2. p \in DOMAIN arena'
    BY <1>2, <1>6, <1>7, NodeParts DEF Tree
  <2>3. Under(arena', p, n)
    BY <2>2, <1>7, UnderChild
  <2> QED BY <2>1, <2>3, UnderTransitive
<1> HIDE DEF n
<1> QED BY <1>1, <1>7, <1>8, <1>9, <1>11, <1>12, <1>13, ArriveKeeps

\* The root's name is no child's key.
LEMMA SetRootNameKeeps ==
    ASSUME IInv, NEW name \in Tag, SetRootName(name)
    PROVE  IInv'
<1> DEFINE r == [arena[Root] EXCEPT !.name = name]
<1>1. /\ TypeOK /\ Tree(arena) /\ Shaped(arena) /\ Indexed(arena, touched) /\ ScopesNested
      /\ ~Running /\ UNCHANGED <<stack, op, touched>> /\ stack[1] = Root
      /\ arena' = [arena EXCEPT ![Root] = r]
  BY DEF IInv, Tree, OpenScopesAttached, SetRootName
<1>2. Root \in DOMAIN arena /\ arena[Root] \in NodeType
  BY <1>1, NodeParts DEF Root
<1>3. /\ r \in NodeType
      /\ r.children = arena[Root].children /\ r.indexed = arena[Root].indexed
      /\ r.index = arena[Root].index /\ r.attrs = arena[Root].attrs
  BY <1>2 DEF NodeType
<1>4. IsPrefixOf(arena[Root].attrs, r.attrs)
  <2>1. Len(arena[Root].attrs) \in Nat
    BY <1>1, <1>2, NodeParts
  <2> QED BY <2>1, <1>3 DEF IsPrefixOf
<1> HIDE DEF r
<1>5. Shaped(arena') /\ Relabelled(arena, arena', touched)
  BY <1>1, <1>2, <1>3, <1>4, Relabel
<1>6. Tree(arena') /\ Indexed(arena', touched')
  BY <1>1, <1>5, RelabelGood
<1>7. Len(arena') = Len(arena) /\ \A q \in DOMAIN arena : arena'[q].children = arena[q].children
  BY <1>5 DEF Relabelled
<1>8. TypeOK'
  BY <1>1, <1>5, <1>7 DEF TypeOK, Shaped, Ids, Running
<1>9. \A m, n : Under(arena, m, n) => Under(arena', m, n)
  <2>1. DOMAIN arena = 1 .. Len(arena)
    BY <1>1, NodeParts
  <2> QED BY <2>1, <1>7 DEF Under
<1>10. OpenScopesAttached' /\ Inside'
  BY <1>1, <1>9 DEF OpenScopesAttached, ScopesNested, Inside, Running
<1> QED BY <1>6, <1>8, <1>10 DEF IInv

\* Leaving closes the innermost scope only.
LEMMA LeaveKeeps ==
    ASSUME IInv, Leave
    PROVE  IInv'
<1> DEFINE l == Len(stack) - 1
<1>1. /\ TypeOK /\ Tree(arena) /\ Indexed(arena, touched) /\ ScopesNested /\ stack[1] = Root
      /\ ~Running /\ UNCHANGED <<arena, op, touched>>
      /\ Len(stack) > 1 /\ stack' = SubSeq(stack, 1, l)
  BY DEF IInv, OpenScopesAttached, Leave
<1>2. stack \in Seq(Ids) /\ Len(stack) \in Nat /\ DOMAIN stack = 1 .. Len(stack)
  BY <1>1 DEF TypeOK
<1>3. /\ stack' \in Seq(Ids) /\ Len(stack') = l /\ DOMAIN stack' = 1 .. l /\ l \in Nat \ {0}
      /\ \A i \in 1 .. l : stack'[i] = stack[i] /\ i \in DOMAIN stack
  BY <1>1, <1>2
<1> HIDE DEF l
<1>4. stack' # <<>> /\ stack'[1] = Root
  BY <1>1, <1>3
<1>5. TypeOK'
  BY <1>1, <1>3, <1>4 DEF TypeOK, Ids, Running
<1>6. OpenScopesAttached' /\ Inside'
  BY <1>1, <1>3, <1>4 DEF OpenScopesAttached, ScopesNested, Inside, Running
<1> QED BY <1>1, <1>5, <1>6 DEF IInv

-----------------------------------------------------------------------------
(* The theorems                                                            *)

\* The empty tree is good.
LEMMA InitIInv == Init => IInv
<1> SUFFICES ASSUME Init PROVE IInv
  OBVIOUS
<1> DEFINE r == NewNode([tag |-> Dot, attribs |-> <<>>], FALSE)
<1>1. arena = <<r>> /\ stack = <<Root>> /\ op = Idle /\ touched = {}
  BY DEF Init
<1>2. r \in NodeType /\ r.children = <<>> /\ r.indexed = FALSE /\ r.index = {}
  BY DEF NewNode, NodeType
<1> HIDE DEF r
<1>3. arena \in Seq(NodeType) /\ arena # <<>> /\ Len(arena) = 1 /\ DOMAIN arena = {1} /\ arena[1] = r
  BY <1>1, <1>2
<1>4. Tree(arena)
  BY <1>2, <1>3 DEF Tree, Shaped, Down, Rising, Ascends, OneParent
<1>5. Indexed(arena, touched)
  BY <1>2, <1>3, ThresholdAssumption DEF Indexed, Wide, Sound, Exact
<1>6. stack \in Seq({1}) /\ Len(stack) = 1 /\ stack # <<>> /\ stack[1] = Root /\ DOMAIN stack = {1}
  BY <1>1 DEF Root
<1>7. op \in [kind : Kinds \cup {"idle"}, segs : Seq(Segment), val : BOOLEAN, attr : Seq(Attr), cur : {1}]
  BY <1>1 DEF Idle, Root
<1>8. ~Running
  BY <1>1 DEF Running, Idle
<1>9. Ids = {1}
  BY <1>3 DEF Ids
<1>10. TypeOK
  BY <1>1, <1>3, <1>6, <1>7, <1>8, <1>9 DEF TypeOK
<1>11. OpenScopesAttached
  BY <1>6, UnderTransitive DEF OpenScopesAttached, ScopesNested
<1> QED BY <1>4, <1>5, <1>8, <1>10, <1>11 DEF IInv, Inside

\* Every step keeps the invariant.
LEMMA NextIInv == IInv /\ [Next]_vars => IInv'
<1> SUFFICES ASSUME IInv, [Next]_vars PROVE IInv'
  OBVIOUS
<1>1. CASE Call
  BY <1>1, CallKeeps
<1>2. CASE StepDot
  BY <1>2, StepDotKeeps
<1>3. CASE StepInto
  BY <1>3, StepIntoKeeps
<1>4. CASE StepNew
  BY <1>4, StepNewKeeps
<1>5. CASE StepReplace
  BY <1>5, StepReplaceKeeps
<1>6. CASE \E name \in Tag : SetRootName(name)
  BY <1>6, SetRootNameKeeps
<1>7. CASE Leave
  BY <1>7, LeaveKeeps
<1>8. CASE UNCHANGED vars
  <2>1. arena' = arena /\ stack' = stack /\ op' = op /\ touched' = touched
    BY <1>8 DEF vars
  <2>2. TypeOK' /\ OpenScopesAttached' /\ Inside'
    BY <2>1 DEF IInv, TypeOK, OpenScopesAttached, ScopesNested, Inside, Running, Cursor, Ids
  <2> QED BY <2>1, <2>2 DEF IInv
<1> QED BY <1>1, <1>2, <1>3, <1>4, <1>5, <1>6, <1>7, <1>8 DEF Next

\* The inductive invariant holds throughout.
THEOREM Inductive == Spec => []IInv
BY InitIInv, NextIInv, PTL DEF Spec

\* What the inductive invariant says of the current state.
LEMMA Consequences ==
    ASSUME IInv
    PROVE  IsTree /\ IndexIffWide /\ IndexSound /\ LookupExact /\ OpenScopesAttached
<1>1. DOMAIN arena = Ids
  BY NodeParts DEF IInv, Tree, Ids
<1>2. TypeOK /\ Down(arena) /\ Rising(arena) /\ OneParent(arena)
  BY DEF IInv, Tree
<1>3. IsTree
  BY <1>1, <1>2 DEF IsTree, Down, Rising, Ascends, OneParent
<1>4. IndexIffWide /\ LookupExact
  BY <1>1 DEF IInv, Indexed, Wide, Exact, IndexIffWide, LookupExact
<1>5. IndexSound
  BY <1>1 DEF IInv, Indexed, Sound, EntrySound, IndexSound
<1> QED BY <1>3, <1>4, <1>5 DEF IInv

\* The arena under construction is a tree of well-typed nodes, children
\* younger than their one parent and in creation order, whatever sequence of
\* out calls a program makes (OutputTree::exec).
THEOREM TreeThroughout == Spec => []IsTree
BY Inductive, Consequences, PTL

\* push_child and rebuild_index keep an index at exactly the nodes with
\* INDEX_THRESHOLD children, for every threshold.
THEOREM IndexedWhenWide == Spec => []IndexIffWide
BY Inductive, Consequences, PTL

\* find_child_idx never answers a position outside the children or a child
\* of another name, for every threshold.
THEOREM IndexStaysSound == Spec => []IndexSound
BY Inductive, Consequences, PTL

\* Where add_attribute changed no child, the index answers what the scan
\* answers, for every threshold.
THEOREM LookupStaysExact == Spec => []LookupExact
BY Inductive, Consequences, PTL

\* No sequence of out calls detaches an open scope.
THEOREM ScopesStayAttached == Spec => []OpenScopesAttached
BY Inductive, Consequences, PTL
=============================================================================
