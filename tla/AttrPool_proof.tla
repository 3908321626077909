--------------------------- MODULE AttrPool_proof ---------------------------
(***************************************************************************)
(* Proofs about the attribute pool, for any set of nodes, attributes and   *)
(* initial lists and any bound on the pool.                                *)
(***************************************************************************)
EXTENDS AttrPool, SequenceTheorems, TLAPS

\* The inductive invariant: the ranges lie in the pool, hold live entries
\* only, and no two share an entry.
IInv == TypeOK /\ RangesInPool /\ RangesDisjoint

\* The empty pool.
LEMMA InitIInv == Init => IInv
BY DEF Init, IInv, TypeOK, RangesInPool, RangesDisjoint, Slots

\* The last position of a list that grew by one, or an old one.
LEMMA LastOrEarlier ==
  ASSUME NEW k \in Nat, NEW j \in 1 .. k + 1
  PROVE  j \in 1 .. k \/ j = k + 1
OBVIOUS

\* The range of a node as numbers.
LEMMA RangeFacts ==
  ASSUME IInv, NEW n \in Node
  PROVE  /\ attr_start[n] \in Nat /\ attr_len[n] \in Nat /\ Len(attr_pool) \in Nat
         /\ attr_start[n] + attr_len[n] <= Len(attr_pool)
         /\ \A i \in Slots(n) : attr_pool[i] \in Attr /\ i \in 1 .. Len(attr_pool)
         /\ \A i \in 1 .. attr_len[n] : attr_start[n] + i \in Slots(n)
         /\ \A i \in 1 .. attr_len[n] : attr_pool[attr_start[n] + i] \in Attr
<1>1. attr_start[n] \in Nat /\ attr_len[n] \in Nat /\ Len(attr_pool) \in Nat
  BY DEF IInv, TypeOK
<1>2. /\ attr_start[n] + attr_len[n] <= Len(attr_pool)
      /\ \A i \in Slots(n) : attr_pool[i] \in Attr
  BY DEF IInv, RangesInPool
<1>3. \A i \in 1 .. attr_len[n] : attr_start[n] + i \in Slots(n)
  BY <1>1 DEF Slots
<1>4. \A i \in Slots(n) : i \in 1 .. Len(attr_pool)
  BY <1>1, <1>2 DEF Slots
<1>5. QED
  BY <1>1, <1>2, <1>3, <1>4

\* What relocating the range of n does to the pool.
LEMMA RelocatedPool ==
  ASSUME IInv, NEW n \in Node
  PROVE  /\ Slice(n) \in Seq(Attr)
         /\ Len(Slice(n)) = attr_len[n]
         /\ Relocated(n) \in Seq(Attr \cup {Dead})
         /\ Len(Relocated(n)) = Len(attr_pool) + attr_len[n]
         /\ \A i \in 1 .. Len(attr_pool) \ Slots(n) : Relocated(n)[i] = attr_pool[i]
         /\ \A i \in 1 .. attr_len[n] :
                Relocated(n)[Len(attr_pool) + i] = attr_pool[attr_start[n] + i]
<1> DEFINE hole == [i \in 1 .. Len(attr_pool) |->
                       IF i \in Slots(n) THEN Dead ELSE attr_pool[i]]
<1>1. \A i \in 1 .. attr_len[n] : attr_pool[attr_start[n] + i] \in Attr
  BY RangeFacts
<1>2. attr_len[n] \in Nat /\ Len(attr_pool) \in Nat
  BY DEF IInv, TypeOK
<1>3. Slice(n) \in Seq(Attr) /\ Len(Slice(n)) = attr_len[n]
  <2>1. Slice(n) \in [1 .. attr_len[n] -> Attr]
    BY <1>1 DEF Slice
  <2>2. QED
    BY <2>1, <1>2
<1>4. hole \in Seq(Attr \cup {Dead}) /\ Len(hole) = Len(attr_pool)
  <2>1. hole \in [1 .. Len(attr_pool) -> Attr \cup {Dead}]
    BY DEF IInv, TypeOK
  <2>2. QED
    BY <2>1, <1>2
<1>5. Relocated(n) = hole \o Slice(n)
  BY DEF Relocated
<1>6. Slice(n) \in Seq(Attr \cup {Dead})
  BY <1>3
<1> HIDE DEF hole
<1>7. Relocated(n) \in Seq(Attr \cup {Dead}) /\ Len(Relocated(n)) = Len(attr_pool) + attr_len[n]
  BY <1>3, <1>4, <1>5, <1>6
<1>8. \A i \in 1 .. Len(attr_pool) \ Slots(n) : Relocated(n)[i] = attr_pool[i]
  BY <1>2, <1>3, <1>4, <1>5, <1>6 DEF hole
<1>9. \A i \in 1 .. attr_len[n] :
         Relocated(n)[Len(attr_pool) + i] = attr_pool[attr_start[n] + i]
  BY <1>2, <1>3, <1>4, <1>5, <1>6 DEF Slice
<1> QED
  BY <1>3, <1>7, <1>8, <1>9

-----------------------------------------------------------------------------
(* set_node_attrs_raw on a fresh node *)

\* The new range is the tail of the grown pool, so it meets no other.
LEMMA SetIInv ==
  ASSUME IInv, NEW n \in Node, NEW raw \in InitLists, SetNodeAttrsRaw(n, raw)
  PROVE  IInv'
<1> USE DEF IInv
<1>1. raw \in Seq(Attr) /\ Len(raw) \in Nat /\ Len(attr_pool) \in Nat
  BY InitListsAssumption DEF TypeOK
<1>2. /\ attr_pool' \in Seq(Attr \cup {Dead})
      /\ Len(attr_pool') = Len(attr_pool) + Len(raw)
      /\ \A i \in 1 .. Len(attr_pool) : attr_pool'[i] = attr_pool[i]
      /\ \A i \in 1 .. Len(raw) : attr_pool'[Len(attr_pool) + i] = raw[i]
  <2>1. raw \in Seq(Attr \cup {Dead})
    BY <1>1
  <2>2. attr_pool' = attr_pool \o raw
    BY DEF SetNodeAttrsRaw
  <2>3. QED
    BY <1>1, <2>1, <2>2 DEF TypeOK
<1>3. /\ attr_start'[n] = Len(attr_pool) /\ attr_len'[n] = Len(raw)
      /\ \A m \in Node \ {n} : attr_start'[m] = attr_start[m] /\ attr_len'[m] = attr_len[m]
  BY DEF TypeOK, SetNodeAttrsRaw
<1>4. TypeOK'
  BY <1>1, <1>2 DEF TypeOK, SetNodeAttrsRaw
<1>5. RangesInPool'
  <2> SUFFICES ASSUME NEW m \in Node
               PROVE  /\ attr_start'[m] + attr_len'[m] <= Len(attr_pool')
                      /\ \A i \in Slots(m)' : attr_pool'[i] \in Attr
    BY DEF RangesInPool
  <2>1. CASE m = n
    <3>1. \A i \in Slots(n)' : i - Len(attr_pool) \in 1 .. Len(raw)
      BY <1>1, <1>3 DEF Slots
    <3>2. \A i \in Slots(n)' : i = Len(attr_pool) + (i - Len(attr_pool))
      BY <1>1, <1>3 DEF Slots
    <3>3. \A j \in 1 .. Len(raw) : raw[j] \in Attr
      BY <1>1
    <3>4. \A i \in Slots(n)' : attr_pool'[i] \in Attr
      BY <1>2, <3>1, <3>2, <3>3
    <3>5. QED
      BY <2>1, <3>4, <1>1, <1>2, <1>3
  <2>2. CASE m # n
    <3>1. Slots(m)' = Slots(m)
      BY <2>2, <1>3 DEF Slots
    <3>2. /\ attr_start[m] + attr_len[m] <= Len(attr_pool)
          /\ attr_start[m] \in Nat /\ attr_len[m] \in Nat
      BY RangeFacts
    <3>3. \A i \in Slots(m) : attr_pool[i] \in Attr /\ i \in 1 .. Len(attr_pool)
      BY RangeFacts
    <3>4. \A i \in Slots(m)' : attr_pool'[i] \in Attr
      BY <3>1, <3>3, <1>2
    <3>5. attr_start'[m] + attr_len'[m] <= Len(attr_pool')
      BY <2>2, <3>2, <1>1, <1>2, <1>3
    <3>6. QED
      BY <3>4, <3>5
  <2>3. QED
    BY <2>1, <2>2
<1>6. RangesDisjoint'
  <2>1. \A m \in Node \ {n} : Slots(m)' = Slots(m)
    BY <1>3 DEF Slots
  <2>2. \A m \in Node \ {n} : Slots(m) \cap Slots(n)' = {}
    <3>1. \A i \in Slots(n)' : i > Len(attr_pool)
      BY <1>1, <1>3 DEF Slots
    <3>2. \A m \in Node : \A i \in Slots(m) : i <= Len(attr_pool)
      BY RangeFacts, <1>1
    <3>3. \A m \in Node : \A i \in Slots(m) : i \in Nat
      BY RangeFacts
    <3>4. QED
      BY <3>1, <3>2, <3>3, <1>1
  <2>3. QED
    BY <2>1, <2>2 DEF RangesDisjoint
<1>7. QED
  BY <1>4, <1>5, <1>6

-----------------------------------------------------------------------------
(* push_node_attr *)

\* In both branches the new range ends where the pool ends, holds the old
\* slice and the new pair, and no other node's entries were touched.
LEMMA PushEffect ==
  ASSUME IInv, NEW n \in Node, NEW a \in Attr, PushNodeAttr(n, a)
  PROVE  /\ attr_pool' \in Seq(Attr \cup {Dead})
         /\ attr_start'[n] \in Nat
         /\ attr_len'[n] = attr_len[n] + 1
         /\ attr_start'[n] + attr_len'[n] = Len(attr_pool')
         /\ attr_start'[n] >= attr_start[n]
         /\ attr_start'[n] = attr_start[n] \/ attr_start'[n] = Len(attr_pool)
         /\ AtTail(n) => attr_start'[n] = attr_start[n]
         /\ ~AtTail(n) => attr_start'[n] = Len(attr_pool)
         /\ Len(attr_pool') > Len(attr_pool)
         /\ \A i \in 1 .. attr_len[n] :
               attr_pool'[attr_start'[n] + i] = attr_pool[attr_start[n] + i]
         /\ attr_pool'[attr_start'[n] + attr_len[n] + 1] = a
         /\ \A i \in 1 .. Len(attr_pool) \ Slots(n) : attr_pool'[i] = attr_pool[i]
         /\ \A m \in Node \ {n} : attr_start'[m] = attr_start[m] /\ attr_len'[m] = attr_len[m]
<1> USE DEF IInv
<1>1. /\ attr_len' = [attr_len EXCEPT ![n] = @ + 1]
      /\ attr_len[n] \in Nat /\ attr_start[n] \in Nat /\ Len(attr_pool) \in Nat
      /\ attr_start[n] + attr_len[n] <= Len(attr_pool)
  BY DEF PushNodeAttr, TypeOK, RangesInPool
<1>2. CASE AtTail(n)
  <2>1. attr_pool' = Append(attr_pool, a) /\ attr_start' = attr_start
    BY <1>2 DEF PushNodeAttr
  <2>2. attr_pool \in Seq(Attr \cup {Dead}) /\ a \in Attr \cup {Dead}
    BY DEF TypeOK
  <2>3. QED
    <3>1. /\ attr_pool' \in Seq(Attr \cup {Dead})
          /\ Len(attr_pool') = Len(attr_pool) + 1
          /\ \A i \in 1 .. Len(attr_pool) : attr_pool'[i] = attr_pool[i]
          /\ attr_pool'[Len(attr_pool) + 1] = a
      BY <2>1, <2>2
    <3>2. /\ attr_start'[n] = attr_start[n] /\ attr_len'[n] = attr_len[n] + 1
          /\ attr_start[n] + attr_len[n] = Len(attr_pool)
          /\ \A m \in Node \ {n} : attr_start'[m] = attr_start[m] /\ attr_len'[m] = attr_len[m]
      BY <1>1, <1>2, <2>1 DEF TypeOK, AtTail
    <3>3. \A i \in 1 .. attr_len[n] :
             attr_pool'[attr_start'[n] + i] = attr_pool[attr_start[n] + i]
      <4>1. \A i \in 1 .. attr_len[n] : attr_start[n] + i \in 1 .. Len(attr_pool)
        BY <1>1
      <4>2. QED
        BY <4>1, <3>1, <3>2
    <3>4. QED
      BY <1>1, <1>2, <3>1, <3>2, <3>3
<1>3. CASE ~AtTail(n)
  <2>1. /\ attr_pool' = Append(Relocated(n), a)
        /\ attr_start' = [attr_start EXCEPT ![n] = Len(attr_pool)]
    BY <1>3 DEF PushNodeAttr
  <2>2. a \in Attr \cup {Dead}
    OBVIOUS
  <2>3. /\ attr_pool' \in Seq(Attr \cup {Dead})
        /\ Len(attr_pool') = Len(attr_pool) + attr_len[n] + 1
        /\ \A i \in 1 .. Len(Relocated(n)) : attr_pool'[i] = Relocated(n)[i]
        /\ attr_pool'[Len(Relocated(n)) + 1] = a
    BY <1>1, <2>1, <2>2, RelocatedPool
  <2>4. attr_start'[n] = Len(attr_pool)
    BY <2>1 DEF TypeOK
  <2>5. \A i \in 1 .. attr_len[n] :
           attr_pool'[attr_start'[n] + i] = attr_pool[attr_start[n] + i]
    <3>1. \A i \in 1 .. attr_len[n] : /\ Len(attr_pool) + i \in 1 .. Len(Relocated(n))
                                     /\ attr_pool[attr_start[n] + i]
                                          = Relocated(n)[Len(attr_pool) + i]
      BY <1>1, RelocatedPool
    <3>2. QED
      BY <2>3, <2>4, <3>1
  <2>6. ASSUME NEW i \in 1 .. Len(attr_pool) \ Slots(n) PROVE attr_pool'[i] = attr_pool[i]
    <3>1. Relocated(n)[i] = attr_pool[i] /\ Len(Relocated(n)) = Len(attr_pool) + attr_len[n]
      BY RelocatedPool
    <3>2. i \in 1 .. Len(Relocated(n))
      BY <1>1, <3>1
    <3>3. QED
      BY <2>3, <3>1, <3>2
  <2>7. attr_pool'[attr_start'[n] + attr_len[n] + 1] = a
    BY <1>1, <2>3, <2>4, RelocatedPool
  <2>8. \A m \in Node \ {n} : attr_start'[m] = attr_start[m] /\ attr_len'[m] = attr_len[m]
    BY <1>1, <2>1 DEF TypeOK
  <2>9. attr_len'[n] = attr_len[n] + 1
    BY <1>1 DEF TypeOK
  <2>10. QED
    <3>1. Len(attr_pool') \in Nat /\ Len(attr_pool') > Len(attr_pool)
      BY <1>1, <2>3
    <3>2. attr_start'[n] + attr_len'[n] = Len(attr_pool') /\ attr_start'[n] >= attr_start[n]
      BY <1>1, <2>3, <2>4, <2>9
    <3>3. QED
      BY <1>1, <1>3, <2>3, <2>4, <2>5, <2>6, <2>7, <2>8, <2>9, <3>1, <3>2
<1>4. QED
  BY <1>2, <1>3

\* Growing the range of one node keeps the others where they were.
LEMMA PushIInv ==
  ASSUME IInv, NEW n \in Node, NEW a \in Attr, PushNodeAttr(n, a)
  PROVE  IInv'
<1> USE DEF IInv
<1>1. TypeOK'
  <2>1. attr_len' \in [Node -> Nat] /\ live' \subseteq Node
    BY DEF TypeOK, PushNodeAttr
  <2>2. attr_start' \in [Node -> Nat]
    BY DEF TypeOK, PushNodeAttr
  <2>3. QED
    BY <2>1, <2>2, PushEffect DEF TypeOK
<1>2. RangesInPool'
  <2> SUFFICES ASSUME NEW m \in Node
               PROVE  /\ attr_start'[m] + attr_len'[m] <= Len(attr_pool')
                      /\ \A i \in Slots(m)' : attr_pool'[i] \in Attr
    BY DEF RangesInPool
  <2>1. CASE m = n
    <3>1. attr_start'[n] + attr_len'[n] <= Len(attr_pool')
      BY <1>1, PushEffect DEF TypeOK
    <3>2. ASSUME NEW i \in Slots(n)' PROVE attr_pool'[i] \in Attr
      <4>1. \A j \in 1 .. attr_len[n] : attr_pool[attr_start[n] + j] \in Attr
        BY RangeFacts
      <4>2. PICK j \in 1 .. attr_len[n] + 1 : i = attr_start'[n] + j
        <5>1. attr_start'[n] \in Nat /\ attr_len[n] \in Nat /\ attr_len'[n] = attr_len[n] + 1
          BY PushEffect, RangeFacts
        <5>2. i \in attr_start'[n] + 1 .. attr_start'[n] + attr_len'[n]
          BY <3>2 DEF Slots
        <5>3. i - attr_start'[n] \in 1 .. attr_len[n] + 1 /\ i = attr_start'[n] + (i - attr_start'[n])
          BY <5>1, <5>2
        <5>4. QED
          BY <5>3
      <4>3. CASE j \in 1 .. attr_len[n]
        <5>1. attr_pool'[attr_start'[n] + j] = attr_pool[attr_start[n] + j]
          BY <4>3, PushEffect
        <5>2. QED
          BY <4>1, <4>2, <4>3, <5>1
      <4>4. CASE j = attr_len[n] + 1
        <5>1. attr_start'[n] \in Nat /\ attr_len[n] \in Nat
          BY PushEffect, RangeFacts
        <5>2. i = attr_start'[n] + attr_len[n] + 1
          BY <4>2, <4>4, <5>1
        <5>3. attr_pool'[attr_start'[n] + attr_len[n] + 1] = a
          BY PushEffect
        <5>4. QED
          BY <5>2, <5>3
      <4>5. attr_len[n] \in Nat /\ j \in 1 .. attr_len[n] + 1
        BY RangeFacts
      <4>6. QED
        BY <4>3, <4>4, <4>5, LastOrEarlier
    <3>3. QED
      BY <2>1, <3>1, <3>2
  <2>2. CASE m # n
    <3>1. Slots(m)' = Slots(m)
      BY <2>2, PushEffect DEF Slots
    <3>2. \A i \in Slots(m) : i \in 1 .. Len(attr_pool) \ Slots(n)
      BY <2>2 DEF RangesInPool, RangesDisjoint, Slots, TypeOK
    <3>3. /\ attr_start'[m] = attr_start[m] /\ attr_len'[m] = attr_len[m]
          /\ \A i \in 1 .. Len(attr_pool) \ Slots(n) : attr_pool'[i] = attr_pool[i]
          /\ Len(attr_pool') > Len(attr_pool) /\ attr_pool' \in Seq(Attr \cup {Dead})
      BY <2>2, PushEffect
    <3>4. attr_start[m] + attr_len[m] <= Len(attr_pool')
      BY <3>3, RangeFacts
    <3>5. \A i \in Slots(m) : attr_pool[i] \in Attr
      BY RangeFacts
    <3>6. QED
      BY <3>1, <3>2, <3>3, <3>4, <3>5
  <2>3. QED
    BY <2>1, <2>2
<1>3. RangesDisjoint'
  <2>1. \A m \in Node \ {n} : Slots(m)' = Slots(m)
    BY PushEffect DEF Slots
  <2>2. \A m \in Node \ {n} : Slots(m) \cap Slots(n)' = {}
    <3> SUFFICES ASSUME NEW m \in Node \ {n}, NEW i \in Slots(m), i \in Slots(n)'
                 PROVE  FALSE
      OBVIOUS
    <3>1. i \in 1 .. Len(attr_pool) /\ i \notin Slots(n)
      BY DEF RangesInPool, RangesDisjoint, Slots, TypeOK
    <3>2. i >= attr_start'[n] + 1
      BY DEF Slots
    <3>3. attr_start[n] \in Nat /\ attr_len[n] \in Nat /\ Len(attr_pool) \in Nat
      BY RangeFacts
    <3>4. CASE AtTail(n)
      <4>1. attr_start'[n] = attr_start[n] /\ attr_start[n] + attr_len[n] = Len(attr_pool)
        BY <3>4, PushEffect DEF AtTail
      <4>2. i \in attr_start[n] + 1 .. attr_start[n] + attr_len[n]
        BY <3>1, <3>2, <3>3, <4>1
      <4>3. QED
        BY <3>1, <4>2 DEF Slots
    <3>5. CASE ~AtTail(n)
      <4>1. attr_start'[n] = Len(attr_pool)
        BY <3>5, PushEffect
      <4>2. QED
        BY <3>1, <3>2, <3>3, <4>1
    <3>6. QED
      BY <3>4, <3>5
  <2>3. QED
    BY <2>1, <2>2 DEF RangesDisjoint
<1>4. QED
  BY <1>1, <1>2, <1>3

-----------------------------------------------------------------------------
(* The theorems *)

\* Every operation keeps the inductive invariant.
LEMMA NextIInv == IInv /\ [Next]_vars => IInv'
<1> SUFFICES ASSUME IInv, [Next]_vars PROVE IInv'
  OBVIOUS
<1>1. ASSUME NEW n \in Node, NEW raw \in InitLists, SetNodeAttrsRaw(n, raw) PROVE IInv'
  BY <1>1, SetIInv
<1>2. ASSUME NEW n \in Node, NEW a \in Attr, PushNodeAttr(n, a) PROVE IInv'
  BY <1>2, PushIInv
<1>3. CASE UNCHANGED vars
  BY <1>3 DEF vars, IInv, TypeOK, RangesInPool, RangesDisjoint, Slots
<1>4. QED
  BY <1>1, <1>2, <1>3 DEF Next

\* Offsets and lengths stay numbers and the pool a sequence of entries.
THEOREM PoolTypeOK == Spec => []TypeOK
<1>1. IInv => TypeOK
  BY DEF IInv
<1>2. QED
  BY <1>1, InitIInv, NextIInv, PTL DEF Spec

\* Every slice the readers take lies in the pool and holds live entries only.
THEOREM PoolRangesInPool == Spec => []RangesInPool
<1>1. IInv => RangesInPool
  BY DEF IInv
<1>2. QED
  BY <1>1, InitIInv, NextIInv, PTL DEF Spec

\* No entry of the pool belongs to two nodes.
THEOREM PoolRangesDisjoint == Spec => []RangesDisjoint
<1>1. IInv => RangesDisjoint
  BY DEF IInv
<1>2. QED
  BY <1>1, InitIInv, NextIInv, PTL DEF Spec

\* The pool with its relocations is, seen through the slices, a private list
\* of attributes for every node.
THEOREM PoolImplementsNodeAttrs == Spec => ImplementsNodeAttrs
<1> DEFINE S == [m \in Node |-> Slice(m)]
<1>1. Init => Private!Init
  <2> SUFFICES ASSUME Init PROVE Private!Init
    OBVIOUS
  <2>1. ASSUME NEW n \in Node PROVE Slice(n) = <<>>
    BY DEF Init, Slice
  <2>2. QED
    BY <2>1 DEF Init, Private!Init
<1>2. IInv /\ [Next]_vars => [Private!Next]_Private!vars
  <2> SUFFICES ASSUME IInv, [Next]_vars PROVE [Private!Next]_Private!vars
    OBVIOUS
  <2>1. ASSUME NEW n \in Node, NEW raw \in InitLists, SetNodeAttrsRaw(n, raw)
        PROVE  Private!Next
    <3>1. raw \in Seq(Attr) /\ Len(raw) \in Nat
      BY InitListsAssumption
    <3>2. ASSUME NEW m \in Node \ {n} PROVE Slice(m)' = Slice(m)
      BY <2>1, <3>1 DEF SetNodeAttrsRaw, Slice, IInv, TypeOK, RangesInPool
    <3>3. Slice(n)' = raw
      <4>1. /\ attr_start'[n] = Len(attr_pool) /\ attr_len'[n] = Len(raw)
            /\ attr_pool' = attr_pool \o raw /\ attr_pool \in Seq(Attr \cup {Dead})
        BY <2>1 DEF SetNodeAttrsRaw, IInv, TypeOK
      <4>2. \A i \in 1 .. Len(raw) : attr_pool'[Len(attr_pool) + i] = raw[i]
        BY <4>1, <3>1
      <4>3. raw = [i \in 1 .. Len(raw) |-> raw[i]]
        BY <3>1
      <4>4. Slice(n)' = [i \in 1 .. Len(raw) |-> attr_pool'[Len(attr_pool) + i]]
        BY <4>1 DEF Slice
      <4>5. QED
        BY <4>2, <4>3, <4>4
    <3>4. S' = [S EXCEPT ![n] = raw]
      BY <3>2, <3>3
    <3>5. QED
      BY <2>1, <3>4 DEF Private!Next, Private!Create, SetNodeAttrsRaw
  <2>2. ASSUME NEW n \in Node, NEW a \in Attr, PushNodeAttr(n, a)
        PROVE  Private!Next
    <3>1. ASSUME NEW m \in Node \ {n} PROVE Slice(m)' = Slice(m)
      <4>1. /\ attr_start'[m] = attr_start[m] /\ attr_len'[m] = attr_len[m]
            /\ \A i \in 1 .. Len(attr_pool) \ Slots(n) : attr_pool'[i] = attr_pool[i]
        BY <2>2, PushEffect
      <4>2. ASSUME NEW i \in 1 .. attr_len[m]
            PROVE  attr_start[m] + i \in 1 .. Len(attr_pool) \ Slots(n)
        <5>1. attr_start[m] + i \in Slots(m) /\ attr_start[m] + i \in 1 .. Len(attr_pool)
          BY RangeFacts
        <5>2. Slots(m) \cap Slots(n) = {}
          BY DEF IInv, RangesDisjoint
        <5>3. QED
          BY <5>1, <5>2
      <4>3. \A i \in 1 .. attr_len[m] : attr_pool'[attr_start'[m] + i] = attr_pool[attr_start[m] + i]
        BY <4>1, <4>2
      <4>4. Slice(m)' = [i \in 1 .. attr_len'[m] |-> attr_pool'[attr_start'[m] + i]]
        BY DEF Slice
      <4>5. QED
        BY <4>1, <4>3, <4>4 DEF Slice
    <3>2. Slice(n)' = Append(Slice(n), a)
      <4>1. /\ attr_len'[n] = attr_len[n] + 1 /\ attr_len[n] \in Nat
            /\ \A i \in 1 .. attr_len[n] :
                  attr_pool'[attr_start'[n] + i] = attr_pool[attr_start[n] + i]
            /\ attr_pool'[attr_start'[n] + attr_len[n] + 1] = a
            /\ attr_start'[n] \in Nat
        BY <2>2, PushEffect DEF IInv, TypeOK
      <4>2. Slice(n) \in Seq(Attr) /\ Len(Slice(n)) = attr_len[n]
        BY RelocatedPool
      <4>3. Append(Slice(n), a) = [i \in 1 .. attr_len[n] + 1 |->
                                      IF i <= attr_len[n] THEN Slice(n)[i] ELSE a]
        <5>1. /\ Append(Slice(n), a) \in Seq(Attr) /\ Len(Append(Slice(n), a)) = attr_len[n] + 1
              /\ \A i \in 1 .. attr_len[n] : Append(Slice(n), a)[i] = Slice(n)[i]
              /\ Append(Slice(n), a)[attr_len[n] + 1] = a
          BY <4>2
        <5>2. ASSUME NEW s \in Seq(Attr) PROVE s = [i \in 1 .. Len(s) |-> s[i]]
          OBVIOUS
        <5>3. \A i \in 1 .. attr_len[n] + 1 :
                 Append(Slice(n), a)[i] = IF i <= attr_len[n] THEN Slice(n)[i] ELSE a
          BY <4>1, <5>1
        <5>4. QED
          BY <5>1, <5>2, <5>3
      <4>4. ASSUME NEW i \in 1 .. attr_len[n] + 1
            PROVE  attr_pool'[attr_start'[n] + i] =
                     IF i <= attr_len[n] THEN Slice(n)[i] ELSE a
        <5>1. CASE i <= attr_len[n]
          BY <5>1, <4>1 DEF Slice
        <5>2. CASE i = attr_len[n] + 1
          <6>1. attr_start'[n] + i = attr_start'[n] + attr_len[n] + 1
            BY <5>2, <4>1
          <6>2. QED
            BY <5>2, <6>1, <4>1
        <5>3. QED
          BY <5>1, <5>2, <4>1
      <4>5. QED
        BY <4>1, <4>3, <4>4 DEF Slice
    <3>3. S' = [S EXCEPT ![n] = Append(@, a)]
      BY <3>1, <3>2
    <3>4. QED
      BY <2>2, <3>3 DEF Private!Next, Private!Push, PushNodeAttr
  <2>3. CASE UNCHANGED vars
    BY <2>3 DEF vars, Private!vars, Slice
  <2>4. QED
    BY <2>1, <2>2, <2>3 DEF Next
<1>3. QED
  BY <1>1, <1>2, InitIInv, NextIInv, PTL DEF Spec, ImplementsNodeAttrs, Private!Spec
=============================================================================
