--------------------------- MODULE Inherit_proof ---------------------------
(***************************************************************************)
(* On every document, with any number of grammars and any parents, the     *)
(* statement list holds each grammar of the chain once, ancestors first.   *)
(*                                                                         *)
(* The calls that wait and the grammars already listed form one chain, cut *)
(* in two: every waiting call is the parent of the one before it (Links),  *)
(* the last waiting call's parent was listed last (Junction), and no       *)
(* grammar stands twice (Distinct).  What was visited is exactly the chain *)
(* (Split), lies in every closed set around the start (Least) and is       *)
(* closed itself, but for the parent still to be entered (ClosedUp).       *)
(***************************************************************************)
EXTENDS Inherit, TLAPS, SequenceTheorems

Image(s) == {s[i] : i \in DOMAIN s}
Last(s) == s[Len(s)]
Injective(s) == \A i, j \in DOMAIN s : s[i] = s[j] => i = j

Links == \A i \in 1 .. Len(calls) - 1 : calls[i + 1] = inherit[calls[i]]
Junction == calls # <<>> /\ stmts # <<>> => inherit[Last(calls)] = Last(stmts)
Distinct == /\ Injective(calls) /\ Injective(stmts)
            /\ \A i \in DOMAIN calls, j \in DOMAIN stmts : calls[i] # stmts[j]
Split == visited = Image(calls) \cup Image(stmts)
Pending(g) == phase = "up" /\ g = name
ClosedUp == \A g \in visited : inherit[g] \in Grammar => inherit[g] \in visited \/ Pending(inherit[g])
Least == \A S \in SUBSET Grammar : start \in S /\ Closed(S) =>
            visited \subseteq S /\ (phase = "up" /\ name \in Grammar => name \in S)
Up == phase = "up" => /\ stmts = <<>>
                      /\ name = IF calls = <<>> THEN start ELSE inherit[Last(calls)]
Bottom == IF calls # <<>> THEN calls[1] = start
          ELSE phase = "down" => stmts # <<>> /\ Last(stmts) = start

IInv == /\ TypeOK /\ Links /\ Junction /\ AncestorsFirst /\ Distinct /\ Split
        /\ ClosedUp /\ Least /\ Up /\ Bottom

-----------------------------------------------------------------------------
(* Sequences                                                               *)

\* The last position of a list, or one before it.
LEMMA LastOrEarlier ==
    ASSUME NEW k \in Nat, NEW i \in 1 .. k
    PROVE  i = k \/ i \in 1 .. k - 1
OBVIOUS

\* Appending to a sequence adds one element to its image.
LEMMA ImageAppend ==
    ASSUME NEW T, NEW s \in Seq(T), NEW x
    PROVE  Image(Append(s, x)) = Image(s) \cup {x}
<1>1. DOMAIN Append(s, x) = DOMAIN s \cup {Len(s) + 1}
  OBVIOUS
<1>2. \A i \in DOMAIN s : Append(s, x)[i] = s[i]
  OBVIOUS
<1>3. Append(s, x)[Len(s) + 1] = x
  OBVIOUS
<1> QED BY <1>1, <1>2, <1>3 DEF Image

\* Dropping the last element: what remains, and what the image was.
LEMMA Front ==
    ASSUME NEW T, NEW s \in Seq(T), s # <<>>
    PROVE  LET f == SubSeq(s, 1, Len(s) - 1) IN
           /\ f \in Seq(T) /\ Len(f) = Len(s) - 1
           /\ \A i \in DOMAIN f : i \in DOMAIN s /\ f[i] = s[i]
           /\ Len(s) \in DOMAIN s
           /\ Image(s) = Image(f) \cup {Last(s)}
<1> DEFINE f == SubSeq(s, 1, Len(s) - 1)
<1>1. Len(s) \in Nat \ {0}
  OBVIOUS
<1>2. f \in Seq(T) /\ Len(f) = Len(s) - 1
  <2>1. \A i \in 1 .. Len(s) - 1 : s[i] \in T
    BY <1>1
  <2> DEFINE n == Len(s) - 1
  <2>2. n \in Int /\ 1 \in Int /\ \A i \in 1 .. n : s[i] \in T
    BY <1>1, <2>1
  <2> HIDE DEF n
  <2>3. /\ SubSeq(s, 1, n) \in Seq(T)
        /\ Len(SubSeq(s, 1, n)) = IF 1 <= n THEN n - 1 + 1 ELSE 0
    BY <2>2, SubSeqProperties
  <2>4. n \in Nat
    BY <1>1 DEF n
  <2>5. Len(SubSeq(s, 1, n)) = n
    BY <2>3, <2>4
  <2> QED BY <2>3, <2>5, Zenon DEF n
<1>3. \A i \in DOMAIN f : i \in DOMAIN s /\ f[i] = s[i]
  BY <1>1, <1>2
<1>4. DOMAIN s = DOMAIN f \cup {Len(s)}
  <2>1. DOMAIN s = 1 .. Len(s) /\ DOMAIN f = 1 .. Len(s) - 1
    BY <1>2
  <2>2. 1 .. Len(s) = 1 .. Len(s) - 1 \cup {Len(s)}
    BY <1>1
  <2> QED BY <2>1, <2>2
<1> HIDE DEF f
<1>5. Image(s) = Image(f) \cup {Last(s)}
  <2>1. Image(s) \subseteq Image(f) \cup {Last(s)}
    <3> SUFFICES ASSUME NEW i \in DOMAIN s PROVE s[i] \in Image(f) \cup {Last(s)}
      BY DEF Image
    <3>1. CASE i \in DOMAIN f
      BY <3>1, <1>3 DEF Image
    <3>2. CASE i = Len(s)
      BY <3>2 DEF Last
    <3> QED BY <3>1, <3>2, <1>4
  <2>2. Image(f) \cup {Last(s)} \subseteq Image(s)
    BY <1>3, <1>4, Zenon DEF Image, Last
  <2> QED BY <2>1, <2>2, Zenon
<1>6. Len(s) \in DOMAIN s
  BY <1>1
<1> QED BY <1>2, <1>3, <1>5, <1>6, Zenon DEF f, Image, Last

-----------------------------------------------------------------------------

LEMMA InitInv == Init => IInv
<1> SUFFICES ASSUME Init PROVE IInv
  OBVIOUS
<1> USE DEF Init
<1>1. TypeOK
  BY NameAssumption DEF TypeOK
<1>2. Links /\ Junction /\ AncestorsFirst /\ Distinct
  BY DEF Links, Junction, AncestorsFirst, Distinct, Injective
<1>3. Split /\ ClosedUp /\ Up /\ Bottom
  BY DEF Split, ClosedUp, Up, Bottom, Image
<1>4. Least
  BY DEF Least
<1> QED BY <1>1, <1>2, <1>3, <1>4 DEF IInv

\* Going up: the grammar entered joins the waiting calls.
LEMMA DescendInv == IInv /\ Descend => IInv'
<1> SUFFICES ASSUME IInv, Descend PROVE IInv'
  OBVIOUS
<1> USE DEF IInv
<1>0. /\ phase = "up" /\ phase' = "up" /\ stmts = <<>> /\ stmts' = <<>>
      /\ calls \in Seq(Grammar) /\ calls' = Append(calls, name)
      /\ name \in Grammar /\ name \notin visited /\ name' = inherit[name]
      /\ visited' = visited \cup {name}
      /\ inherit' = inherit /\ start' = start
  BY DEF Descend, Up, TypeOK
<1>1. TypeOK'
  BY <1>0, NameAssumption DEF TypeOK
<1>2. /\ Len(calls') = Len(calls) + 1 /\ Len(calls) \in Nat
      /\ \A i \in 1 .. Len(calls) : calls'[i] = calls[i]
      /\ calls'[Len(calls) + 1] = name
      /\ DOMAIN calls = 1 .. Len(calls) /\ DOMAIN calls' = 1 .. Len(calls) + 1
  BY <1>0
<1>3. calls # <<>> => name = inherit[calls[Len(calls)]]
  BY <1>0 DEF Up, Last
<1>4. Links'
  <2> SUFFICES ASSUME NEW i \in 1 .. Len(calls) PROVE calls'[i + 1] = inherit[calls'[i]]
    BY <1>0, <1>2 DEF Links
  <2>1. CASE i = Len(calls)
    BY <2>1, <1>0, <1>2, <1>3
  <2>2. CASE i \in 1 .. Len(calls) - 1
    BY <2>2, <1>2 DEF Links
  <2>3. Len(calls) \in Nat /\ i \in 1 .. Len(calls)
    BY <1>2
  <2>4. i = Len(calls) \/ i \in 1 .. Len(calls) - 1
    BY <2>3, LastOrEarlier
  <2> QED BY <2>1, <2>2, <2>4
<1>5. Junction' /\ AncestorsFirst'
  BY <1>0 DEF Junction, AncestorsFirst
<1>6. Image(calls') = Image(calls) \cup {name}
  BY <1>0, ImageAppend
<1>7. Split'
  BY <1>0, <1>6 DEF Split
<1>8. \A i \in 1 .. Len(calls) : calls[i] # name
  BY <1>0, <1>2 DEF Split, Image
<1>9. Distinct'
  BY <1>0, <1>2, <1>8 DEF Distinct, Injective
<1>10. ClosedUp'
  BY <1>0 DEF ClosedUp, Pending
<1>11. Least'
  <2> SUFFICES ASSUME NEW S \in SUBSET Grammar, start \in S, Closed(S)
               PROVE  visited' \subseteq S /\ (name' \in Grammar => name' \in S)
    BY <1>0 DEF Least, Closed
  <2>1. visited \subseteq S /\ name \in S
    BY <1>0 DEF Least
  <2> QED BY <1>0, <2>1 DEF Closed
<1>12. Up'
  BY <1>0, <1>2 DEF Up, Last
<1>13. Bottom'
  BY <1>0, <1>2 DEF Bottom, Up
<1> QED BY <1>1, <1>4, <1>5, <1>7, <1>9, <1>10, <1>11, <1>12, <1>13

\* The end of the chain is found: nothing is pending any more.
LEMMA StopInv == IInv /\ Stop => IInv'
<1> SUFFICES ASSUME IInv, Stop PROVE IInv'
  OBVIOUS
<1> USE DEF IInv
<1>0. /\ phase = "up" /\ phase' = "down" /\ (name \in Grammar => name \in visited)
      /\ UNCHANGED <<inherit, start, name, calls, visited, stmts>>
  BY DEF Stop
<1>1. TypeOK'
  BY <1>0 DEF TypeOK
<1>5. Links' /\ Junction' /\ AncestorsFirst'
  BY <1>0 DEF Links, Junction, AncestorsFirst, Last
<1>6. Distinct' /\ Split'
  BY <1>0 DEF Distinct, Split, Image, Injective
<1>2. ClosedUp'
  BY <1>0 DEF ClosedUp, Pending
<1>3. Least' /\ Up'
  BY <1>0 DEF Least, Closed, Up
<1>4. Bottom'
  <2>1. calls # <<>>
    <3> SUFFICES ASSUME calls = <<>> PROVE FALSE
      OBVIOUS
    <3>1. visited = {}
      BY <1>0 DEF Split, Image, Up
    <3> QED BY <1>0, <3>1 DEF Up, TypeOK
  <2> QED BY <1>0, <2>1 DEF Bottom
<1> QED BY <1>1, <1>2, <1>3, <1>4, <1>5, <1>6

\* Going down: the last waiting call is listed after its parent.
LEMMA ReturnInv == IInv /\ Return => IInv'
<1> SUFFICES ASSUME IInv, Return PROVE IInv'
  OBVIOUS
<1> USE DEF IInv
<1> DEFINE n == Len(calls)
           m == Len(stmts)
           g == calls[n]
<1>0. /\ phase = "down" /\ phase' = "down" /\ calls # <<>>
      /\ calls \in Seq(Grammar) /\ stmts \in Seq(Grammar)
      /\ calls' = SubSeq(calls, 1, n - 1) /\ stmts' = Append(stmts, g)
      /\ UNCHANGED <<inherit, start, name, visited>>
  BY DEF Return, TypeOK
<1>1. /\ n \in Nat \ {0} /\ m \in Nat /\ g \in Grammar
      /\ DOMAIN calls = 1 .. n /\ DOMAIN stmts = 1 .. m
  BY <1>0
<1>2. /\ calls' \in Seq(Grammar) /\ Len(calls') = n - 1 /\ DOMAIN calls' = 1 .. n - 1
      /\ \A i \in 1 .. n - 1 : calls'[i] = calls[i]
      /\ Image(calls) = Image(calls') \cup {g}
  BY <1>0, <1>1, Front DEF Last
<1>3. /\ stmts' \in Seq(Grammar) /\ Len(stmts') = m + 1 /\ DOMAIN stmts' = 1 .. m + 1
      /\ \A i \in 1 .. m : stmts'[i] = stmts[i]
      /\ stmts'[m + 1] = g
  BY <1>0, <1>1
<1>4. Image(stmts') = Image(stmts) \cup {g}
  BY <1>0, ImageAppend
<1>5. TypeOK'
  BY <1>0, <1>2, <1>3 DEF TypeOK
<1>6. Links'
  BY <1>0, <1>1, <1>2 DEF Links
<1>7. Junction'
  <2> SUFFICES ASSUME calls' # <<>> PROVE inherit[calls'[n - 1]] = g
    BY <1>0, <1>1, <1>2, <1>3 DEF Junction, Last
  <2>1. n - 1 \in 1 .. n - 1
    BY <1>1, <1>2
  <2> QED BY <1>1, <1>2, <2>1 DEF Links
<1>8. AncestorsFirst'
  <2> SUFFICES ASSUME NEW i \in 1 .. m PROVE inherit[stmts'[i + 1]] = stmts'[i]
    BY <1>0, <1>3 DEF AncestorsFirst
  <2>1. CASE i = m
    <3>1. stmts # <<>>
      BY <2>1, <1>1
    <3> QED BY <2>1, <3>1, <1>0, <1>1, <1>3 DEF Junction, Last
  <2>2. CASE i \in 1 .. m - 1
    BY <2>2, <1>1, <1>3 DEF AncestorsFirst
  <2>3. m \in Nat /\ i \in 1 .. m
    BY <1>1
  <2>4. i = m \/ i \in 1 .. m - 1
    BY <2>3, LastOrEarlier
  <2> QED BY <2>1, <2>2, <2>4
<1>9. Distinct'
  <2>1. \A i \in 1 .. n - 1 : calls[i] # g
    BY <1>1 DEF Distinct, Injective
  <2>2. \A j \in 1 .. m : stmts[j] # g
    BY <1>1 DEF Distinct
  <2>3. Injective(calls)'
    BY <1>1, <1>2 DEF Distinct, Injective
  <2>4. Injective(stmts)'
    BY <1>1, <1>3, <2>2 DEF Distinct, Injective
  <2>5. (\A i \in DOMAIN calls, j \in DOMAIN stmts : calls[i] # stmts[j])'
    <3> SUFFICES ASSUME NEW i \in 1 .. n - 1, NEW j \in 1 .. m + 1 PROVE calls'[i] # stmts'[j]
      BY <1>2, <1>3
    <3>1. calls'[i] = calls[i] /\ i \in DOMAIN calls
      BY <1>1, <1>2
    <3>2. CASE j \in 1 .. m
      BY <3>1, <3>2, <1>1, <1>3 DEF Distinct
    <3>3. CASE j = m + 1
      BY <3>1, <3>3, <1>3, <2>1
    <3> QED BY <3>2, <3>3, <1>1
  <2> QED BY <2>3, <2>4, <2>5, Zenon DEF Distinct
<1>10. Split'
  BY <1>0, <1>2, <1>4 DEF Split
<1>11. ClosedUp' /\ Least' /\ Up'
  BY <1>0 DEF ClosedUp, Pending, Least, Closed, Up
<1>12. Bottom'
  <2>1. calls[1] = start
    BY <1>0 DEF Bottom
  <2>2. CASE n = 1
    BY <2>1, <2>2, <1>0, <1>2, <1>3 DEF Bottom, Last
  <2>3. CASE n > 1
    BY <2>1, <2>3, <1>0, <1>1, <1>2 DEF Bottom
  <2> QED BY <2>2, <2>3, <1>1
<1> QED BY <1>5, <1>6, <1>7, <1>8, <1>9, <1>10, <1>11, <1>12

LEMMA Inductive == Spec => []IInv
<1>1. IInv /\ UNCHANGED vars => IInv'
  <2> SUFFICES ASSUME IInv, UNCHANGED vars PROVE IInv'
    OBVIOUS
  <2>1. TypeOK' /\ Links' /\ Junction' /\ AncestorsFirst' /\ Distinct' /\ Split'
    BY DEF IInv, vars, TypeOK, Links, Junction, AncestorsFirst, Distinct, Split, Image, Last,
           Injective
  <2>2. ClosedUp' /\ Least' /\ Up' /\ Bottom'
    BY DEF IInv, vars, ClosedUp, Pending, Least, Closed, Up, Bottom, Last
  <2> QED BY <2>1, <2>2 DEF IInv
<1>2. IInv /\ [Next]_vars => IInv'
  BY <1>1, DescendInv, StopInv, ReturnInv DEF Next
<1> QED BY <1>2, InitInv, PTL DEF Spec

-----------------------------------------------------------------------------

\* When the collection is done, the list is the chain, each grammar once, the
\* grammar asked for last.
LEMMA DoneChain == IInv => CollectsChain
<1> SUFFICES ASSUME IInv, Done PROVE /\ Image(stmts) = Chain /\ Injective(stmts)
                                      /\ stmts[Len(stmts)] = start
  BY DEF CollectsChain, Image, Injective
<1> USE DEF IInv
<1>1. visited = Image(stmts)
  BY DEF Done, Split, Image
<1>2. visited \subseteq Chain
  BY DEF Least, Chain, TypeOK
<1>3. Closed(visited)
  BY DEF ClosedUp, Pending, Closed, Done
<1>4. stmts # <<>> /\ Last(stmts) = start
  BY DEF Bottom, Done
<1>5. start \in visited
  <2>1. Len(stmts) \in DOMAIN stmts
    BY <1>4 DEF TypeOK
  <2> QED BY <1>1, <1>4, <2>1 DEF Image, Last
<1>6. Chain \subseteq visited
  BY <1>3, <1>5 DEF Chain, TypeOK
<1> QED BY <1>1, <1>2, <1>4, <1>6 DEF Distinct, Last

\* The list, the calls that wait and the visited set stay of their types.
THEOREM InheritTypeOK == Spec => []TypeOK
BY Inductive, PTL DEF IInv

\* collect_inherited_statements yields each grammar of the chain exactly once
\* and nothing else, on documents of any size, cyclic ones included.
THEOREM InheritCollectsChain == Spec => []CollectsChain
BY Inductive, DoneChain, PTL

\* In the list every grammar stands right after its parent.
THEOREM InheritAncestorsFirst == Spec => []AncestorsFirst
BY Inductive, PTL DEF IInv
=============================================================================
